----------------------------- MODULE Inventory -----------------------------
(***************************************************************************)
(* What the stock of a flash sale promises, whatever keeps the count: of   *)
(* the Total[s] units put on sale, some are set aside for a buyer and some *)
(* of those are sold.  A unit is never set aside twice and nothing is sold *)
(* that was not set aside.                                                 *)
(***************************************************************************)
EXTENDS Integers

CONSTANTS Sales, MaxQuantity, Total

VARIABLES available,  \* units of each sale nobody has set aside
          sold        \* units of each sale with a purchase on record

vars == <<available, sold>>

Init == /\ available = Total
        /\ sold = [s \in Sales |-> 0]

(* A buyer sets q units aside. *)
Reserve(s, q) == /\ q <= available[s]
                 /\ available' = [available EXCEPT ![s] = @ - q]
                 /\ UNCHANGED sold

(* q of the units set aside become a recorded purchase. *)
Confirm(s, q) == /\ q <= Total[s] - available[s] - sold[s]
                 /\ sold' = [sold EXCEPT ![s] = @ + q]
                 /\ UNCHANGED available

Next == \E s \in Sales, q \in 1..MaxQuantity : Reserve(s, q) \/ Confirm(s, q)

Spec == Init /\ [][Next]_vars
=============================================================================
