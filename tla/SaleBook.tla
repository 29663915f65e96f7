------------------------------ MODULE SaleBook ------------------------------
(***************************************************************************)
(* What the API promises of flash sales to those who buy, whoever          *)
(* administers them: a sale is published once, is switched off and on, and *)
(* is withdrawn for good with its purchases.  A purchase is recorded once, *)
(* of a request that was admitted while its sale was on, and not once the  *)
(* sale is gone.                                                           *)
(***************************************************************************)
CONSTANTS Sales, Buys

VARIABLES stage,    \* of each sale: "none" yet, "on", "off" or "gone"
          wants,    \* the sale a request is for
          pending,  \* requests admitted to their sale and not answered yet
          recorded  \* requests with a purchase on record

vars == <<stage, wants, pending, recorded>>

Init == /\ stage = [s \in Sales |-> "none"]
        /\ wants \in [Buys -> Sales]
        /\ pending = {}
        /\ recorded = {}

Published(s) == stage[s] \in {"on", "off"}

Turn(s, from, to) == stage[s] = from /\ stage' = [stage EXCEPT ![s] = to]

Publish(s) == Turn(s, "none", "on") /\ UNCHANGED <<wants, pending, recorded>>

Switch(s) == /\ Turn(s, "on", "off") \/ Turn(s, "off", "on")
             /\ UNCHANGED <<wants, pending, recorded>>

Withdraw(s) == /\ Turn(s, "on", "gone") \/ Turn(s, "off", "gone")
               /\ recorded' = recorded \ {r \in Buys : wants[r] = s}
               /\ UNCHANGED <<wants, pending>>

Admit(r) == /\ r \notin pending \cup recorded
            /\ stage[wants[r]] = "on"
            /\ pending' = pending \cup {r}
            /\ UNCHANGED <<stage, wants, recorded>>

Dismiss(r) == /\ r \in pending
              /\ pending' = pending \ {r}
              /\ UNCHANGED <<stage, wants, recorded>>

Record(r) == /\ r \in pending
             /\ Published(wants[r])
             /\ pending' = pending \ {r}
             /\ recorded' = recorded \cup {r}
             /\ UNCHANGED <<stage, wants>>

Next == \/ \E s \in Sales : Publish(s) \/ Switch(s) \/ Withdraw(s)
        \/ \E r \in Buys : Admit(r) \/ Dismiss(r) \/ Record(r)

Spec == Init /\ [][Next]_vars
=============================================================================
