----------------------------- MODULE MCPurchase -----------------------------
(***************************************************************************)
(* Small instances of Purchase.                                            *)
(***************************************************************************)
EXTENDS Purchase, TLC

CONSTANTS Unit,     \* the price of every sale
          Allotted, \* units put on sale
          Wallet,   \* balance every user starts with
          From, Until,  \* the window of every sale
          DayLength     \* instants in a day

PriceOf == [s \in Sales |-> Unit]
TotalOf == [s \in Sales |-> Allotted]
OpensAt == [s \in Sales |-> From]
ClosesAt == [s \in Sales |-> Until]
FundsOf == [u \in Users |-> Wallet]
Calendar == [t \in 0..(MaxClock + 1) |-> t \div DayLength]

Same == Permutations(Buys)

=============================================================================
