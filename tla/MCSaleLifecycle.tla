-------------------------- MODULE MCSaleLifecycle --------------------------
(***************************************************************************)
(* Small instances of SaleLifecycle: one product, sales back to back.      *)
(***************************************************************************)
EXTENDS SaleLifecycle, TLC

CONSTANTS Allotted,  \* units of every sale
          Shelf,     \* units the product has
          Opening1, Closing1, Opening2, Closing2,  \* windows of the sales
          First,     \* the sale with the first window
          DayLength,
          Extension  \* the end_time a PATCH sets

PriceOf == [s \in Sales |-> 1]
TotalOf == [s \in Sales |-> Allotted]
OpensAt == [s \in Sales |-> IF s = First THEN Opening1 ELSE Opening2]
ClosesAt == [s \in Sales |-> IF s = First THEN Closing1 ELSE Closing2]
FundsOf == [u \in Users |-> Cardinality(Buys) * MaxQuantity]
Calendar == [t \in 0..(MaxClock + 1) |-> t \div DayLength]

OneProduct == {"p"}
ForProduct == [s \in Sales |-> "p"]
HasUnits == [p \in OneProduct |-> Shelf]

Same == Permutations(Buys)

Extend == {[closes |-> Extension]}
ExtendOrSwitch == {[closes |-> Extension], [active |-> TRUE], [active |-> FALSE]}
=============================================================================
