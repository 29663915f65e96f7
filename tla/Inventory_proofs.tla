-------------------------- MODULE Inventory_proofs --------------------------
(***************************************************************************)
(* Purchase implements Inventory: a DECRBY answered with a number that is  *)
(* not negative sets units aside, a commit sells them, and every other     *)
(* step of a handler is a stutter.                                         *)
(***************************************************************************)
EXTENDS Purchase_proofs

-----------------------------------------------------------------------------
(* A request that waits for its INCRBY was never accepted. *)
ShortNotAccepted == \A q \in Buys : pc[q] = "short" => ~InStock(left[q])

(* Steps that leave the abstract state alone, and what they keep. *)
NoneShort == left' = left /\ \A q \in Buys : pc'[q] = "short" => pc[q] = "short"
Idles == /\ ask' = ask /\ left' = left /\ bought' = bought
         /\ \A q \in Buys : pc'[q] \in Took <=> pc[q] \in Took

LEMMA QuietSteps ==
  ASSUME TypeOK, [Next]_vars
  PROVE  \/ Idles /\ NoneShort
         \/ \E r \in Buys : DecrStock(r) \/ GiveBack(r) \/ Commit(r)
<1> USE DEF Idles, NoneShort, redis, postgres, locals, vars, Took, Holding, Go, Requests, TypeOK
<1>1. ASSUME NEW r \in Requests, Authenticate(r) PROVE Idles /\ NoneShort
  BY <1>1 DEF Authenticate
<1>2. ASSUME NEW r \in Buys,
             LoadSale(r) \/ TurnAway(r) \/ CheckDaily(r) \/ CountRequest(r)
               \/ SetRateWindow(r) \/ TurnAwayPoor(r)
      PROVE  Idles /\ NoneShort
  BY <1>2 DEF LoadSale, TurnAway, CheckDaily, CountRequest, SetRateWindow, TurnAwayPoor
<1>3. ASSUME NEW r \in Buys, FlushUser(r) \/ FlushSale(r) \/ MarkDaily(r)
      PROVE  Idles /\ NoneShort
  BY <1>3 DEF FlushUser, FlushSale, MarkDaily
<1>4. ASSUME NEW r \in TopUps, FlushTopUp(r) \/ CommitTopUp(r) PROVE Idles /\ NoneShort
  BY <1>4, RequestsAssumption DEF FlushTopUp, CommitTopUp
<1>5. ASSUME NEW r \in MayFail, Fail(r) PROVE Idles /\ NoneShort
  BY <1>5, RequestsAssumption DEF Fail, InFlight
<1>6. ASSUME Environment PROVE Idles /\ NoneShort
  BY <1>6 DEF Environment, Tick, RateWindowEnds, DailyKeyExpires
<1>7. ASSUME UNCHANGED vars PROVE Idles /\ NoneShort
  BY <1>7
<1> QED
  BY <1>1, <1>2, <1>3, <1>4, <1>5, <1>6, <1>7 DEF Next, Step, BuyStep, TopUpStep, Terminated

LEMMA ShortInit == Init => ShortNotAccepted
  BY DEF Init, Opening, Requests, ShortNotAccepted

LEMMA ShortStep == TypeOK /\ ShortNotAccepted /\ [Next]_vars => ShortNotAccepted'
<1> SUFFICES ASSUME TypeOK, ShortNotAccepted, [Next]_vars PROVE ShortNotAccepted'
  OBVIOUS
<1> USE DEF ShortNotAccepted, InStock
<1>1. CASE NoneShort
  BY <1>1 DEF NoneShort
<1>2. ASSUME NEW r \in Buys, DecrStock(r) PROVE ShortNotAccepted'
  BY <1>2 DEF DecrStock, Go, TypeOK, Requests
<1>3. ASSUME NEW r \in Buys, GiveBack(r) \/ Commit(r) PROVE ShortNotAccepted'
  BY <1>3 DEF GiveBack, Commit, locals, Go, TypeOK, Requests
<1> QED
  BY <1>1, <1>2, <1>3, QuietSteps

-----------------------------------------------------------------------------
(* The refinement mapping. *)

Free == [s \in Sales |-> Total[s] - UnitCount(Accepted(s))]
Sold == [s \in Sales |-> UnitCount(Recorded(s))]

LEMMA MapStutters ==
  ASSUME ask' = ask, \A s \in Sales : Accepted(s)' = Accepted(s) /\ Recorded(s)' = Recorded(s)
  PROVE  Free' = Free /\ Sold' = Sold
<1>1. \A s \in Sales : /\ UnitCount(Accepted(s))' = UnitCount(Accepted(s))
                       /\ UnitCount(Recorded(s))' = UnitCount(Recorded(s))
  BY UnitCountKept
<1> QED
  BY <1>1 DEF Free, Sold

LEMMA MapReserves ==
  ASSUME TypeOK, StockInv, NEW r \in Buys, DecrStock(r), InStock(left'[r])
  PROVE  \E s \in Sales, q \in 1..MaxQuantity :
           q <= Free[s] /\ Free' = [Free EXCEPT ![s] = @ - q] /\ Sold' = Sold
<1>a. PICK s \in Sales : s = ask[r].sale
  BY AskType
<1>b. PICK q \in 1..MaxQuantity : q = ask[r].quantity
  BY AskType
<1>1. /\ ask' = ask /\ bought' = bought
      /\ pc[r] = "counted" /\ pc' = [pc EXCEPT ![r] = "taken"]
      /\ left' = [left EXCEPT ![r] = StockOf(s) - q]
  BY <1>a, <1>b DEF DecrStock, Go, postgres, TypeOK
<1>2. r \in Requests /\ pc'[r] = "taken" /\ \A p \in Buys \ {r} : pc'[p] = pc[p] /\ left'[p] = left[p]
  BY <1>1 DEF TypeOK, Requests
<1>3. \A t \in Sales : t # s => Accepted(t)' = Accepted(t)
  BY <1>a, <1>1, <1>2 DEF Accepted, Taken, InStock
<1>4. /\ Accepted(s)' = Accepted(s) \cup {r} /\ r \notin Accepted(s)
      /\ Accepted(s) \in SUBSET Buys
  BY <1>a, <1>1, <1>2 DEF Accepted, Taken, InStock, Took, Holding
<1>5. UnitCount(Accepted(s))' = UnitCount(Accepted(s)) + q
  BY <1>b, <1>1, <1>4, UnitCountKept, AskTyped, UnitsAdd
<1>6. \A t \in Sales : t # s => UnitCount(Accepted(t))' = UnitCount(Accepted(t))
  BY <1>1, <1>3, UnitCountKept
<1>7. \A t \in Sales : UnitCount(Recorded(t))' = UnitCount(Recorded(t))
  BY <1>1, UnitCountKept DEF Recorded
<1>8. Total[s] \in Nat /\ q \in Nat /\ UnitCount(Accepted(s)) \in Nat
  BY <1>4, AskTyped, UnitsFinite, ValuesAssumption
<1>9. q <= Free[s]
  <2>1. Accepted(s) \in SUBSET Taken(s) /\ Taken(s) \in SUBSET Buys
    BY DEF Accepted, Taken
  <2>2. UnitCount(Accepted(s)) <= UnitCount(Taken(s)) /\ UnitCount(Taken(s)) \in Nat
    BY <2>1, AskTyped, UnitsMonotone, UnitsFinite
  <2>3. StockOf(s) = Total[s] - UnitCount(Taken(s))
    BY DEF StockInv, StockConserved
  <2>4. left'[r] = StockOf(s) - q
    BY <1>1 DEF TypeOK
  <2>5. left'[r] >= 0
    BY DEF InStock
  <2> QED
    BY <1>8, <2>2, <2>3, <2>4, <2>5 DEF Free
<1>10. Free' = [Free EXCEPT ![s] = @ - q]
  <2> DEFINE n(t) == UnitCount(Accepted(t))
  <2>1. \A a \in Nat : Total[s] - (a + q) = (Total[s] - a) - q
    BY <1>8
  <2>2. Total[s] - n(s)' = (Total[s] - n(s)) - q
    BY <1>5, <1>8, <2>1
  <2>3. \A t \in Sales : t # s => Total[t] - n(t)' = Total[t] - n(t)
    BY <1>6
  <2>4. Free' = [t \in Sales |-> Total[t] - n(t)']
    BY DEF Free
  <2> HIDE DEF n
  <2> QED
    BY <2>2, <2>3, <2>4 DEF Free, n
<1>11. Sold' = Sold
  BY <1>7 DEF Sold
<1> QED
  BY <1>9, <1>10, <1>11

LEMMA MapConfirms ==
  ASSUME TypeOK, StockInv, NEW r \in Buys, Commit(r)
  PROVE  \E s \in Sales, q \in 1..MaxQuantity :
           /\ q <= Total[s] - Free[s] - Sold[s]
           /\ Sold' = [Sold EXCEPT ![s] = @ + q] /\ Free' = Free
<1>a. PICK s \in Sales : s = ask[r].sale
  BY AskType
<1>b. PICK q \in 1..MaxQuantity : q = ask[r].quantity
  BY AskType
<1>1. /\ ask' = ask /\ left' = left /\ bought' = bought \cup {r}
      /\ pc[r] = "marked" /\ pc' = [pc EXCEPT ![r] = "done"]
  BY DEF Commit, Go, locals
<1>2. pc'[r] = "done" /\ \A p \in Buys \ {r} : pc'[p] = pc[p]
  BY <1>1 DEF TypeOK, Requests
<1>3. r \notin bought /\ bought \in SUBSET Buys
  BY <1>1 DEF StockInv, TypeOK
<1>4. \A t \in Sales : Accepted(t)' = Accepted(t)
  BY <1>1, <1>2 DEF Accepted, Taken, InStock, Took, Holding
<1>5. \A t \in Sales : t # s => Recorded(t)' = Recorded(t)
  BY <1>a, <1>1 DEF Recorded
<1>6. /\ Recorded(s)' = Recorded(s) \cup {r} /\ r \notin Recorded(s)
      /\ Recorded(s) \in SUBSET Buys
  BY <1>a, <1>1, <1>3 DEF Recorded
<1>7. UnitCount(Recorded(s) \cup {r}) = UnitCount(Recorded(s)) + q
  BY <1>b, <1>6, AskTyped, UnitsAdd
<1>8. UnitCount(Recorded(s))' = UnitCount(Recorded(s)) + q
  BY <1>1, <1>6, <1>7, UnitCountKept
<1>9. \A t \in Sales : /\ UnitCount(Accepted(t))' = UnitCount(Accepted(t))
                       /\ t # s => UnitCount(Recorded(t))' = UnitCount(Recorded(t))
  BY <1>1, <1>4, <1>5, UnitCountKept
<1>10. q <= Total[s] - Free[s] - Sold[s]
  <2>1. Recorded(s) \cup {r} \in SUBSET Accepted(s) /\ Accepted(s) \in SUBSET Buys
    BY <1>a, <1>1, <1>3 DEF Recorded, Accepted, Taken, StockInv, Took, Holding
  <2>2. UnitCount(Recorded(s) \cup {r}) <= UnitCount(Accepted(s))
    BY <2>1, AskTyped, UnitsMonotone
  <2>3. UnitCount(Recorded(s)) \in Nat /\ UnitCount(Accepted(s)) \in Nat
    BY <1>6, <2>1, AskTyped, UnitsFinite
  <2>4. Total[s] \in Nat /\ q \in Nat
    BY ValuesAssumption
  <2> QED
    BY <1>7, <2>2, <2>3, <2>4 DEF Free, Sold
<1>11. Free' = Free
  BY <1>9 DEF Free
<1>12. Sold' = [Sold EXCEPT ![s] = @ + q]
  BY <1>8, <1>9 DEF Sold
<1> QED
  BY <1>10, <1>11, <1>12

LEMMA MapInit == Init => Inv!Init
<1> SUFFICES ASSUME Init PROVE Inv!Init
  OBVIOUS
<1>1. \A s \in Sales : Accepted(s) = {} /\ Recorded(s) = {}
  BY DEF Init, Opening, Accepted, Taken, Recorded, Requests, Took, Holding
<1>2. \A s \in Sales : UnitCount(Accepted(s)) = 0 /\ UnitCount(Recorded(s)) = 0
  BY <1>1, NoUnits
<1>3. \A s \in Sales : Total[s] - UnitCount(Accepted(s)) = Total[s]
  BY <1>2, ValuesAssumption
<1>4. [s \in Sales |-> Total[s] - UnitCount(Accepted(s))] = Total
  BY <1>3, ValuesAssumption
<1>5. [s \in Sales |-> UnitCount(Recorded(s))] = [s \in Sales |-> 0]
  BY <1>2
<1> QED
  BY <1>4, <1>5 DEF Inv!Init

LEMMA MapStep ==
  ASSUME TypeOK, StockInv, ShortNotAccepted, [Next]_vars
  PROVE  [Inv!Next]_(Inv!vars)
<1>1. CASE Idles /\ NoneShort
  <2>1. \A s \in Sales : Accepted(s)' = Accepted(s) /\ Recorded(s)' = Recorded(s)
    BY <1>1 DEF Idles, Accepted, Taken, Recorded, InStock
  <2>2. Free' = Free /\ Sold' = Sold
    BY <1>1, <2>1, MapStutters DEF Idles
  <2> QED
    BY <2>2 DEF Inv!vars, Free, Sold
<1>2. ASSUME NEW r \in Buys, GiveBack(r) PROVE [Inv!Next]_(Inv!vars)
  <2>1. /\ ask' = ask /\ left' = left /\ bought' = bought
        /\ pc[r] = "short" /\ pc'[r] = "refused" /\ ~InStock(left[r])
        /\ \A q \in Buys \ {r} : pc'[q] = pc[q]
    BY <1>2 DEF GiveBack, Go, postgres, locals, TypeOK, Requests, ShortNotAccepted
  <2>2. \A s \in Sales : Accepted(s)' = Accepted(s) /\ Recorded(s)' = Recorded(s)
    BY <2>1 DEF Accepted, Taken, Recorded, InStock
  <2>3. Free' = Free /\ Sold' = Sold
    BY <2>1, <2>2, MapStutters
  <2> QED
    BY <2>3 DEF Inv!vars, Free, Sold
<1>3. ASSUME NEW r \in Buys, DecrStock(r) PROVE [Inv!Next]_(Inv!vars)
  <2>1. CASE InStock(left'[r])
    <3>1. PICK s \in Sales, q \in 1..MaxQuantity :
            q <= Free[s] /\ Free' = [Free EXCEPT ![s] = @ - q] /\ Sold' = Sold
      BY <1>3, <2>1, MapReserves
    <3>2. Inv!Reserve(s, q)
      BY <3>1 DEF Inv!Reserve, Free, Sold
    <3> QED
      BY <3>2 DEF Inv!Next
  <2>2. CASE ~InStock(left'[r])
    <3>1. /\ ask' = ask /\ bought' = bought /\ r \in Requests
          /\ pc[r] = "counted" /\ \A q \in Buys \ {r} : pc'[q] = pc[q] /\ left'[q] = left[q]
      BY <1>3 DEF DecrStock, Go, postgres, TypeOK, Requests
    <3>2. \A s \in Sales : Accepted(s)' = Accepted(s) /\ Recorded(s)' = Recorded(s)
      BY <2>2, <3>1 DEF Accepted, Taken, Recorded, InStock, Took, Holding
    <3>3. Free' = Free /\ Sold' = Sold
      BY <3>1, <3>2, MapStutters
    <3> QED
      BY <3>3 DEF Inv!vars, Free, Sold
  <2> QED
    BY <2>1, <2>2
<1>4. ASSUME NEW r \in Buys, Commit(r) PROVE [Inv!Next]_(Inv!vars)
  <2>1. PICK s \in Sales, q \in 1..MaxQuantity :
          /\ q <= Total[s] - Free[s] - Sold[s]
          /\ Sold' = [Sold EXCEPT ![s] = @ + q] /\ Free' = Free
    BY <1>4, MapConfirms
  <2>2. Inv!Confirm(s, q)
    BY <2>1 DEF Inv!Confirm, Free, Sold
  <2> QED
    BY <2>2 DEF Inv!Next
<1> QED
  BY <1>1, <1>2, <1>3, <1>4, QuietSteps

(* Whatever the interleaving and whatever fails, DECRBY, the compensation  *)
(* and the commit behave as an inventory in which a unit is set aside once *)
(* and sold once.                                                          *)
THEOREM Implements == Spec => ImplementsInventory
<1>1. ShortNotAccepted /\ TypeOK /\ [Next]_vars => ShortNotAccepted'
  BY ShortStep
<1>2. Spec => []ShortNotAccepted
  BY <1>1, ShortInit, TypeCorrect, PTL DEF Spec
<1>3. TypeOK /\ StockInv /\ ShortNotAccepted /\ [Next]_vars => [Inv!Next]_(Inv!vars)
  BY MapStep
<1> QED
  BY <1>2, <1>3, MapInit, TypeCorrect, StockCorrect, PTL DEF Spec, ImplementsInventory, Inv!Spec
=============================================================================
