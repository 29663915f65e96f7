--------------------------- MODULE Purchase_proofs ---------------------------
(***************************************************************************)
(* Theorems about Purchase for any users, sales and requests, any prices,  *)
(* stocks and windows, and any set of requests that may fail.              *)
(***************************************************************************)
EXTENDS Purchase, TLAPS, FiniteSetTheorems

-----------------------------------------------------------------------------
(* Type correctness. *)

LEMMA StagesOf ==
  \A p \in {"idle", "authed", "loaded", "unmarked", "first", "counted", "short",
            "taken", "charged", "written", "marked", "done", "refused", "failed",
            "lost"} : p \in Stages
  BY DEF Stages, InFlight, Holding, Ended

(* TypeOK without the counters and the locks of sales, which others than   *)
(* these handlers may use too.                                             *)
BuyersOK ==
  /\ now \in 0..MaxClock
  /\ daily \subseteq Users \X Sales \X Nat
  /\ rate \in [Users \X Sales -> Nat]
  /\ expiring \subseteq Users \X Sales
  /\ balance \in [Users -> Int]
  /\ sale \in [Sales -> SaleRow]
  /\ bought \subseteq Buys
  /\ userLock \in [Users -> Requests \cup {NoOne}]
  /\ ask \in [Buys -> [user : Users, sale : Sales, quantity : 1..MaxQuantity]]
  /\ fund \in [TopUps -> [user : Users, amount : Amounts]]
  /\ pc \in [Requests -> Stages]
  /\ bal \in [Requests -> Int]
  /\ copy \in [Buys -> SaleRow]
  /\ day \in [Buys -> Nat]
  /\ left \in [Buys -> Int]
StoreOK == /\ stock \in [Sales -> Int]
           /\ saleLock \in [Sales -> Requests \cup {NoOne}]

LEMMA TypeParts == TypeOK <=> BuyersOK /\ StoreOK
  BY DEF TypeOK, BuyersOK, StoreOK

LEMMA SetStockIs ==
  ASSUME TypeOK, NEW s \in Sales, NEW n \in Int, SetStock(s, n)
  PROVE  stock' = [stock EXCEPT ![s] = n]
<1>1. DOMAIN stock = Sales
  BY DEF TypeOK
<1>2. Sales \cup {s} = Sales
  OBVIOUS
<1>3. stock' = [t \in Sales |-> IF t = s THEN n ELSE stock[t]]
  BY <1>1, <1>2 DEF SetStock, With
<1> QED
  BY <1>1, <1>3

LEMMA BuyType ==
  ASSUME BuyersOK, NEW r \in Buys
  PROVE  /\ r \in Requests /\ r \notin TopUps
         /\ UserOf(r) = ask[r].user
         /\ UserOf(r) \in Users
         /\ ask[r].sale \in Sales
         /\ ask[r].quantity \in 1..MaxQuantity
         /\ ask[r].quantity \in Nat
         /\ RateKey(r) \in Users \X Sales
         /\ DailyKey(r) \in Users \X Sales \X Nat
         /\ Cost(r) \in Int
<1>1. /\ r \in Requests /\ r \notin TopUps
      /\ ask[r] \in [user : Users, sale : Sales, quantity : 1..MaxQuantity]
  BY RequestsAssumption DEF BuyersOK, Requests
<1>2. copy[r].price \in Int /\ day[r] \in Nat
  BY DEF BuyersOK, SaleRow
<1>3. ask[r].quantity \in Nat
  BY <1>1, ValuesAssumption
<1>4. Cost(r) \in Int
  BY <1>2, <1>3 DEF Cost
<1> QED
  BY <1>1, <1>2, <1>3, <1>4 DEF UserOf, RateKey, DailyKey

LEMMA TopUpType ==
  ASSUME BuyersOK, NEW r \in TopUps
  PROVE  /\ r \in Requests /\ r \notin Buys
         /\ UserOf(r) = fund[r].user
         /\ UserOf(r) \in Users
         /\ fund[r].amount \in Nat
  BY RequestsAssumption, ValuesAssumption DEF BuyersOK, UserOf, Requests

LEMMA AskType ==
  ASSUME TypeOK, NEW r \in Buys
  PROVE  /\ r \in Requests
         /\ UserOf(r) = ask[r].user
         /\ UserOf(r) \in Users
         /\ ask[r].sale \in Sales
         /\ ask[r].quantity \in 1..MaxQuantity
         /\ RateKey(r) \in Users \X Sales
         /\ DailyKey(r) \in Users \X Sales \X Nat
         /\ Cost(r) \in Int
         /\ StockOf(ask[r].sale) = stock[ask[r].sale]
<1>1. ask[r].sale \in Sales
  BY TypeParts, BuyType
<1>2. StockOf(ask[r].sale) = stock[ask[r].sale]
  BY <1>1 DEF TypeOK, StockOf
<1> QED
  BY <1>2, TypeParts, BuyType

LEMMA FundType ==
  ASSUME TypeOK, NEW r \in TopUps
  PROVE  /\ r \in Requests
         /\ UserOf(r) \in Users
         /\ fund[r].amount \in Nat
  BY TypeParts, TopUpType

LEMMA GoType ==
  ASSUME BuyersOK, NEW r \in Requests, NEW from, NEW to \in Stages, Go(r, from, to)
  PROVE  pc' \in [Requests -> Stages]
  BY DEF BuyersOK, Go

LEMMA TypeInit == Init => TypeOK
<1> SUFFICES ASSUME Init PROVE TypeOK
  OBVIOUS
<1>1. sale \in [Sales -> SaleRow]
  BY ValuesAssumption DEF Init, Opening, SaleRow
<1>2. copy \in [Buys -> SaleRow]
  BY <1>1 DEF Init, Opening
<1>3. pc \in [Requests -> Stages]
  BY StagesOf DEF Init, Opening
<1> QED
  BY <1>1, <1>2, <1>3, ValuesAssumption, ClockAssumption DEF Init, Opening, TypeOK

LEMMA LockType ==
  ASSUME BuyersOK, NEW r
  PROVE  FreeFrom(userLock, r) \in [Users -> Requests \cup {NoOne}]
  BY DEF BuyersOK, FreeFrom

LEMMA BuyersStep ==
  BuyersOK /\ (\A s \in Sales : StockOf(s) \in Int) /\ Step => BuyersOK'
<1> SUFFICES ASSUME BuyersOK, \A s \in Sales : StockOf(s) \in Int, Step PROVE BuyersOK'
  OBVIOUS
<1> USE StagesOf DEF redis, postgres, locals, vars
<1>1. ASSUME NEW r \in Requests, Authenticate(r) PROVE BuyersOK'
  <2>1. UserOf(r) \in Users
    BY BuyType, TopUpType DEF Requests
  <2>2. pc' \in [Requests -> Stages]
    BY <1>1, GoType DEF Authenticate
  <2> QED BY <1>1, <2>1, <2>2 DEF Authenticate, BuyersOK
<1>2. ASSUME NEW r \in Buys, LoadSale(r) PROVE BuyersOK'
  <2>1. pc' \in [Requests -> Stages]
    BY <1>2, GoType, BuyType DEF LoadSale
  <2>2. DayOf[now] \in Nat
    BY ClockAssumption DEF BuyersOK
  <2> QED BY <1>2, <2>1, <2>2, BuyType DEF LoadSale, BuyersOK
<1>3. ASSUME NEW r \in Buys, TurnAway(r) PROVE BuyersOK'
  <2>1. pc' \in [Requests -> Stages]
    BY <1>3, GoType, BuyType DEF TurnAway
  <2> QED BY <1>3, <2>1 DEF TurnAway, BuyersOK
<1>4. ASSUME NEW r \in Buys, CheckDaily(r) PROVE BuyersOK'
  <2>1. pc' \in [Requests -> Stages]
    BY <1>4, GoType, BuyType DEF CheckDaily
  <2> QED BY <1>4, <2>1 DEF CheckDaily, BuyersOK
<1>5. ASSUME NEW r \in Buys, CountRequest(r) PROVE BuyersOK'
  <2>1. pc' \in [Requests -> Stages]
    BY <1>5, GoType, BuyType DEF CountRequest
  <2>2. rate' \in [Users \X Sales -> Nat]
    BY <1>5, BuyType DEF CountRequest, BuyersOK
  <2> QED BY <1>5, <2>1, <2>2 DEF CountRequest, BuyersOK
<1>6. ASSUME NEW r \in Buys, SetRateWindow(r) PROVE BuyersOK'
  <2>1. pc' \in [Requests -> Stages]
    BY <1>6, GoType, BuyType DEF SetRateWindow
  <2> QED BY <1>6, <2>1, BuyType DEF SetRateWindow, BuyersOK
<1>7. ASSUME NEW r \in Buys, TurnAwayPoor(r) PROVE BuyersOK'
  <2>1. pc' \in [Requests -> Stages]
    BY <1>7, GoType, BuyType DEF TurnAwayPoor
  <2> QED BY <1>7, <2>1 DEF TurnAwayPoor, BuyersOK
<1>8. ASSUME NEW r \in Buys, DecrStock(r) PROVE BuyersOK'
  <2> DEFINE n == StockOf(ask[r].sale) - ask[r].quantity
  <2>1. n \in Int
    BY BuyType
  <2>2. pc' \in [Requests -> Stages]
    BY <1>8, GoType, BuyType DEF DecrStock
  <2>4. bal' \in [Requests -> Int]
    BY <1>8, BuyType DEF DecrStock, BuyersOK
  <2>5. left' \in [Buys -> Int]
    BY <1>8, <2>1 DEF DecrStock, BuyersOK
  <2> QED BY <1>8, <2>2, <2>4, <2>5 DEF DecrStock, BuyersOK
<1>9. ASSUME NEW r \in Buys, GiveBack(r) PROVE BuyersOK'
  <2>1. pc' \in [Requests -> Stages]
    BY <1>9, GoType, BuyType DEF GiveBack
  <2> QED BY <1>9, <2>1 DEF GiveBack, BuyersOK
<1>10. ASSUME NEW r \in Buys, FlushUser(r) PROVE BuyersOK'
  <2>1. pc' \in [Requests -> Stages]
    BY <1>10, GoType, BuyType DEF FlushUser
  <2> QED BY <1>10, <2>1, BuyType DEF FlushUser, BuyersOK
<1>11. ASSUME NEW r \in Buys, FlushSale(r) PROVE BuyersOK'
  <2>1. pc' \in [Requests -> Stages]
    BY <1>11, GoType, BuyType DEF FlushSale
  <2> QED BY <1>11, <2>1, BuyType DEF FlushSale, BuyersOK
<1>12. ASSUME NEW r \in Buys, MarkDaily(r) PROVE BuyersOK'
  <2>1. pc' \in [Requests -> Stages]
    BY <1>12, GoType, BuyType DEF MarkDaily
  <2> QED BY <1>12, <2>1, BuyType DEF MarkDaily, BuyersOK
<1>13. ASSUME NEW r \in Buys, Commit(r) PROVE BuyersOK'
  <2>1. pc' \in [Requests -> Stages]
    BY <1>13, GoType, BuyType DEF Commit
  <2>2. balance' \in [Users -> Int]
    BY <1>13, BuyType DEF Commit, NewBalance, BuyersOK
  <2>3. sale' \in [Sales -> SaleRow]
    <3>1. sale[ask[r].sale] \in SaleRow /\ left[r] \in Int
      BY BuyType DEF BuyersOK
    <3>2. [sale[ask[r].sale] EXCEPT !.remaining = left[r]] \in SaleRow
      BY <3>1 DEF SaleRow
    <3>3. sale \in [Sales -> SaleRow] /\ ask[r].sale \in Sales
      BY BuyType DEF BuyersOK
    <3>4. \/ sale' = sale
          \/ sale' = [sale EXCEPT ![ask[r].sale] =
                         [sale[ask[r].sale] EXCEPT !.remaining = left[r]]]
      BY <1>13 DEF Commit
    <3> QED
      BY <3>2, <3>3, <3>4
  <2>4. bought' \subseteq Buys
    BY <1>13 DEF Commit, BuyersOK
  <2> QED BY <1>13, <2>1, <2>2, <2>3, <2>4, LockType DEF Commit, Release, BuyersOK
<1>14. ASSUME NEW r \in TopUps, FlushTopUp(r) PROVE BuyersOK'
  <2>1. pc' \in [Requests -> Stages]
    BY <1>14, GoType, TopUpType DEF FlushTopUp
  <2>2. bal' \in [Requests -> Int]
    BY <1>14, TopUpType DEF FlushTopUp, BuyersOK
  <2> QED BY <1>14, <2>1, <2>2, TopUpType DEF FlushTopUp, BuyersOK
<1>15. ASSUME NEW r \in TopUps, CommitTopUp(r) PROVE BuyersOK'
  <2>1. pc' \in [Requests -> Stages]
    BY <1>15, GoType, TopUpType DEF CommitTopUp
  <2>2. balance' \in [Users -> Int]
    BY <1>15, TopUpType DEF CommitTopUp, NewBalance, BuyersOK
  <2> QED BY <1>15, <2>1, <2>2, LockType DEF CommitTopUp, Release, BuyersOK
<1>16. ASSUME NEW r \in MayFail, Fail(r) PROVE BuyersOK'
  <2>1. pc' \in [Requests -> Stages]
    BY <1>16 DEF Fail, BuyersOK
  <2> QED BY <1>16, <2>1, LockType DEF Fail, Release, BuyersOK
<1>17. ASSUME Tick PROVE BuyersOK'
  BY <1>17, ClockAssumption DEF Tick, BuyersOK
<1>18. ASSUME NEW k \in expiring, RateWindowEnds(k) PROVE BuyersOK'
  BY <1>18 DEF RateWindowEnds, BuyersOK
<1>19. ASSUME NEW k \in daily, DailyKeyExpires(k) PROVE BuyersOK'
  BY <1>19 DEF DailyKeyExpires, BuyersOK
<1> QED
  BY <1>1, <1>2, <1>3, <1>4, <1>5, <1>6, <1>7, <1>8, <1>9, <1>10, <1>11, <1>12,
     <1>13, <1>14, <1>15, <1>16, <1>17, <1>18, <1>19
  DEF Step, BuyStep, TopUpStep, Environment

LEMMA StoreStep == TypeOK /\ Step => StoreOK'
<1> SUFFICES ASSUME TypeOK, Step PROVE StoreOK'
  OBVIOUS
<1> USE DEF redis, postgres
<1>0. stock \in [Sales -> Int] /\ saleLock \in [Sales -> Requests \cup {NoOne}]
  BY DEF TypeOK
<1>1. ASSUME NEW r \in Buys, DecrStock(r) \/ GiveBack(r) PROVE StoreOK'
  <2>1. /\ StockOf(ask[r].sale) - ask[r].quantity \in Int
        /\ StockOf(ask[r].sale) + ask[r].quantity \in Int
        /\ ask[r].sale \in Sales
    BY <1>0, AskType
  <2>2. stock' \in [Sales -> Int]
    BY <1>0, <1>1, <2>1, SetStockIs DEF DecrStock, GiveBack
  <2> QED
    BY <1>0, <1>1, <2>2 DEF DecrStock, GiveBack, StoreOK
<1>2. ASSUME NEW r \in Buys, FlushSale(r) PROVE StoreOK'
  BY <1>0, <1>2, AskType DEF FlushSale, StoreOK
<1>3. ASSUME NEW r \in Requests, Release(r), UNCHANGED stock PROVE StoreOK'
  BY <1>0, <1>3 DEF Release, FreeFrom, StoreOK
<1>4. ASSUME NEW r \in Buys, BuyStep(r), ~DecrStock(r), ~GiveBack(r), ~FlushSale(r)
      PROVE  StoreOK'
  BY <1>0, <1>3, <1>4, AskType
  DEF BuyStep, LoadSale, TurnAway, CheckDaily, CountRequest, SetRateWindow, TurnAwayPoor,
      FlushUser, MarkDaily, Commit, StoreOK
<1>5. ASSUME NEW r \in TopUps, TopUpStep(r) PROVE StoreOK'
  BY <1>0, <1>3, <1>5, FundType DEF TopUpStep, FlushTopUp, CommitTopUp, StoreOK
<1>6. ASSUME NEW r \in Requests, Authenticate(r) \/ Fail(r) PROVE StoreOK'
  BY <1>0, <1>3, <1>6 DEF Authenticate, Fail, StoreOK
<1>7. ASSUME Environment PROVE StoreOK'
  BY <1>0, <1>7 DEF Environment, Tick, RateWindowEnds, DailyKeyExpires, StoreOK
<1> QED
  BY <1>1, <1>2, <1>4, <1>5, <1>6, <1>7, RequestsAssumption DEF Step

LEMMA TypeStep == TypeOK /\ [Next]_vars => TypeOK'
<1> SUFFICES ASSUME TypeOK, [Next]_vars PROVE TypeOK'
  OBVIOUS
<1>1. CASE Step
  <2>1. BuyersOK /\ \A s \in Sales : StockOf(s) \in Int
    BY DEF TypeOK, BuyersOK, StockOf
  <2>2. BuyersOK' /\ StoreOK'
    BY <1>1, <2>1, BuyersStep, StoreStep
  <2> QED
    BY <2>2 DEF TypeOK, BuyersOK, StoreOK
<1>2. CASE UNCHANGED vars
  BY <1>2 DEF vars, redis, postgres, locals, TypeOK
<1> QED
  BY <1>1, <1>2 DEF Next, Terminated

(* Every variable of the service stays in its type. *)
THEOREM TypeCorrect == Spec => []TypeOK
  BY TypeInit, TypeStep, PTL DEF Spec

-----------------------------------------------------------------------------
(* Counting units. *)

LEMMA CountUpTo ==
  ASSUME NEW n \in Nat
  PROVE  IsFiniteSet(1..n) /\ Cardinality(1..n) = n
<1>1. 1 \in Int /\ n \in Int
  OBVIOUS
<1>2. IsFiniteSet(1..n) /\ Cardinality(1..n) = IF 1 > n THEN 0 ELSE n - 1 + 1
  BY <1>1, FS_Interval, Zenon
<1>3. (IF 1 > n THEN 0 ELSE n - 1 + 1) = n
  OBVIOUS
<1> QED
  BY <1>2, <1>3

LEMMA TallyFinite ==
  ASSUME NEW f, NEW R, IsFiniteSet(R), \A x \in R : f[x] \in Nat
  PROVE  IsFiniteSet(Shares(f, R)) /\ Tally(f, R) \in Nat
<1> DEFINE own == [x \in R |-> {x} \X (1..f[x])]
           all == {own[x] : x \in R}
<1>1. \A x \in R : IsFiniteSet(own[x])
  <2> SUFFICES ASSUME NEW x \in R PROVE IsFiniteSet({x} \X (1..f[x]))
    OBVIOUS
  <2>1. IsFiniteSet({x}) /\ IsFiniteSet(1..f[x])
    BY FS_Singleton, CountUpTo
  <2> QED
    BY <2>1, FS_Product, ZenonT(60)
<1>2. own \in Surjection(R, all)
  BY DEF Surjection
<1>3. IsFiniteSet(all)
  <2> HIDE DEF own, all
  <2> QED
    BY <1>2, FS_Surjection
<1>4. IsFiniteSet(UNION all)
  <2>1. \A T \in all : IsFiniteSet(T)
    BY <1>1
  <2> HIDE DEF own, all
  <2> QED
    BY <1>3, <2>1, FS_UNION
<1>5. Shares(f, R) = UNION all
  BY DEF Shares
<1> QED
  BY <1>4, <1>5, FS_CardinalityType DEF Tally

LEMMA TallyMonotone ==
  ASSUME NEW f, NEW R, IsFiniteSet(R), \A x \in R : f[x] \in Nat, NEW Q \in SUBSET R
  PROVE  Tally(f, Q) <= Tally(f, R)
<1>1. Shares(f, Q) \in SUBSET Shares(f, R)
  BY DEF Shares
<1> QED
  BY <1>1, TallyFinite, FS_Subset DEF Tally

LEMMA TallyAdd ==
  ASSUME NEW f, NEW R, IsFiniteSet(R), \A x \in R : f[x] \in Nat,
         NEW y, y \notin R, f[y] \in Nat
  PROVE  Tally(f, R \cup {y}) = Tally(f, R) + f[y]
<1> DEFINE own == {y} \X (1..f[y])
<1>1. IsFiniteSet(own) /\ Cardinality(own) = f[y]
  <2>1. IsFiniteSet({y}) /\ Cardinality({y}) = 1
    BY FS_Singleton
  <2>2. IsFiniteSet(1..f[y]) /\ Cardinality(1..f[y]) = f[y]
    BY CountUpTo
  <2>3. IsFiniteSet(own) /\ Cardinality(own) = 1 * f[y]
    BY <2>1, <2>2, FS_Product, ZenonT(60)
  <2>4. 1 * f[y] = f[y]
    OBVIOUS
  <2> QED
    BY <2>3, <2>4
<1>2. Shares(f, R \cup {y}) = Shares(f, R) \cup own
  BY DEF Shares
<1>3. Shares(f, R) \cap own = {}
  BY DEF Shares
<1>4. Cardinality(Shares(f, R) \cap own) = 0
  BY <1>3, FS_EmptySet
<1>5. IsFiniteSet(Shares(f, R)) /\ Cardinality(Shares(f, R)) \in Nat
  BY TallyFinite DEF Tally
<1>6. Cardinality(Shares(f, R) \cup own)
        = Cardinality(Shares(f, R)) + Cardinality(own) - Cardinality(Shares(f, R) \cap own)
  BY <1>1, <1>5, FS_Union, ZenonT(60)
<1>7. Tally(f, R \cup {y}) = Tally(f, R) + Cardinality(own) - 0
  BY <1>2, <1>4, <1>6 DEF Tally
<1> QED
  BY <1>1, <1>5, <1>7 DEF Tally

LEMMA TallyNone == ASSUME NEW f PROVE Tally(f, {}) = 0
<1>1. Shares(f, {}) = {}
  BY DEF Shares
<1> QED
  BY <1>1, FS_EmptySet DEF Tally

LEMMA TallySame ==
  ASSUME NEW f, NEW g, NEW R, \A x \in R : f[x] = g[x]
  PROVE  Tally(f, R) = Tally(g, R)
<1>1. Shares(f, R) = Shares(g, R)
  BY DEF Shares
<1> QED
  BY <1>1 DEF Tally

(* Units are the shares of quantities. *)
AskOK == ask \in [Buys -> [user : Users, sale : Sales, quantity : 1..MaxQuantity]]

LEMMA AskTyped == TypeOK => AskOK
  BY DEF TypeOK, AskOK

LEMMA Quantities ==
  ASSUME AskOK, NEW R \in SUBSET Buys
  PROVE  IsFiniteSet(R) /\ \A x \in R : [r \in Buys |-> ask[r].quantity][x] \in Nat
<1>1. \A x \in R : ask[x].quantity \in Nat
  BY ValuesAssumption DEF AskOK
<1>2. IsFiniteSet(R)
  BY RequestsAssumption, FS_Subset
<1> QED
  BY <1>1, <1>2

LEMMA UnitsFinite ==
  ASSUME AskOK, NEW R \in SUBSET Buys
  PROVE  UnitCount(R) \in Nat
  BY Quantities, TallyFinite DEF UnitCount

LEMMA UnitsMonotone ==
  ASSUME AskOK, NEW R \in SUBSET Buys, NEW Q \in SUBSET R
  PROVE  UnitCount(Q) <= UnitCount(R)
  BY Quantities, TallyMonotone DEF UnitCount

LEMMA UnitsAdd ==
  ASSUME AskOK, NEW R \in SUBSET Buys, NEW r \in Buys \ R
  PROVE  UnitCount(R \cup {r}) = UnitCount(R) + ask[r].quantity
<1> DEFINE f == [q \in Buys |-> ask[q].quantity]
<1>1. IsFiniteSet(R) /\ (\A x \in R : f[x] \in Nat) /\ f[r] = ask[r].quantity
  BY Quantities
<1>2. f[r] \in Nat
  BY Quantities
<1>3. Tally(f, R \cup {r}) = Tally(f, R) + f[r]
  <2> HIDE DEF f
  <2> QED
    BY <1>1, <1>2, TallyAdd
<1> QED
  BY <1>1, <1>3 DEF UnitCount

LEMMA NoUnits == UnitCount({}) = 0
  BY TallyNone DEF UnitCount

LEMMA UnitCountKept ==
  ASSUME ask' = ask, NEW R
  PROVE  UnitCount(R)' = UnitCount(R)
  BY DEF UnitCount, Tally, Shares

-----------------------------------------------------------------------------
(* The stock counter. *)

LEMMA CountsKept ==
  ASSUME ask' = ask, left' = left,
         \A q \in Buys : pc'[q] \in Took <=> pc[q] \in Took,
         NEW s
  PROVE  /\ UnitCount(Taken(s))' = UnitCount(Taken(s))
         /\ UnitCount(Accepted(s))' = UnitCount(Accepted(s))
<1>1. Taken(s)' = Taken(s)
  BY DEF Taken
<1>2. Accepted(s)' = Accepted(s)
  BY <1>1 DEF Accepted, InStock
<1> QED
  BY <1>1, <1>2, UnitCountKept

(* Every step but the two that move units. *)
LEMMA StockQuiet ==
  ASSUME StockInv, ask' = ask, left' = left, stock' = stock,
         \A q \in Buys : pc'[q] \in Took <=> pc[q] \in Took,
         \A q \in Buys : pc'[q] \in Took \ {"short", "lost"}
                           => pc[q] \in Took \ {"short", "lost"},
         \A q \in bought' : pc'[q] = "done"
  PROVE  StockInv'
<1>1. \A s : StockOf(s)' = StockOf(s)
  BY DEF StockOf
<1>2. StockConserved'
  BY <1>1, CountsKept DEF StockInv, StockConserved
<1>3. (\A s \in Sales : UnitCount(Accepted(s)) <= Total[s])'
  BY CountsKept DEF StockInv
<1>4. (\A r \in Buys : pc[r] \in Took \ {"short", "lost"} => InStock(left[r]))'
  BY DEF StockInv, InStock
<1> QED
  BY <1>2, <1>3, <1>4 DEF StockInv

LEMMA StockInit == Init => StockInv
<1> SUFFICES ASSUME Init PROVE StockInv
  OBVIOUS
<1>1. \A r \in Buys : pc[r] = "idle" /\ pc[r] \notin Took
  BY DEF Init, Opening, Requests, Took, Holding
<1>2. \A s \in Sales : Taken(s) = {} /\ Accepted(s) = {}
  BY <1>1 DEF Taken, Accepted
<1>3. \A s \in Sales : UnitCount(Taken(s)) = 0 /\ UnitCount(Accepted(s)) = 0
  BY <1>2, NoUnits
<1>4. \A s \in Sales : Total[s] \in Nat /\ StockOf(s) = Total[s]
  BY ValuesAssumption DEF Init, Opening, StockOf
<1>5. StockConserved
  BY <1>3, <1>4 DEF StockConserved
<1>6. \A s \in Sales : UnitCount(Accepted(s)) <= Total[s]
  BY <1>3, <1>4
<1>7. bought = {} /\ \A r \in Buys : pc[r] \notin Took
  BY <1>1 DEF Init, Opening
<1> QED
  BY <1>5, <1>6, <1>7 DEF StockInv

LEMMA StockDecr ==
  ASSUME TypeOK, TypeOK', StockInv, NEW r \in Buys, DecrStock(r)
  PROVE  StockInv'
<1>a. PICK sl : sl = ask[r].sale
  OBVIOUS
<1>b. PICK q0 : q0 = ask[r].quantity
  OBVIOUS
<1>c. PICK n : n = StockOf(sl) - q0
  OBVIOUS
<1>1. /\ sl \in Sales
      /\ q0 \in Nat
      /\ StockOf(sl) \in Int
      /\ n \in Int
      /\ StockOf(sl) = Total[sl] - UnitCount(Taken(sl))
      /\ Total[sl] \in Nat
  BY <1>a, <1>b, <1>c, AskType, ValuesAssumption DEF StockInv, StockConserved, TypeOK
<1>2. ask' = ask /\ bought' = bought /\ left' = [left EXCEPT ![r] = n]
  BY <1>a, <1>b, <1>c DEF DecrStock, postgres
<1>3. stock' = [stock EXCEPT ![sl] = n]
  BY <1>a, <1>b, <1>c, <1>1, SetStockIs DEF DecrStock
<1>4. pc[r] = "counted" /\ r \in Requests /\ pc[r] \notin Took
  BY DEF DecrStock, Go, Requests, Took, Holding
<1>5. \/ ~InStock(n) /\ pc' = [pc EXCEPT ![r] = "short"]
      \/ InStock(n)  /\ pc' = [pc EXCEPT ![r] = "taken"]
  BY <1>a, <1>b, <1>c DEF DecrStock, Go
<1>6. pc'[r] \in Took /\ \A q \in Buys : q # r => pc'[q] = pc[q]
  BY <1>4, <1>5 DEF TypeOK, Requests, Took, Holding
<1>7. \A s \in Sales : s # sl => Taken(s)' = Taken(s) /\ Accepted(s)' = Accepted(s)
  BY <1>a, <1>2, <1>4, <1>6 DEF Taken, Accepted, InStock, TypeOK
<1>8. Taken(sl)' = Taken(sl) \cup {r} /\ r \notin Taken(sl) /\ Taken(sl) \in SUBSET Buys
  BY <1>a, <1>2, <1>4, <1>6 DEF Taken
<1>9. UnitCount(Taken(sl))' = UnitCount(Taken(sl)) + q0
  BY <1>b, <1>2, <1>8, AskType, UnitCountKept, AskTyped, UnitsAdd
<1>10. UnitCount(Taken(sl)) \in Nat /\ UnitCount(Taken(sl))' = Total[sl] - n
  BY <1>c, <1>1, <1>8, <1>9, AskTyped, UnitsFinite
<1>11. \A s \in Sales : StockOf(s)' = IF s = sl THEN n ELSE StockOf(s)
  BY <1>1, <1>3 DEF StockOf, TypeOK
<1>12. StockConserved'
  <2> SUFFICES ASSUME NEW s \in Sales
               PROVE  StockOf(s)' = Total[s] - UnitCount(Taken(s))'
    BY DEF StockConserved
  <2>1. CASE s = sl
    BY <2>1, <1>1, <1>10, <1>11
  <2>2. CASE s # sl
    <3>1. UnitCount(Taken(s))' = UnitCount(Taken(s))
      BY <2>2, <1>2, <1>7, UnitCountKept
    <3> QED BY <2>2, <3>1, <1>11 DEF StockInv, StockConserved
  <2> QED BY <2>1, <2>2
<1>13. (\A s \in Sales : UnitCount(Accepted(s)) <= Total[s])'
  <2> SUFFICES ASSUME NEW s \in Sales
               PROVE  UnitCount(Accepted(s))' <= Total[s]
    OBVIOUS
  <2>1. CASE s # sl \/ ~InStock(n)
    <3>1. Accepted(s)' = Accepted(s)
      BY <2>1, <1>2, <1>4, <1>6, <1>7, <1>8 DEF Accepted, Taken, InStock, TypeOK
    <3> QED BY <3>1, <1>2, UnitCountKept DEF StockInv
  <2>2. CASE s = sl /\ InStock(n)
    <3>1. UnitCount(Accepted(sl))' = UnitCount(Accepted(sl)')
      BY <1>2, UnitCountKept
    <3>2. UnitCount(Taken(sl))' = UnitCount(Taken(sl)')
      BY <1>2, UnitCountKept
    <3>3. Taken(sl)' \in SUBSET Buys /\ Accepted(sl)' \in SUBSET Taken(sl)'
      BY DEF Taken, Accepted
    <3>4. UnitCount(Accepted(sl)') <= UnitCount(Taken(sl)')
      BY <3>3, AskTyped, UnitsMonotone
    <3>5. UnitCount(Accepted(sl)') \in Nat
      BY <3>3, AskTyped, UnitsFinite
    <3> QED BY <2>2, <3>1, <3>2, <3>4, <3>5, <1>1, <1>10 DEF InStock
  <2> QED BY <2>1, <2>2
<1>14. (\A q \in Buys : pc[q] \in Took \ {"short", "lost"} => InStock(left[q]))'
  <2> SUFFICES ASSUME NEW q \in Buys, pc'[q] \in Took \ {"short", "lost"}
               PROVE  InStock(left'[q])
    BY DEF InStock
  <2>1. CASE q = r
    BY <2>1, <1>2, <1>4, <1>5 DEF TypeOK
  <2>2. CASE q # r
    BY <2>2, <1>2, <1>6 DEF StockInv, TypeOK
  <2> QED BY <2>1, <2>2
<1>15. (\A q \in bought : pc[q] = "done")'
  BY <1>2, <1>4, <1>6 DEF StockInv, TypeOK
<1> QED
  BY <1>12, <1>13, <1>14, <1>15 DEF StockInv

LEMMA StockGiveBack ==
  ASSUME TypeOK, StockInv, NEW r \in Buys, GiveBack(r)
  PROVE  StockInv'
<1>a. PICK sl : sl = ask[r].sale
  OBVIOUS
<1>b. PICK q0 : q0 = ask[r].quantity
  OBVIOUS
<1>1. /\ sl \in Sales
      /\ q0 \in Nat
      /\ StockOf(sl) \in Int
      /\ StockOf(sl) = Total[sl] - UnitCount(Taken(sl))
      /\ Total[sl] \in Nat
  BY <1>a, <1>b, AskType, ValuesAssumption DEF StockInv, StockConserved, TypeOK
<1>2. ask' = ask /\ bought' = bought /\ left' = left
  BY DEF GiveBack, postgres, locals
<1>3. stock' = [stock EXCEPT ![sl] = StockOf(sl) + q0]
  BY <1>a, <1>b, <1>1, SetStockIs DEF GiveBack
<1>4. /\ pc[r] = "short" /\ r \in Requests /\ pc[r] \in Took
      /\ pc'[r] = "refused" /\ pc'[r] \notin Took
      /\ \A q \in Buys : q # r => pc'[q] = pc[q]
  BY DEF GiveBack, Go, Requests, Took, Holding, TypeOK
<1>5. \A s \in Sales : s # sl => Taken(s)' = Taken(s) /\ Accepted(s)' = Accepted(s)
  BY <1>a, <1>2, <1>4 DEF Taken, Accepted, InStock
<1>6. Taken(sl) = Taken(sl)' \cup {r} /\ r \notin Taken(sl)' /\ Taken(sl)' \in SUBSET Buys
  BY <1>a, <1>2, <1>4 DEF Taken
<1>7. UnitCount(Taken(sl)) = UnitCount(Taken(sl)') + q0
  BY <1>b, <1>6, AskType, AskTyped, UnitsAdd
<1>8. UnitCount(Taken(sl)') \in Nat /\ UnitCount(Taken(sl))' = UnitCount(Taken(sl)')
  BY <1>2, <1>6, AskTyped, UnitsFinite, UnitCountKept
<1>9. \A s \in Sales : StockOf(s)' = IF s = sl THEN StockOf(sl) + q0 ELSE StockOf(s)
  BY <1>1, <1>3 DEF StockOf, TypeOK
<1>10. StockConserved'
  <2> SUFFICES ASSUME NEW s \in Sales
               PROVE  StockOf(s)' = Total[s] - UnitCount(Taken(s))'
    BY DEF StockConserved
  <2>1. CASE s = sl
    BY <2>1, <1>1, <1>7, <1>8, <1>9
  <2>2. CASE s # sl
    <3>1. UnitCount(Taken(s))' = UnitCount(Taken(s))
      BY <2>2, <1>2, <1>5, UnitCountKept
    <3> QED BY <2>2, <3>1, <1>9 DEF StockInv, StockConserved
  <2> QED BY <2>1, <2>2
<1>11. (\A s \in Sales : UnitCount(Accepted(s)) <= Total[s])'
  <2> SUFFICES ASSUME NEW s \in Sales
               PROVE  UnitCount(Accepted(s))' <= Total[s]
    OBVIOUS
  <2>1. UnitCount(Accepted(s))' = UnitCount(Accepted(s)')
    BY <1>2, UnitCountKept
  <2>2. Accepted(s)' \in SUBSET Accepted(s) /\ Accepted(s) \in SUBSET Buys
    BY <1>2, <1>4 DEF Accepted, Taken, InStock
  <2>3. UnitCount(Accepted(s)') <= UnitCount(Accepted(s))
    BY <2>2, AskTyped, UnitsMonotone
  <2>4. UnitCount(Accepted(s)') \in Nat /\ UnitCount(Accepted(s)) \in Nat
    BY <2>2, AskTyped, UnitsFinite
  <2>5. UnitCount(Accepted(s)) <= Total[s] /\ Total[s] \in Nat
    BY ValuesAssumption DEF StockInv
  <2> QED BY <2>1, <2>3, <2>4, <2>5
<1>12. (\A q \in Buys : pc[q] \in Took \ {"short", "lost"} => InStock(left[q]))'
  BY <1>2, <1>4 DEF StockInv, InStock
<1>13. (\A q \in bought : pc[q] = "done")'
  BY <1>2, <1>4 DEF StockInv, TypeOK
<1> QED
  BY <1>10, <1>11, <1>12, <1>13 DEF StockInv

LEMMA StockStep == TypeOK /\ TypeOK' /\ StockInv /\ [Next]_vars => StockInv'
<1> SUFFICES ASSUME TypeOK, TypeOK', StockInv, [Next]_vars PROVE StockInv'
  OBVIOUS
<1> USE DEF redis, postgres, locals, vars, Took, Holding
<1> DEFINE Same == ask' = ask /\ left' = left /\ stock' = stock
           Settled == Took \ {"short", "lost"}
           Quiet == /\ \A q \in Buys : pc'[q] \in Took <=> pc[q] \in Took
                    /\ \A q \in Buys : pc'[q] \in Settled => pc[q] \in Settled
                    /\ \A q \in bought' : pc'[q] = "done"
<1>0. ASSUME Same, Quiet PROVE StockInv'
  BY <1>0, StockQuiet
<1>1. bought \subseteq Buys /\ \A q \in bought : pc[q] = "done"
  BY DEF TypeOK, StockInv
<1>2. ASSUME NEW r \in Buys, DecrStock(r) PROVE StockInv'
  BY <1>2, StockDecr
<1>3. ASSUME NEW r \in Buys, GiveBack(r) PROVE StockInv'
  BY <1>3, StockGiveBack
<1>4. ASSUME NEW r \in Requests, Authenticate(r) PROVE Same /\ Quiet
  BY <1>1, <1>4 DEF Authenticate, Go, TypeOK, Requests
<1>5. ASSUME NEW r \in Buys,
             LoadSale(r) \/ TurnAway(r) \/ CheckDaily(r) \/ CountRequest(r)
               \/ SetRateWindow(r) \/ TurnAwayPoor(r)
      PROVE  Same /\ Quiet
  BY <1>1, <1>5 DEF LoadSale, TurnAway, CheckDaily, CountRequest, SetRateWindow,
     TurnAwayPoor, Go, TypeOK, Requests
<1>6. ASSUME NEW r \in Buys, FlushUser(r) \/ FlushSale(r) \/ MarkDaily(r)
      PROVE  Same /\ Quiet
  BY <1>1, <1>6 DEF FlushUser, FlushSale, MarkDaily, Go, TypeOK, Requests
<1>7. ASSUME NEW r \in Buys, Commit(r) PROVE Same /\ Quiet
  BY <1>1, <1>7 DEF Commit, Go, TypeOK, Requests
<1>8. ASSUME NEW r \in TopUps, FlushTopUp(r) \/ CommitTopUp(r) PROVE Same /\ Quiet
  BY <1>1, <1>8, RequestsAssumption DEF FlushTopUp, CommitTopUp, Go, TypeOK, Requests
<1>9. ASSUME NEW r \in MayFail, Fail(r) PROVE Same /\ Quiet
  BY <1>1, <1>9, RequestsAssumption DEF Fail, InFlight, TypeOK, Requests
<1>10. ASSUME Environment PROVE Same /\ Quiet
  BY <1>1, <1>10 DEF Environment, Tick, RateWindowEnds, DailyKeyExpires
<1>11. ASSUME UNCHANGED vars PROVE Same /\ Quiet
  BY <1>1, <1>11
<1> HIDE DEF Same, Quiet
<1> QED
  BY <1>0, <1>2, <1>3, <1>4, <1>5, <1>6, <1>7, <1>8, <1>9, <1>10, <1>11
  DEF Next, Step, BuyStep, TopUpStep, Terminated

(* For every number of buyers, sales and units and every interleaving, the *)
(* counter in Redis and the requests that hold units add up to the stock.  *)
THEOREM StockCorrect == Spec => []StockInv
<1>1. TypeOK /\ StockInv /\ [Next]_vars => TypeOK' /\ StockInv'
  BY TypeStep, StockStep
<1> QED
  BY <1>1, TypeInit, StockInit, PTL DEF Spec

THEOREM StockIsConserved == Spec => []StockConserved
<1>1. StockInv => StockConserved
  BY DEF StockInv
<1> QED
  BY <1>1, StockCorrect, PTL

LEMMA RecordedFits == TypeOK /\ StockInv => NoOversell
<1> SUFFICES ASSUME TypeOK, StockInv, NEW s \in Sales
             PROVE  UnitCount(Recorded(s)) <= Total[s]
  BY DEF NoOversell
<1>1. Recorded(s) \in SUBSET Accepted(s) /\ Accepted(s) \in SUBSET Buys
  BY DEF Recorded, Accepted, Taken, StockInv, TypeOK, Took, Holding
<1>2. UnitCount(Recorded(s)) <= UnitCount(Accepted(s))
  BY <1>1, AskTyped, UnitsMonotone
<1>3. UnitCount(Recorded(s)) \in Nat /\ UnitCount(Accepted(s)) \in Nat
  BY <1>1, AskTyped, UnitsFinite
<1>4. UnitCount(Accepted(s)) <= Total[s] /\ Total[s] \in Nat
  BY ValuesAssumption DEF StockInv
<1> QED
  BY <1>2, <1>3, <1>4

(* The README's "prevents overselling": whatever fails and whatever order  *)
(* the steps come in, no more units are recorded than were put on sale.    *)
THEOREM NeverOversold == Spec => []NoOversell
  BY TypeCorrect, StockCorrect, RecordedFits, PTL

-----------------------------------------------------------------------------
(* Refusals. *)

LEMMA OnlyDecrStockIsShort ==
  ASSUME TypeOK, [Next]_vars, NEW r \in Buys, pc[r] = "counted", pc'[r] = "short"
  PROVE  DecrStock(r) /\ ~InStock(left'[r])
<1> USE DEF Go, Requests, TypeOK
<1>1. ASSUME NEW q \in Requests, NEW to, to # "short", pc' = [pc EXCEPT ![q] = to]
      PROVE  FALSE
  BY <1>1
<1>2. ASSUME pc' = pc PROVE FALSE
  BY <1>2
<1>3. ASSUME NEW q \in Buys, DecrStock(q) PROVE DecrStock(r) /\ ~InStock(left'[r])
  BY <1>3 DEF DecrStock
<1>4. ASSUME NEW q \in Requests, Authenticate(q) PROVE FALSE
  BY <1>1, <1>4 DEF Authenticate
<1>5. ASSUME NEW q \in Buys, LoadSale(q) \/ TurnAway(q) \/ CheckDaily(q)
                                \/ CountRequest(q) \/ SetRateWindow(q) \/ TurnAwayPoor(q)
      PROVE  FALSE
  BY <1>1, <1>5 DEF LoadSale, TurnAway, CheckDaily, CountRequest, SetRateWindow, TurnAwayPoor
<1>6. ASSUME NEW q \in Buys, GiveBack(q) \/ FlushUser(q) \/ FlushSale(q)
                                \/ MarkDaily(q) \/ Commit(q)
      PROVE  FALSE
  BY <1>1, <1>6 DEF GiveBack, FlushUser, FlushSale, MarkDaily, Commit
<1>7. ASSUME NEW q \in TopUps, FlushTopUp(q) \/ CommitTopUp(q) PROVE FALSE
  BY <1>1, <1>7 DEF FlushTopUp, CommitTopUp
<1>8. ASSUME NEW q \in MayFail, Fail(q) PROVE FALSE
  BY <1>1, <1>8, RequestsAssumption DEF Fail
<1>9. ASSUME Environment PROVE FALSE
  BY <1>2, <1>9 DEF Environment, Tick, RateWindowEnds, DailyKeyExpires
<1>10. ASSUME UNCHANGED vars PROVE FALSE
  BY <1>2, <1>10 DEF vars
<1> QED
  BY <1>3, <1>4, <1>5, <1>6, <1>7, <1>8, <1>9, <1>10
  DEF Next, Step, BuyStep, TopUpStep, Terminated

LEMMA WithoutShortAllFit ==
  ASSUME TypeOK, StockInv, NEW s \in Sales, Short(s) = {}
  PROVE  Accepted(s) = Taken(s)
<1> SUFFICES ASSUME NEW x \in Taken(s) PROVE InStock(left[x])
  BY DEF Accepted
<1>1. x \in Buys /\ ask[x].sale = s /\ pc[x] \in Took
  BY DEF Taken
<1>2. CASE pc[x] \in Took \ {"short", "lost"}
  BY <1>1, <1>2 DEF StockInv
<1>3. CASE pc[x] \in {"short", "lost"}
  BY <1>1, <1>3 DEF Short
<1> QED
  BY <1>1, <1>2, <1>3

(* "Insufficient stock" is said for a reason: units are missing, or another *)
(* refusal holds the counter down.                                         *)
THEOREM RefusalsNeedALack == Spec => RefusedForLack
<1>1. ASSUME TypeOK, StockInv, [Next]_vars
      PROVE  [\A r \in Buys :
               pc[r] = "counted" /\ pc'[r] = "short"
                 => \/ Total[ask[r].sale] - UnitCount(Accepted(ask[r].sale)) < ask[r].quantity
                    \/ Short(ask[r].sale) # {}]_vars
  <2> SUFFICES ASSUME NEW r \in Buys, pc[r] = "counted", pc'[r] = "short",
                      Short(ask[r].sale) = {}
               PROVE  Total[ask[r].sale] - UnitCount(Accepted(ask[r].sale)) < ask[r].quantity
    OBVIOUS
  <2>1. DecrStock(r) /\ ~InStock(left'[r])
    BY <1>1, OnlyDecrStockIsShort
  <2>2. ask[r].sale \in Sales /\ ask[r].quantity \in Nat
    BY <1>1, AskType
  <2>3. StockOf(ask[r].sale) \in Int
    BY <1>1, <2>2 DEF TypeOK, StockOf
  <2>4. left'[r] = StockOf(ask[r].sale) - ask[r].quantity
    BY <1>1, <2>1 DEF DecrStock, TypeOK
  <2>5. StockOf(ask[r].sale) < ask[r].quantity
    BY <2>1, <2>2, <2>3, <2>4 DEF InStock
  <2>6. UnitCount(Accepted(ask[r].sale)) = UnitCount(Taken(ask[r].sale))
    BY <1>1, <2>2, WithoutShortAllFit
  <2>7. StockOf(ask[r].sale) = Total[ask[r].sale] - UnitCount(Taken(ask[r].sale))
    BY <1>1, <2>2 DEF StockInv, StockConserved
  <2> QED
    BY <2>5, <2>6, <2>7
<1> QED
  BY <1>1, TypeCorrect, StockCorrect, PTL DEF Spec, RefusedForLack

-----------------------------------------------------------------------------
(* Money. *)

(* Every session computes from a balance that was not negative, and a      *)
(* purchase subtracts no more than that.                                   *)
MoneyInv == NeverInDebt /\ \A r \in Requests : bal[r] >= 0

LEMMA MoneyStep == BuyersOK /\ MoneyInv /\ Step => MoneyInv'
<1> SUFFICES ASSUME BuyersOK, MoneyInv, Step PROVE MoneyInv'
  OBVIOUS
<1> USE DEF redis, postgres, locals, vars, MoneyInv, NeverInDebt
<1>1. ASSUME NEW r \in Requests, Authenticate(r) PROVE MoneyInv'
  <2>1. UserOf(r) \in Users
    BY BuyType, TopUpType DEF Requests
  <2> QED BY <1>1, <2>1 DEF Authenticate, BuyersOK
<1>2. ASSUME NEW r \in Buys, DecrStock(r) PROVE MoneyInv'
  <2>1. Cost(r) \in Int /\ r \in Requests /\ bal[r] \in Int /\ bal[r] >= Cost(r)
    BY <1>2, BuyType DEF DecrStock, BuyersOK
  <2>2. bal' = bal \/ bal' = [bal EXCEPT ![r] = bal[r] - Cost(r)]
    BY <1>2 DEF DecrStock
  <2> QED BY <1>2, <2>1, <2>2 DEF DecrStock, BuyersOK
<1>3. ASSUME NEW r \in Buys, Commit(r) PROVE MoneyInv'
  BY <1>3, BuyType DEF Commit, NewBalance, BuyersOK
<1>4. ASSUME NEW r \in TopUps, FlushTopUp(r) PROVE MoneyInv'
  BY <1>4, TopUpType DEF FlushTopUp, BuyersOK
<1>5. ASSUME NEW r \in TopUps, CommitTopUp(r) PROVE MoneyInv'
  BY <1>5, TopUpType DEF CommitTopUp, NewBalance, BuyersOK
<1>6. ASSUME NEW r \in Buys,
             LoadSale(r) \/ TurnAway(r) \/ CheckDaily(r) \/ CountRequest(r)
               \/ SetRateWindow(r) \/ TurnAwayPoor(r)
      PROVE  MoneyInv'
  BY <1>6 DEF LoadSale, TurnAway, CheckDaily, CountRequest, SetRateWindow, TurnAwayPoor
<1>7. ASSUME NEW r \in Buys, GiveBack(r) \/ FlushUser(r) \/ FlushSale(r) \/ MarkDaily(r)
      PROVE  MoneyInv'
  BY <1>7 DEF GiveBack, FlushUser, FlushSale, MarkDaily
<1>8. ASSUME (\E r \in MayFail : Fail(r)) \/ Environment PROVE MoneyInv'
  BY <1>8 DEF Fail, Environment, Tick, RateWindowEnds, DailyKeyExpires
<1> QED
  BY <1>1, <1>2, <1>3, <1>4, <1>5, <1>6, <1>7, <1>8
  DEF Step, BuyStep, TopUpStep

(* Whatever purchases and top-ups of a user overlap, each overwriting the  *)
(* others' balance, the balance never goes below zero.                     *)
THEOREM NobodyInDebt == Spec => []NeverInDebt
<1>1. Init => MoneyInv
  BY ValuesAssumption DEF Init, Opening, MoneyInv, NeverInDebt
<1>2. MoneyInv => NeverInDebt
  BY DEF MoneyInv
<1>3. TypeOK /\ MoneyInv /\ [Next]_vars => MoneyInv'
  BY TypeParts, MoneyStep
  DEF Next, Terminated, vars, postgres, locals, MoneyInv, NeverInDebt
<1> QED
  BY <1>1, <1>2, <1>3, TypeCorrect, PTL DEF Spec

-----------------------------------------------------------------------------
(* No money appears or disappears. *)

(* What r has put into its session's balance, or taken out of it, and has  *)
(* not committed yet.                                                      *)
Credit(r) == IF r \in TopUps /\ pc[r] = "written" THEN fund[r].amount ELSE 0
Debit(r)  == IF r \in Buys /\ pc[r] \in {"taken", "charged", "written", "marked"}
             THEN Cost(r) ELSE 0

PricesInv == /\ \A s \in Sales : sale[s].price \in Nat
             /\ \A r \in Buys : copy[r].price \in Nat
             /\ \A r \in bought : pc[r] = "done"
             /\ IsFiniteSet({r \in TopUps : pc[r] = "done"})

(* A session's balance was within the bounds when it was read, and the     *)
(* bounds only widen.                                                      *)
SessionInv ==
  \A r \in Requests :
    pc[r] \in InFlight =>
      /\ bal[r] <= Funds[UserOf(r)] + Added(UserOf(r)) + Credit(r)
      /\ bal[r] >= Funds[UserOf(r)] - Spent(UserOf(r)) - Debit(r)

BankInv == PricesInv /\ MoneyBounds /\ SessionInv

LEMMA PricesStep == TypeOK /\ PricesInv /\ [Next]_vars => PricesInv'
<1> SUFFICES ASSUME TypeOK, PricesInv, [Next]_vars PROVE PricesInv'
  OBVIOUS
<1> USE DEF redis, postgres, locals, vars
<1> DEFINE Quiet == /\ sale' = sale /\ bought' = bought
                    /\ \A q \in Buys : copy'[q].price \in Nat
                    /\ \A q \in bought : pc'[q] = "done"
                    /\ \A q \in TopUps : pc'[q] = "done" <=> pc[q] = "done"
<1>0. ASSUME Quiet PROVE PricesInv'
  <2>1. {r \in TopUps : pc'[r] = "done"} = {r \in TopUps : pc[r] = "done"}
    BY <1>0
  <2> QED
    BY <1>0, <2>1 DEF PricesInv
<1>1. /\ bought \subseteq Buys /\ \A q \in bought : pc[q] = "done"
      /\ \A q \in Buys : copy[q].price \in Nat
      /\ \A s \in Sales : sale[s].price \in Nat
  BY DEF TypeOK, PricesInv
<1>2. ASSUME NEW r \in Requests, Authenticate(r) PROVE Quiet
  BY <1>1, <1>2 DEF Authenticate, Go, TypeOK, Requests
<1>3. ASSUME NEW r \in Buys, LoadSale(r) PROVE Quiet
  BY <1>1, <1>3, AskType, RequestsAssumption DEF LoadSale, Go, TypeOK, Requests
<1>4. ASSUME NEW r \in Buys,
             TurnAway(r) \/ CheckDaily(r) \/ CountRequest(r) \/ SetRateWindow(r)
               \/ TurnAwayPoor(r) \/ DecrStock(r) \/ GiveBack(r)
      PROVE  Quiet
  BY <1>1, <1>4, RequestsAssumption DEF TurnAway, CheckDaily, CountRequest, SetRateWindow,
     TurnAwayPoor, DecrStock, GiveBack, Go, TypeOK, Requests
<1>5. ASSUME NEW r \in Buys, FlushUser(r) \/ FlushSale(r) \/ MarkDaily(r) PROVE Quiet
  BY <1>1, <1>5, RequestsAssumption DEF FlushUser, FlushSale, MarkDaily, Go, TypeOK, Requests
<1>6. ASSUME NEW r \in Buys, Commit(r) PROVE PricesInv'
  <2>1. /\ bought' = bought \cup {r} /\ copy' = copy
        /\ pc' = [pc EXCEPT ![r] = "done"] /\ r \in Requests /\ r \notin TopUps
        /\ \/ sale' = sale
           \/ sale' = [sale EXCEPT ![ask[r].sale] =
                          [sale[ask[r].sale] EXCEPT !.remaining = left[r]]]
    BY <1>6, RequestsAssumption DEF Commit, Go, Requests
  <2>2. {q \in TopUps : pc'[q] = "done"} = {q \in TopUps : pc[q] = "done"}
    BY <2>1 DEF TypeOK
  <2>3. \A q \in bought' : pc'[q] = "done"
    BY <1>1, <2>1 DEF TypeOK, Requests
  <2>4. \A s \in Sales : sale'[s].price \in Nat
    <3>1. \A s \in Sales : sale[s] \in SaleRow
      BY DEF TypeOK
    <3>2. sale \in [Sales -> SaleRow] /\ ask[r].sale \in Sales
      BY AskType DEF TypeOK
    <3>3. [sale[ask[r].sale] EXCEPT !.remaining = left[r]].price = sale[ask[r].sale].price
      BY <3>1, <3>2 DEF SaleRow
    <3> QED
      BY <1>1, <2>1, <3>2, <3>3
  <2>5. IsFiniteSet({q \in TopUps : pc'[q] = "done"})
    BY <2>2 DEF PricesInv
  <2> QED
    BY <1>1, <2>1, <2>3, <2>4, <2>5 DEF PricesInv
<1>7. ASSUME NEW r \in TopUps, FlushTopUp(r) PROVE Quiet
  BY <1>1, <1>7, RequestsAssumption DEF FlushTopUp, Go, TypeOK, Requests
<1>8. ASSUME NEW r \in TopUps, CommitTopUp(r) PROVE PricesInv'
  <2>1. /\ bought' = bought /\ copy' = copy /\ sale' = sale
        /\ pc' = [pc EXCEPT ![r] = "done"] /\ r \in Requests /\ r \notin Buys
    BY <1>8, RequestsAssumption DEF CommitTopUp, Go, Requests
  <2>2. {q \in TopUps : pc'[q] = "done"} = {q \in TopUps : pc[q] = "done"} \cup {r}
    BY <2>1 DEF TypeOK, Requests
  <2>3. IsFiniteSet({q \in TopUps : pc'[q] = "done"})
    BY <2>2, FS_AddElement DEF PricesInv
  <2> QED
    BY <1>1, <2>1, <2>3 DEF PricesInv, TypeOK, Requests
<1>9. ASSUME NEW r \in MayFail, Fail(r) PROVE Quiet
  BY <1>1, <1>9, RequestsAssumption DEF Fail, InFlight, Holding, TypeOK, Requests
<1>10. ASSUME Environment \/ UNCHANGED vars PROVE Quiet
  BY <1>1, <1>10 DEF Environment, Tick, RateWindowEnds, DailyKeyExpires
<1> HIDE DEF Quiet
<1> QED
  BY <1>0, <1>2, <1>3, <1>4, <1>5, <1>6, <1>7, <1>8, <1>9, <1>10
  DEF Next, Step, BuyStep, TopUpStep, Terminated

(* Costs and amounts can be added up. *)
LEMMA MoneyTyped ==
  ASSUME TypeOK, PricesInv
  PROVE  /\ \A r \in Buys : Cost(r) \in Nat
         /\ \A r \in TopUps : fund[r].amount \in Nat
         /\ \A u \in Users : Spent(u) \in Nat /\ Added(u) \in Nat
<1>1. ASSUME NEW r \in Buys PROVE Cost(r) \in Nat
  <2>1. copy[r].price \in Nat /\ ask[r].quantity \in Nat
    BY AskType, ValuesAssumption DEF PricesInv
  <2>2. \A a, b \in Nat : a * b \in Nat
    OBVIOUS
  <2> QED
    BY <2>1, <2>2 DEF Cost
<1>2. \A r \in TopUps : fund[r].amount \in Nat
  BY FundType
<1>3. ASSUME NEW u \in Users PROVE Spent(u) \in Nat
  <2> DEFINE f == [r \in Buys |-> Cost(r)]
             R == {r \in bought : ask[r].user = u}
  <2>1. R \in SUBSET Buys
    BY DEF TypeOK
  <2>2. IsFiniteSet(R)
    BY <2>1, RequestsAssumption, FS_Subset
  <2>3. \A x \in R : f[x] \in Nat
    BY <1>1, <2>1
  <2>4. Tally(f, R) \in Nat
    <3> HIDE DEF f, R
    <3> QED BY <2>2, <2>3, TallyFinite
  <2> QED
    BY <2>4 DEF Spent
<1>4. ASSUME NEW u \in Users PROVE Added(u) \in Nat
  <2> DEFINE f == [r \in TopUps |-> fund[r].amount]
             R == {r \in TopUps : pc[r] = "done" /\ fund[r].user = u}
  <2>1. R \in SUBSET {r \in TopUps : pc[r] = "done"}
    OBVIOUS
  <2>2. IsFiniteSet(R)
    <3> HIDE DEF R
    <3> QED BY <2>1, FS_Subset DEF PricesInv
  <2>3. \A x \in R : f[x] \in Nat
    BY <1>2
  <2>4. Tally(f, R) \in Nat
    <3> HIDE DEF f, R
    <3> QED BY <2>2, <2>3, TallyFinite
  <2> QED
    BY <2>4 DEF Added
<1> QED
  BY <1>1, <1>2, <1>3, <1>4

LEMMA SpentKept ==
  ASSUME ask' = ask, bought' = bought, bought \subseteq Buys,
         \A q \in bought : copy'[q] = copy[q], NEW u
  PROVE  Spent(u)' = Spent(u)
<1> DEFINE f == [r \in Buys |-> Cost(r)]
           g == [r \in Buys |-> copy'[r].price * ask[r].quantity]
           R == {r \in bought : ask[r].user = u}
<1>1. Spent(u)' = Tally(g, R)
  BY DEF Spent, Cost, Tally, Shares
<1>2. \A r \in R : f[r] = g[r]
  BY DEF Cost
<1>3. Tally(f, R) = Tally(g, R)
  <2> HIDE DEF f, g, R
  <2> QED BY <1>2, TallySame
<1> QED
  BY <1>1, <1>3 DEF Spent

LEMMA AddedKept ==
  ASSUME fund' = fund, \A q \in TopUps : pc'[q] = "done" <=> pc[q] = "done", NEW u
  PROVE  Added(u)' = Added(u)
<1>1. {r \in TopUps : pc'[r] = "done" /\ fund'[r].user = u}
        = {r \in TopUps : pc[r] = "done" /\ fund[r].user = u}
  OBVIOUS
<1> QED
  BY <1>1 DEF Added, Tally, Shares

(* The commit of a purchase and of a top-up widen the bounds by what they  *)
(* take or add.                                                            *)
LEMMA SpentGrows ==
  ASSUME TypeOK, PricesInv, NEW r \in Buys \ bought,
         ask' = ask, copy' = copy, bought' = bought \cup {r}, NEW u \in Users
  PROVE  Spent(u)' = Spent(u) + IF u = UserOf(r) THEN Cost(r) ELSE 0
<1> DEFINE f == [q \in Buys |-> Cost(q)]
           R == {q \in bought : ask[q].user = u}
<1>1. Spent(u)' = Tally(f, {q \in bought \cup {r} : ask[q].user = u})
  BY DEF Spent, Cost, Tally, Shares
<1>2. Spent(u) = Tally(f, R) /\ Spent(u) \in Nat
  BY MoneyTyped DEF Spent
<1>3. UserOf(r) = ask[r].user
  BY AskType
<1>4. CASE u # ask[r].user
  <2>1. {q \in bought \cup {r} : ask[q].user = u} = R
    BY <1>4
  <2> QED
    BY <1>1, <1>2, <1>3, <1>4, <2>1
<1>5. CASE u = ask[r].user
  <2>1. {q \in bought \cup {r} : ask[q].user = u} = R \cup {r} /\ r \notin R
    BY <1>5
  <2>2. R \in SUBSET Buys
    BY DEF TypeOK
  <2>3. IsFiniteSet(R)
    BY <2>2, RequestsAssumption, FS_Subset
  <2>4. (\A x \in R : f[x] \in Nat) /\ f[r] \in Nat /\ f[r] = Cost(r)
    BY <2>2, MoneyTyped
  <2>5. Tally(f, R \cup {r}) = Tally(f, R) + f[r]
    <3> HIDE DEF f, R
    <3> QED BY <2>1, <2>3, <2>4, TallyAdd
  <2> QED
    BY <1>1, <1>2, <1>3, <1>5, <2>1, <2>4, <2>5
<1> QED
  BY <1>4, <1>5

LEMMA AddedGrows ==
  ASSUME TypeOK, PricesInv, NEW r \in TopUps, pc[r] # "done",
         fund' = fund, pc' = [pc EXCEPT ![r] = "done"], NEW u \in Users
  PROVE  Added(u)' = Added(u) + IF u = UserOf(r) THEN fund[r].amount ELSE 0
<1> DEFINE f == [q \in TopUps |-> fund[q].amount]
           R == {q \in TopUps : pc[q] = "done" /\ fund[q].user = u}
<1>1. Added(u)' = Tally(f, {q \in TopUps : pc'[q] = "done" /\ fund[q].user = u})
  BY DEF Added, Tally, Shares
<1>2. Added(u) = Tally(f, R) /\ Added(u) \in Nat
  BY MoneyTyped DEF Added
<1>3. UserOf(r) = fund[r].user
  BY RequestsAssumption DEF UserOf
<1>4. \A q \in TopUps : pc'[q] = "done" <=> pc[q] = "done" \/ q = r
  BY DEF TypeOK, Requests
<1>5. CASE u # fund[r].user
  <2>1. {q \in TopUps : pc'[q] = "done" /\ fund[q].user = u} = R
    BY <1>4, <1>5
  <2>2. Added(u)' = Added(u)
    BY <1>1, <1>2, <2>1
  <2> HIDE DEF R, f
  <2> QED
    BY <1>2, <1>3, <1>5, <2>2
<1>6. CASE u = fund[r].user
  <2>1. {q \in TopUps : pc'[q] = "done" /\ fund[q].user = u} = R \cup {r} /\ r \notin R
    BY <1>4, <1>6
  <2>2. R \in SUBSET {q \in TopUps : pc[q] = "done"}
    OBVIOUS
  <2>3. IsFiniteSet(R)
    <3> HIDE DEF R
    <3> QED BY <2>2, FS_Subset DEF PricesInv
  <2>4. (\A x \in R : f[x] \in Nat) /\ f[r] \in Nat /\ f[r] = fund[r].amount
    BY FundType
  <2>5. Tally(f, R \cup {r}) = Tally(f, R) + f[r]
    <3> HIDE DEF f, R
    <3> QED BY <2>1, <2>3, <2>4, TallyAdd
  <2> QED
    BY <1>1, <1>2, <1>3, <1>6, <2>1, <2>4, <2>5
<1> QED
  BY <1>5, <1>6

(* A step that commits nothing, and leaves what sessions in flight hold.   *)
LEMMA BankQuiet ==
  ASSUME TypeOK, PricesInv, MoneyBounds, SessionInv,
         ask' = ask, fund' = fund, balance' = balance, bought' = bought, bal' = bal,
         \A q \in bought : copy'[q] = copy[q],
         \A q \in TopUps : pc'[q] = "done" <=> pc[q] = "done",
         \A q \in Requests : pc'[q] \in InFlight =>
                             /\ pc[q] \in InFlight
                             /\ Credit(q)' = Credit(q) /\ Debit(q)' = Debit(q)
  PROVE  MoneyBounds' /\ SessionInv'
<1>1. \A u \in Users : Spent(u)' = Spent(u) /\ Added(u)' = Added(u)
  BY SpentKept, AddedKept DEF TypeOK
<1>2. \A q \in Requests : UserOf(q) \in Users /\ UserOf(q)' = UserOf(q)
  BY AskType, FundType DEF UserOf, Requests
<1>3. MoneyBounds'
  BY <1>1 DEF MoneyBounds
<1>4. SessionInv'
  BY <1>1, <1>2 DEF SessionInv
<1> QED
  BY <1>3, <1>4

(* Bounds that are no tighter than before keep everything that was within. *)
LEMMA BoundsWiden ==
  ASSUME TypeOK, PricesInv, MoneyBounds, SessionInv,
         NEW r \in Requests, pc[r] \in InFlight,
         ask' = ask, fund' = fund, bal' = bal, copy' = copy,
         pc' = [pc EXCEPT ![r] = "done"],
         balance' = [balance EXCEPT ![UserOf(r)] = bal[r]],
         \A u \in Users : /\ Spent(u)' = Spent(u) + IF u = UserOf(r) THEN Debit(r) ELSE 0
                          /\ Added(u)' = Added(u) + IF u = UserOf(r) THEN Credit(r) ELSE 0
  PROVE  MoneyBounds' /\ SessionInv'
<1>1. /\ UserOf(r) \in Users
      /\ \A q \in Requests : UserOf(q) \in Users /\ UserOf(q)' = UserOf(q)
  BY AskType, FundType DEF UserOf, Requests
<1>2. \A u \in Users : Spent(u) \in Nat /\ Added(u) \in Nat /\ Funds[u] \in Nat
  BY MoneyTyped, ValuesAssumption
<1>3. Credit(r) \in Nat /\ Debit(r) \in Nat
  BY MoneyTyped DEF Credit, Debit
<1>4. MoneyBounds'
  <2> SUFFICES ASSUME NEW u \in Users
               PROVE  /\ balance'[u] <= Funds[u] + Added(u)'
                      /\ balance'[u] >= Funds[u] - Spent(u)'
    BY DEF MoneyBounds
  <2>1. balance[u] \in Int /\ bal[r] \in Int
    BY DEF TypeOK
  <2>2. CASE u = UserOf(r)
    <3>1. balance'[u] = bal[r]
      BY <1>1, <2>2 DEF TypeOK
    <3> QED
      BY <1>2, <1>3, <2>1, <2>2, <3>1 DEF SessionInv
  <2>3. CASE u # UserOf(r)
    <3>1. balance'[u] = balance[u]
      BY <2>3 DEF TypeOK
    <3> QED
      BY <1>2, <2>1, <2>3, <3>1 DEF MoneyBounds
  <2> QED BY <2>2, <2>3
<1>5. ASSUME NEW q \in Requests, pc'[q] \in InFlight
      PROVE  /\ bal[q] <= Funds[UserOf(q)] + Added(UserOf(q))' + Credit(q)'
             /\ bal[q] >= Funds[UserOf(q)] - Spent(UserOf(q))' - Debit(q)'
  <2>1. q # r /\ pc'[q] = pc[q]
    BY <1>5 DEF TypeOK, InFlight, Holding
  <2>2. Credit(q)' = Credit(q) /\ Debit(q)' = Debit(q)
    BY <2>1 DEF Credit, Debit, Cost
  <2>3. Credit(q) \in Nat /\ Debit(q) \in Nat /\ bal[q] \in Int
    BY MoneyTyped DEF Credit, Debit, TypeOK
  <2>4. /\ bal[q] <= Funds[UserOf(q)] + Added(UserOf(q)) + Credit(q)
        /\ bal[q] >= Funds[UserOf(q)] - Spent(UserOf(q)) - Debit(q)
    BY <1>5, <2>1 DEF SessionInv
  <2>5. PICK u \in Users : u = UserOf(q)
    BY <1>1
  <2>6. \/ Spent(u)' = Spent(u) /\ Added(u)' = Added(u)
        \/ Spent(u)' = Spent(u) + Debit(r) /\ Added(u)' = Added(u) + Credit(r)
    <3>1. CASE u = UserOf(r)
      BY <3>1
    <3>2. CASE u # UserOf(r)
      <4>1. Spent(u)' = Spent(u) + 0 /\ Added(u)' = Added(u) + 0
        BY <3>2
      <4> QED
        BY <1>2, <4>1
    <3> QED BY <3>1, <3>2
  <2> QED
    BY <1>1, <1>2, <1>3, <2>2, <2>3, <2>4, <2>5, <2>6
<1>6. SessionInv'
  BY <1>1, <1>5 DEF SessionInv
<1> QED
  BY <1>4, <1>6

LEMMA BankStep == TypeOK /\ TypeOK' /\ BankInv /\ [Next]_vars => BankInv'
<1> SUFFICES ASSUME TypeOK, TypeOK', BankInv, [Next]_vars PROVE BankInv'
  OBVIOUS
<1> USE DEF redis, postgres, locals, vars
<1>p. PricesInv /\ PricesInv' /\ MoneyBounds /\ SessionInv
  BY PricesStep DEF BankInv
<1>q. \A q \in bought : q \in Buys /\ pc[q] = "done"
  BY <1>p DEF TypeOK, PricesInv
<1> DEFINE Goal == MoneyBounds' /\ SessionInv'
           Quiet == /\ ask' = ask /\ fund' = fund /\ balance' = balance
                    /\ bought' = bought /\ bal' = bal
                    /\ \A q \in bought : copy'[q] = copy[q]
                    /\ \A q \in TopUps : pc'[q] = "done" <=> pc[q] = "done"
                    /\ \A q \in Requests : pc'[q] \in InFlight =>
                         /\ pc[q] \in InFlight
                         /\ Credit(q)' = Credit(q) /\ Debit(q)' = Debit(q)
<1>0. ASSUME Quiet PROVE Goal
  BY <1>0, <1>p, BankQuiet
<1>1. ASSUME NEW r \in Requests, Authenticate(r) PROVE Goal
  <2>1. /\ ask' = ask /\ fund' = fund /\ balance' = balance /\ bought' = bought
        /\ copy' = copy
        /\ pc[r] = "idle" /\ pc' = [pc EXCEPT ![r] = "authed"]
        /\ bal' = [bal EXCEPT ![r] = balance[UserOf(r)]]
    BY <1>1 DEF Authenticate, Go
  <2>2. \A q \in TopUps : pc'[q] = "done" <=> pc[q] = "done"
    BY <2>1 DEF TypeOK, Requests
  <2>3. \A u \in Users : Spent(u)' = Spent(u) /\ Added(u)' = Added(u)
    BY <1>q, <2>1, <2>2, SpentKept, AddedKept
  <2>4. \A q \in Requests : UserOf(q) \in Users /\ UserOf(q)' = UserOf(q)
    BY <2>1, AskType, FundType DEF UserOf, Requests
  <2>5. MoneyBounds'
    BY <1>p, <2>1, <2>3 DEF MoneyBounds
  <2>6. ASSUME NEW q \in Requests, pc'[q] \in InFlight
        PROVE  /\ bal'[q] <= Funds[UserOf(q)] + Added(UserOf(q)) + Credit(q)'
               /\ bal'[q] >= Funds[UserOf(q)] - Spent(UserOf(q)) - Debit(q)'
    <3>1. CASE q = r
      <4>1. Credit(q)' = 0 /\ Debit(q)' = 0
        BY <2>1, <3>1 DEF Credit, Debit, TypeOK
      <4>2. bal'[q] = balance[UserOf(q)]
        BY <2>1, <3>1 DEF TypeOK
      <4>3. PICK u \in Users : u = UserOf(q)
        BY <2>4
      <4>4. Spent(u) \in Nat /\ Added(u) \in Nat /\ Funds[u] \in Nat /\ balance[u] \in Int
        BY <1>p, MoneyTyped, ValuesAssumption DEF TypeOK
      <4> QED
        BY <1>p, <4>1, <4>2, <4>3, <4>4 DEF MoneyBounds
    <3>2. CASE q # r
      <4>1. pc'[q] = pc[q] /\ bal'[q] = bal[q]
        BY <2>1, <3>2 DEF TypeOK
      <4>2. Credit(q)' = Credit(q) /\ Debit(q)' = Debit(q)
        BY <2>1, <4>1 DEF Credit, Debit, Cost
      <4> QED
        BY <1>p, <2>6, <4>1, <4>2 DEF SessionInv
    <3> QED BY <3>1, <3>2
  <2>7. SessionInv'
    BY <2>3, <2>4, <2>6 DEF SessionInv
  <2> QED BY <2>5, <2>7
<1>2. ASSUME NEW r \in Buys, LoadSale(r) PROVE Quiet
  <2>1. /\ ask' = ask /\ fund' = fund /\ balance' = balance /\ bought' = bought
        /\ bal' = bal
        /\ pc[r] = "authed" /\ pc' = [pc EXCEPT ![r] = "loaded"]
        /\ \A q \in Buys : q # r => copy'[q] = copy[q]
    BY <1>2 DEF LoadSale, Go, TypeOK
  <2>2. /\ r \in Requests /\ r \notin TopUps /\ pc'[r] = "loaded"
        /\ \A q \in Requests : q # r => pc'[q] = pc[q]
    BY <2>1, AskType, RequestsAssumption DEF TypeOK
  <2>3. \A q \in bought : copy'[q] = copy[q]
    BY <1>q, <2>1
  <2>4. \A q \in Requests : Credit(q)' = Credit(q) /\ Debit(q)' = Debit(q)
    BY <2>1, <2>2 DEF Credit, Debit, Cost
  <2>5. \A q \in Requests : pc'[q] \in InFlight => pc[q] \in InFlight
    BY <2>1, <2>2 DEF InFlight
  <2> QED
    BY <2>1, <2>2, <2>3, <2>4, <2>5 DEF Requests
<1>3. ASSUME NEW r \in Buys, NEW to \in Stages, pc' = [pc EXCEPT ![r] = to],
             pc[r] \in InFlight,
             pc[r] \in {"taken", "charged", "written", "marked"}
               <=> to \in {"taken", "charged", "written", "marked"},
             ask' = ask, fund' = fund, balance' = balance, bought' = bought,
             bal' = bal, copy' = copy
      PROVE  Quiet
  <2>1. /\ r \in Requests /\ r \notin TopUps
        /\ pc'[r] = to /\ \A q \in Requests : q # r => pc'[q] = pc[q]
    BY <1>3, AskType, RequestsAssumption DEF TypeOK
  <2>2. \A q \in Requests : Credit(q)' = Credit(q) /\ Debit(q)' = Debit(q)
    BY <1>3, <2>1 DEF Credit, Debit, Cost
  <2> QED
    BY <1>3, <2>1, <2>2 DEF Requests
<1>4. ASSUME NEW r \in Buys,
             TurnAway(r) \/ CheckDaily(r) \/ CountRequest(r) \/ SetRateWindow(r)
               \/ TurnAwayPoor(r) \/ GiveBack(r)
      PROVE  Quiet
  BY <1>3, <1>4, StagesOf DEF TurnAway, CheckDaily, CountRequest, SetRateWindow,
     TurnAwayPoor, GiveBack, Go, InFlight, Holding
<1>5. ASSUME NEW r \in Buys, FlushUser(r) \/ FlushSale(r) \/ MarkDaily(r) PROVE Quiet
  BY <1>3, <1>5, StagesOf DEF FlushUser, FlushSale, MarkDaily, Go, InFlight, Holding
<1>6. ASSUME NEW r \in Buys, DecrStock(r) PROVE Goal
  <2>1. /\ ask' = ask /\ fund' = fund /\ balance' = balance /\ bought' = bought
        /\ copy' = copy /\ pc[r] = "counted"
        /\ \/ pc' = [pc EXCEPT ![r] = "short"] /\ bal' = bal
           \/ pc' = [pc EXCEPT ![r] = "taken"] /\ bal' = [bal EXCEPT ![r] = bal[r] - Cost(r)]
    BY <1>6 DEF DecrStock, Go
  <2>2. CASE pc' = [pc EXCEPT ![r] = "short"] /\ bal' = bal
    BY <1>0, <1>3, <2>1, <2>2, StagesOf DEF InFlight, Holding
  <2>3. CASE pc' = [pc EXCEPT ![r] = "taken"] /\ bal' = [bal EXCEPT ![r] = bal[r] - Cost(r)]
    <3>1. /\ r \in Requests /\ r \notin TopUps /\ pc'[r] = "taken"
          /\ bal'[r] = bal[r] - Cost(r) /\ bal[r] \in Int /\ Cost(r) \in Nat
          /\ \A q \in Requests : q # r => pc'[q] = pc[q] /\ bal'[q] = bal[q]
      BY <1>p, <2>3, AskType, MoneyTyped, RequestsAssumption DEF TypeOK
    <3>2. \A u \in Users : Spent(u)' = Spent(u) /\ Added(u)' = Added(u)
      BY <1>q, <2>1, <3>1, SpentKept, AddedKept DEF Requests
    <3>3. \A q \in Requests : UserOf(q) \in Users /\ UserOf(q)' = UserOf(q)
      BY <2>1, AskType, FundType DEF UserOf, Requests
    <3>4. ASSUME NEW q \in Requests, pc'[q] \in InFlight
          PROVE  /\ bal'[q] <= Funds[UserOf(q)] + Added(UserOf(q)) + Credit(q)'
                 /\ bal'[q] >= Funds[UserOf(q)] - Spent(UserOf(q)) - Debit(q)'
      <4>1. CASE q = r
        <5>1. Credit(r)' = 0 /\ Debit(r)' = Cost(r) /\ Credit(r) = 0 /\ Debit(r) = 0
          BY <2>1, <3>1 DEF Credit, Debit, Cost
        <5>2. PICK u \in Users : u = UserOf(r)
          BY <3>1, <3>3
        <5>3. Spent(u) \in Nat /\ Added(u) \in Nat /\ Funds[u] \in Nat
          BY <1>p, MoneyTyped, ValuesAssumption
        <5>4. bal[r] <= Funds[u] + Added(u) + 0 /\ bal[r] >= Funds[u] - Spent(u) - 0
          BY <1>p, <2>1, <3>1, <5>1, <5>2 DEF SessionInv, InFlight
        <5> QED
          BY <3>1, <4>1, <5>1, <5>2, <5>3, <5>4
      <4>2. CASE q # r
        <5>1. Credit(q)' = Credit(q) /\ Debit(q)' = Debit(q)
          BY <2>1, <3>1, <4>2 DEF Credit, Debit, Cost
        <5> QED
          BY <1>p, <3>1, <3>4, <4>2, <5>1 DEF SessionInv
      <4> QED BY <4>1, <4>2
    <3>5. MoneyBounds' /\ SessionInv'
      BY <1>p, <2>1, <3>2, <3>3, <3>4 DEF MoneyBounds, SessionInv
    <3> QED BY <3>5
  <2> QED BY <2>1, <2>2, <2>3
<1>7. ASSUME NEW r \in Buys, Commit(r) PROVE Goal
  <2>1. /\ ask' = ask /\ fund' = fund /\ bal' = bal /\ copy' = copy
        /\ bought' = bought \cup {r}
        /\ pc[r] = "marked" /\ pc' = [pc EXCEPT ![r] = "done"]
        /\ balance' = [balance EXCEPT ![UserOf(r)] = bal[r]]
    BY <1>7 DEF Commit, Go, NewBalance
  <2>2. r \in Requests /\ r \notin TopUps /\ r \notin bought /\ pc[r] \in InFlight
    BY <1>q, <2>1, AskType, RequestsAssumption DEF InFlight, Holding
  <2>3. Debit(r) = Cost(r) /\ Credit(r) = 0
    BY <2>1, <2>2 DEF Debit, Credit
  <2>4. \A u \in Users : Spent(u)' = Spent(u) + IF u = UserOf(r) THEN Debit(r) ELSE 0
    BY <1>p, <2>1, <2>2, <2>3, SpentGrows
  <2>5. \A u \in Users : Added(u)' = Added(u) + IF u = UserOf(r) THEN Credit(r) ELSE 0
    <3>1. \A q \in TopUps : pc'[q] = "done" <=> pc[q] = "done"
      BY <2>1, <2>2 DEF TypeOK
    <3>2. \A u \in Users : Added(u)' = Added(u) /\ Added(u) \in Nat
      BY <1>p, <2>1, <3>1, AddedKept, MoneyTyped
    <3> QED BY <2>3, <3>2
  <2> QED BY <1>p, <2>1, <2>2, <2>4, <2>5, BoundsWiden
<1>8. ASSUME NEW r \in TopUps, FlushTopUp(r) PROVE Goal
  <2>1. /\ ask' = ask /\ fund' = fund /\ balance' = balance /\ bought' = bought
        /\ copy' = copy
        /\ pc[r] = "authed" /\ pc' = [pc EXCEPT ![r] = "written"]
        /\ bal' = [bal EXCEPT ![r] = bal[r] + fund[r].amount]
    BY <1>8 DEF FlushTopUp, Go
  <2>2. /\ r \in Requests /\ r \notin Buys /\ pc'[r] = "written"
        /\ bal'[r] = bal[r] + fund[r].amount /\ bal[r] \in Int /\ fund[r].amount \in Nat
        /\ \A q \in Requests : q # r => pc'[q] = pc[q] /\ bal'[q] = bal[q]
    BY <2>1, FundType, RequestsAssumption DEF TypeOK
  <2>3. \A u \in Users : Spent(u)' = Spent(u) /\ Added(u)' = Added(u)
    BY <1>q, <2>1, <2>2, SpentKept, AddedKept DEF Requests
  <2>4. \A q \in Requests : UserOf(q) \in Users /\ UserOf(q)' = UserOf(q)
    BY <2>1, AskType, FundType DEF UserOf, Requests
  <2>5. ASSUME NEW q \in Requests, pc'[q] \in InFlight
        PROVE  /\ bal'[q] <= Funds[UserOf(q)] + Added(UserOf(q)) + Credit(q)'
               /\ bal'[q] >= Funds[UserOf(q)] - Spent(UserOf(q)) - Debit(q)'
    <3>1. CASE q = r
      <4>1. /\ Credit(r)' = fund[r].amount /\ Debit(r)' = 0
            /\ Credit(r) = 0 /\ Debit(r) = 0
        BY <2>1, <2>2 DEF Credit, Debit
      <4>2. PICK u \in Users : u = UserOf(r)
        BY <2>2, <2>4
      <4>3. Spent(u) \in Nat /\ Added(u) \in Nat /\ Funds[u] \in Nat
        BY <1>p, MoneyTyped, ValuesAssumption
      <4>4. bal[r] <= Funds[u] + Added(u) + 0 /\ bal[r] >= Funds[u] - Spent(u) - 0
        BY <1>p, <2>1, <2>2, <4>1, <4>2 DEF SessionInv, InFlight
      <4> QED
        BY <2>2, <3>1, <4>1, <4>2, <4>3, <4>4
    <3>2. CASE q # r
      <4>1. Credit(q)' = Credit(q) /\ Debit(q)' = Debit(q)
        BY <2>1, <2>2, <3>2 DEF Credit, Debit, Cost
      <4> QED
        BY <1>p, <2>2, <2>5, <3>2, <4>1 DEF SessionInv
    <3> QED BY <3>1, <3>2
  <2> QED
    BY <1>p, <2>1, <2>3, <2>4, <2>5 DEF MoneyBounds, SessionInv
<1>9. ASSUME NEW r \in TopUps, CommitTopUp(r) PROVE Goal
  <2>1. /\ ask' = ask /\ fund' = fund /\ bal' = bal /\ copy' = copy /\ bought' = bought
        /\ pc[r] = "written" /\ pc' = [pc EXCEPT ![r] = "done"]
        /\ balance' = [balance EXCEPT ![UserOf(r)] = bal[r]]
    BY <1>9 DEF CommitTopUp, Go, NewBalance
  <2>2. r \in Requests /\ r \notin Buys /\ pc[r] \in InFlight
    BY <2>1, FundType, RequestsAssumption DEF InFlight, Holding
  <2>3. Debit(r) = 0 /\ Credit(r) = fund[r].amount
    BY <2>1, <2>2 DEF Debit, Credit
  <2>4. \A u \in Users : Spent(u)' = Spent(u) + IF u = UserOf(r) THEN Debit(r) ELSE 0
    <3>1. \A u \in Users : Spent(u)' = Spent(u) /\ Spent(u) \in Nat
      BY <1>p, <1>q, <2>1, SpentKept, MoneyTyped
    <3> QED BY <2>3, <3>1
  <2>5. \A u \in Users : Added(u)' = Added(u) + IF u = UserOf(r) THEN Credit(r) ELSE 0
    BY <1>p, <2>1, <2>3, AddedGrows
  <2> QED BY <1>p, <2>1, <2>2, <2>4, <2>5, BoundsWiden
<1>10. ASSUME NEW r \in MayFail, Fail(r) PROVE Quiet
  <2>1. /\ ask' = ask /\ fund' = fund /\ balance' = balance /\ bought' = bought
        /\ bal' = bal /\ copy' = copy /\ r \in Requests
        /\ \A q \in Requests : q # r => pc'[q] = pc[q]
        /\ pc[r] \in InFlight /\ pc'[r] \in {"lost", "failed"}
    BY <1>10, RequestsAssumption DEF Fail, TypeOK
  <2>2. \A q \in Requests : pc'[q] \in InFlight => q # r
    BY <2>1 DEF InFlight, Holding
  <2>3. \A q \in Requests : q # r => Credit(q)' = Credit(q) /\ Debit(q)' = Debit(q)
    BY <2>1 DEF Credit, Debit, Cost
  <2>4. \A q \in TopUps : pc'[q] = "done" <=> pc[q] = "done"
    BY <2>1 DEF Requests, InFlight, Holding
  <2> QED
    BY <2>1, <2>2, <2>3, <2>4
<1>11. ASSUME Environment \/ UNCHANGED vars PROVE Quiet
  <2>1. /\ ask' = ask /\ fund' = fund /\ balance' = balance /\ bought' = bought
        /\ bal' = bal /\ copy' = copy /\ pc' = pc
    BY <1>11 DEF Environment, Tick, RateWindowEnds, DailyKeyExpires
  <2> QED
    BY <2>1 DEF Credit, Debit, Cost
<1>12. Goal
  <2> HIDE DEF Quiet, Goal
  <2> QED
    BY <1>0, <1>1, <1>2, <1>4, <1>5, <1>6, <1>7, <1>8, <1>9, <1>10, <1>11
    DEF Next, Step, BuyStep, TopUpStep, Terminated
<1> QED
  BY <1>p, <1>12 DEF BankInv

LEMMA BankInit == Init => BankInv
<1> SUFFICES ASSUME Init PROVE BankInv
  OBVIOUS
<1>1. /\ bought = {} /\ balance = Funds /\ \A r \in Requests : pc[r] = "idle"
      /\ \A s \in Sales : sale[s].price \in Nat
      /\ \A r \in Buys : copy[r].price \in Nat
  BY ValuesAssumption DEF Init, Opening
<1>2. {r \in TopUps : pc[r] = "done"} = {}
  BY <1>1 DEF Requests
<1>3. PricesInv
  BY <1>1, <1>2, FS_EmptySet DEF PricesInv
<1>4. \A u \in Users : Spent(u) = 0 /\ Added(u) = 0
  <2> SUFFICES ASSUME NEW u \in Users PROVE Spent(u) = 0 /\ Added(u) = 0
    OBVIOUS
  <2>1. {r \in bought : ask[r].user = u} = {}
    BY <1>1
  <2>2. {r \in TopUps : pc[r] = "done" /\ fund[r].user = u} = {}
    BY <1>2
  <2> QED
    BY <2>1, <2>2, TallyNone DEF Spent, Added
<1>5. MoneyBounds
  BY <1>1, <1>4, ValuesAssumption DEF MoneyBounds
<1>6. SessionInv
  BY <1>1 DEF SessionInv, InFlight, Holding
<1> QED
  BY <1>3, <1>5, <1>6 DEF BankInv

(* However many purchases and top-ups of a user overwrite one another's    *)
(* balance, what is stored lies between the funds less every recorded      *)
(* purchase and the funds plus every committed top-up.                     *)
THEOREM MoneyIsBounded == Spec => []MoneyBounds
<1>1. TypeOK /\ BankInv /\ [Next]_vars => TypeOK' /\ BankInv'
  BY TypeStep, BankStep
<1>2. BankInv => MoneyBounds
  BY DEF BankInv
<1> QED
  BY <1>1, <1>2, TypeInit, BankInit, PTL DEF Spec

-----------------------------------------------------------------------------
(* Daily keys. *)

(* From SETEX on a purchase is covered by its key until its day is over,   *)
(* and a key has a request behind it that got as far as SETEX.             *)
Covered(r) == DailyKey(r) \in daily \/ DayIsOver(day[r])
MarksInv == /\ \A r \in Buys : pc[r] \in {"marked", "done"} => Covered(r)
            /\ MarkHasBuyer

LEMMA DaysGoOn ==
  ASSUME BuyersOK, Tick, NEW d \in Nat, DayIsOver(d)
  PROVE  DayIsOver(d)'
<1>1. /\ now \in 0..MaxClock /\ now < MaxClock /\ now' = now + 1
      /\ MaxClock \in Nat
  BY ClockAssumption DEF BuyersOK, Tick
<1>2. now + 1 \in 0..MaxClock
  BY <1>1
<1>3. /\ DayOf[now + 1] <= DayOf[now + 1 + 1]
      /\ DayOf[now + 1] \in Nat /\ DayOf[now + 1 + 1] \in Nat
  BY <1>1, <1>2, ClockAssumption
<1> QED
  BY <1>1, <1>3 DEF DayIsOver

(* A step that changes neither the clock nor a key nor what a request past *)
(* SETEX has in hand.                                                      *)
LEMMA MarksQuiet ==
  ASSUME MarksInv, now' = now, daily' = daily, ask' = ask,
         \A q \in Buys : pc[q] \in {"marked", "done", "lost"} =>
                           /\ day'[q] = day[q]
                           /\ pc'[q] \in {"marked", "done", "lost"},
         \A q \in Buys : pc'[q] \in {"marked", "done"} => pc[q] \in {"marked", "done"}
  PROVE  MarksInv'
<1>1. \A q \in Buys : pc[q] \in {"marked", "done", "lost"} =>
         DailyKey(q)' = DailyKey(q) /\ (Covered(q)' <=> Covered(q))
  BY DEF DailyKey, Covered, DayIsOver
<1> QED
  BY <1>1 DEF MarksInv, MarkHasBuyer

LEMMA MarksStep == BuyersOK /\ MarksInv /\ Step => MarksInv'
<1> SUFFICES ASSUME BuyersOK, MarksInv, Step PROVE MarksInv'
  OBVIOUS
<1> USE DEF redis, postgres, locals, vars
<1> DEFINE Kept == {"marked", "done", "lost"}
           Quiet == /\ now' = now /\ daily' = daily /\ ask' = ask
                    /\ \A q \in Buys : pc[q] \in Kept => day'[q] = day[q] /\ pc'[q] \in Kept
                    /\ \A q \in Buys : pc'[q] \in {"marked", "done"}
                                         => pc[q] \in {"marked", "done"}
<1>0. ASSUME Quiet PROVE MarksInv'
  BY <1>0, MarksQuiet
<1>1. ASSUME NEW r \in Buys, MarkDaily(r) PROVE MarksInv'
  <2>1. /\ daily' = daily \cup {DailyKey(r)} /\ now' = now /\ ask' = ask /\ day' = day
        /\ pc[r] = "written" /\ pc' = [pc EXCEPT ![r] = "marked"] /\ r \in Requests
    BY <1>1, BuyType DEF MarkDaily, Go
  <2>2. \A q \in Buys : DailyKey(q)' = DailyKey(q) /\ (Covered(q) => Covered(q)')
    BY <2>1 DEF DailyKey, Covered, DayIsOver
  <2>3. pc'[r] = "marked" /\ \A q \in Buys : q # r => pc'[q] = pc[q]
    BY <2>1 DEF BuyersOK, Requests
  <2>4. Covered(r)'
    BY <2>1, <2>2 DEF Covered
  <2>5. MarkHasBuyer'
    BY <2>1, <2>2, <2>3 DEF MarksInv, MarkHasBuyer
  <2>6. \A q \in Buys : pc'[q] \in {"marked", "done"} => Covered(q)'
    BY <2>2, <2>3, <2>4 DEF MarksInv
  <2> QED BY <2>5, <2>6 DEF MarksInv
<1>2. ASSUME Tick PROVE MarksInv'
  <2>1. daily' = daily /\ ask' = ask /\ day' = day /\ pc' = pc
    BY <1>2 DEF Tick
  <2>2. \A q \in Buys : day[q] \in Nat /\ DailyKey(q)' = DailyKey(q)
    BY <2>1 DEF BuyersOK, DailyKey
  <2>3. \A q \in Buys : DayIsOver(day[q]) => DayIsOver(day[q])'
    BY <1>2, <2>1, <2>2, DaysGoOn DEF DayIsOver
  <2>4. \A q \in Buys : Covered(q) => Covered(q)'
    BY <2>1, <2>2, <2>3 DEF Covered
  <2> QED BY <2>1, <2>2, <2>4 DEF MarksInv, MarkHasBuyer
<1>3. ASSUME NEW k \in daily, DailyKeyExpires(k) PROVE MarksInv'
  <2>1. /\ daily' = daily \ {k} /\ now' = now /\ ask' = ask /\ day' = day /\ pc' = pc
        /\ DayIsOver(k[3])
    BY <1>3 DEF DailyKeyExpires
  <2>2. \A q \in Buys : DailyKey(q)' = DailyKey(q) /\ (DailyKey(q) = k => k[3] = day[q])
    BY <2>1 DEF DailyKey
  <2>3. \A q \in Buys : Covered(q) => Covered(q)'
    BY <2>1, <2>2 DEF Covered, DayIsOver
  <2> QED BY <2>1, <2>2, <2>3 DEF MarksInv, MarkHasBuyer
<1>4. ASSUME NEW r \in Requests, Authenticate(r) PROVE Quiet
  BY <1>4 DEF Authenticate, Go, BuyersOK, Requests
<1>5. ASSUME NEW r \in Buys,
             LoadSale(r) \/ TurnAway(r) \/ CheckDaily(r) \/ CountRequest(r)
               \/ SetRateWindow(r) \/ TurnAwayPoor(r)
      PROVE  Quiet
  BY <1>5 DEF LoadSale, TurnAway, CheckDaily, CountRequest, SetRateWindow,
     TurnAwayPoor, Go, BuyersOK, Requests
<1>6. ASSUME NEW r \in Buys,
             DecrStock(r) \/ GiveBack(r) \/ FlushUser(r) \/ FlushSale(r) \/ Commit(r)
      PROVE  Quiet
  BY <1>6 DEF DecrStock, GiveBack, FlushUser, FlushSale, Commit, Go, BuyersOK, Requests
<1>7. ASSUME NEW r \in TopUps, FlushTopUp(r) \/ CommitTopUp(r) PROVE Quiet
  BY <1>7, RequestsAssumption DEF FlushTopUp, CommitTopUp, Go, BuyersOK, Requests
<1>8. ASSUME NEW r \in MayFail, Fail(r) PROVE Quiet
  BY <1>8, RequestsAssumption DEF Fail, InFlight, Holding, BuyersOK, Requests
<1>9. ASSUME (\E k \in expiring : RateWindowEnds(k)) PROVE Quiet
  BY <1>9 DEF RateWindowEnds
<1> HIDE DEF Quiet
<1> QED
  BY <1>0, <1>1, <1>2, <1>3, <1>4, <1>5, <1>6, <1>7, <1>8, <1>9
  DEF Step, BuyStep, TopUpStep, Environment

LEMMA MarksCorrect == Spec => []MarksInv
<1>1. Init => MarksInv
  BY RequestsAssumption DEF Init, Opening, MarksInv, MarkHasBuyer, Requests
<1>2. TypeOK /\ MarksInv /\ [Next]_vars => MarksInv'
  <2>1. CASE UNCHANGED vars
    BY <2>1, MarksQuiet DEF vars, redis, postgres, locals
  <2> QED
    BY <2>1, TypeParts, MarksStep DEF Next, Terminated
<1> QED
  BY <1>1, <1>2, TypeCorrect, PTL DEF Spec

(* A recorded purchase is covered by its daily key until its day is over:  *)
(* SETEX comes before the commit, whatever fails in between.               *)
THEOREM RowsAreMarked == Spec => []RowHasMark
<1>1. TypeOK /\ StockInv /\ MarksInv => RowHasMark
  BY DEF TypeOK, StockInv, MarksInv, Covered, RowHasMark
<1> QED
  BY <1>1, TypeCorrect, StockCorrect, MarksCorrect, PTL

(* Nobody is told "already purchased" for a request that was refused.      *)
THEOREM MarksHaveBuyers == Spec => []MarkHasBuyer
<1>1. MarksInv => MarkHasBuyer
  BY DEF MarksInv
<1> QED
  BY <1>1, MarksCorrect, PTL

LEMMA OnlyCheckDailyUnmarks ==
  ASSUME BuyersOK, Step, NEW r \in Buys, pc[r] = "loaded", pc'[r] = "unmarked"
  PROVE  DailyKey(r) \notin daily
<1> USE DEF Go, Requests, BuyersOK
<1>1. ASSUME NEW q \in Requests, NEW to, to # "unmarked", pc' = [pc EXCEPT ![q] = to]
      PROVE  FALSE
  BY <1>1
<1>2. ASSUME pc' = pc PROVE FALSE
  BY <1>2
<1>3. ASSUME NEW q \in Buys, CheckDaily(q) PROVE DailyKey(r) \notin daily
  BY <1>3 DEF CheckDaily
<1>4. ASSUME NEW q \in Requests, Authenticate(q) PROVE FALSE
  BY <1>1, <1>4 DEF Authenticate
<1>5. ASSUME NEW q \in Buys, LoadSale(q) \/ TurnAway(q) \/ CountRequest(q)
                                \/ SetRateWindow(q) \/ TurnAwayPoor(q) \/ DecrStock(q)
      PROVE  FALSE
  BY <1>1, <1>5 DEF LoadSale, TurnAway, CountRequest, SetRateWindow, TurnAwayPoor, DecrStock
<1>6. ASSUME NEW q \in Buys, GiveBack(q) \/ FlushUser(q) \/ FlushSale(q)
                                \/ MarkDaily(q) \/ Commit(q)
      PROVE  FALSE
  BY <1>1, <1>6 DEF GiveBack, FlushUser, FlushSale, MarkDaily, Commit
<1>7. ASSUME NEW q \in TopUps, FlushTopUp(q) \/ CommitTopUp(q) PROVE FALSE
  BY <1>1, <1>7 DEF FlushTopUp, CommitTopUp
<1>8. ASSUME NEW q \in MayFail, Fail(q) PROVE FALSE
  BY <1>1, <1>8, RequestsAssumption DEF Fail
<1>9. ASSUME Environment PROVE FALSE
  BY <1>2, <1>9 DEF Environment, Tick, RateWindowEnds, DailyKeyExpires
<1> QED
  BY <1>3, <1>4, <1>5, <1>6, <1>7, <1>8, <1>9
  DEF Step, BuyStep, TopUpStep

(* Once a purchase of a user's is committed, EXISTS turns every later      *)
(* request for that sale and day away, but in the last instant of the day. *)
THEOREM NoneGetsPastTheMark == Spec => NoSecondPurchase
<1>1. ASSUME TypeOK, StockInv, MarksInv, [Next]_vars
      PROVE  [\A r, q \in Buys :
               pc[r] = "loaded" /\ pc'[r] = "unmarked" /\ q \in bought /\ DailyKey(q) = DailyKey(r)
                 => DayIsOver(day[r])]_vars
  <2> SUFFICES ASSUME NEW r \in Buys, NEW q \in Buys, pc[r] = "loaded", pc'[r] = "unmarked",
                      q \in bought, DailyKey(q) = DailyKey(r)
               PROVE  DayIsOver(day[r])
    OBVIOUS
  <2>1. DailyKey(r) \notin daily
    BY <1>1, TypeParts, OnlyCheckDailyUnmarks DEF Next, Terminated, vars
  <2>2. Covered(q)
    BY <1>1 DEF StockInv, MarksInv
  <2>3. day[q] = day[r]
    BY DEF DailyKey
  <2> QED
    BY <2>1, <2>2, <2>3 DEF Covered
<1> QED
  BY <1>1, TypeCorrect, StockCorrect, MarksCorrect, PTL DEF Spec, NoSecondPurchase

-----------------------------------------------------------------------------
(* The rate limit. *)

(* A step that sets no counter and no TTL, and moves nobody to or from the *)
(* place between INCR and EXPIRE.                                          *)
LEMMA WindowQuiet ==
  ASSUME WindowCloses, rate' = rate, expiring' = expiring, ask' = ask,
         \A q \in Buys : pc[q] \in {"first", "failed"} => pc'[q] \in {"first", "failed"}
  PROVE  WindowCloses'
<1>1. \A q \in Buys : RateKey(q)' = RateKey(q)
  BY DEF RateKey
<1> QED
  BY <1>1 DEF WindowCloses

LEMMA WindowStep == BuyersOK /\ WindowCloses /\ Step => WindowCloses'
<1> SUFFICES ASSUME BuyersOK, WindowCloses, Step PROVE WindowCloses'
  OBVIOUS
<1> USE DEF redis, postgres, locals, vars
<1> DEFINE Between == {"first", "failed"}
           Quiet == /\ rate' = rate /\ expiring' = expiring /\ ask' = ask
                    /\ \A q \in Buys : pc[q] \in Between => pc'[q] \in Between
<1>0. ASSUME Quiet PROVE WindowCloses'
  BY <1>0, WindowQuiet
<1>1. ASSUME NEW r \in Buys, CountRequest(r) PROVE WindowCloses'
  <2>1. /\ rate' = [rate EXCEPT ![RateKey(r)] = rate[RateKey(r)] + 1]
        /\ expiring' = expiring /\ ask' = ask /\ pc[r] = "unmarked"
        /\ \E to : pc' = [pc EXCEPT ![r] = to] /\ (rate[RateKey(r)] + 1 = 1 => to = "first")
    BY <1>1, ValuesAssumption DEF CountRequest, Go
  <2>2. /\ r \in Requests /\ RateKey(r) \in Users \X Sales
        /\ \A q \in Buys : RateKey(q)' = RateKey(q) /\ (q # r => pc'[q] = pc[q])
        /\ rate[RateKey(r)] \in Nat
    BY <2>1, BuyType DEF RateKey, BuyersOK, Requests
  <2> SUFFICES ASSUME NEW k \in Users \X Sales, rate'[k] > 0, k \notin expiring
               PROVE  \E q \in Buys : pc'[q] \in Between /\ RateKey(q) = k
    BY <2>1, <2>2 DEF WindowCloses
  <2>3. CASE rate[k] > 0
    <3>1. PICK q \in Buys : pc[q] \in Between /\ RateKey(q) = k
      BY <2>3 DEF WindowCloses
    <3> QED
      BY <2>1, <2>2, <3>1
  <2>4. CASE ~(rate[k] > 0)
    <3>1. k = RateKey(r) /\ rate[k] = 0
      BY <2>1, <2>2, <2>4 DEF BuyersOK
    <3>2. pc'[r] = "first"
      BY <2>1, <2>2, <3>1 DEF BuyersOK
    <3> QED
      BY <3>1, <3>2
  <2> QED BY <2>3, <2>4
<1>2. ASSUME NEW r \in Buys, SetRateWindow(r) PROVE WindowCloses'
  <2>1. /\ expiring' = expiring \cup {RateKey(r)} /\ rate' = rate /\ ask' = ask
        /\ pc' = [pc EXCEPT ![r] = "counted"] /\ r \in Requests
    BY <1>2, BuyType DEF SetRateWindow, Go
  <2>2. \A q \in Buys : RateKey(q)' = RateKey(q) /\ (q # r => pc'[q] = pc[q])
    BY <2>1 DEF RateKey, BuyersOK, Requests
  <2> QED
    BY <2>1, <2>2 DEF WindowCloses
<1>3. ASSUME NEW k \in expiring, RateWindowEnds(k) PROVE WindowCloses'
  <2>1. /\ expiring' = expiring \ {k} /\ rate' = [rate EXCEPT ![k] = 0]
        /\ ask' = ask /\ pc' = pc
    BY <1>3 DEF RateWindowEnds
  <2>2. \A q \in Buys : RateKey(q)' = RateKey(q)
    BY <2>1 DEF RateKey
  <2>3. \A j \in Users \X Sales : rate'[j] > 0 => j # k /\ rate'[j] = rate[j]
    BY <2>1 DEF BuyersOK
  <2> QED
    BY <2>1, <2>2, <2>3 DEF WindowCloses
<1>4. ASSUME NEW r \in Requests, Authenticate(r) PROVE Quiet
  BY <1>4 DEF Authenticate, Go, BuyersOK, Requests
<1>5. ASSUME NEW r \in Buys, LoadSale(r) \/ TurnAway(r) \/ CheckDaily(r) \/ TurnAwayPoor(r)
      PROVE  Quiet
  BY <1>5 DEF LoadSale, TurnAway, CheckDaily, TurnAwayPoor, Go, BuyersOK, Requests
<1>6. ASSUME NEW r \in Buys, DecrStock(r) \/ GiveBack(r) \/ FlushUser(r) \/ FlushSale(r)
                               \/ MarkDaily(r) \/ Commit(r)
      PROVE  Quiet
  BY <1>6 DEF DecrStock, GiveBack, FlushUser, FlushSale, MarkDaily, Commit, Go, BuyersOK, Requests
<1>7. ASSUME NEW r \in TopUps, FlushTopUp(r) \/ CommitTopUp(r) PROVE Quiet
  BY <1>7, RequestsAssumption DEF FlushTopUp, CommitTopUp, Go, BuyersOK, Requests
<1>8. ASSUME NEW r \in MayFail, Fail(r) PROVE Quiet
  BY <1>8, RequestsAssumption DEF Fail, InFlight, Holding, BuyersOK, Requests
<1>9. ASSUME Tick \/ (\E k \in daily : DailyKeyExpires(k)) PROVE Quiet
  BY <1>9 DEF Tick, DailyKeyExpires
<1> HIDE DEF Quiet
<1> QED
  BY <1>0, <1>1, <1>2, <1>3, <1>4, <1>5, <1>6, <1>7, <1>8, <1>9
  DEF Step, BuyStep, TopUpStep, Environment

(* Nobody is held off for longer than a window: a counter without a TTL    *)
(* has its first request between INCR and EXPIRE, or that request failed.  *)
THEOREM WindowsClose == Spec => []WindowCloses
<1>1. Init => WindowCloses
  BY DEF Init, Opening, WindowCloses
<1>2. TypeOK /\ WindowCloses /\ [Next]_vars => WindowCloses'
  <2>1. CASE UNCHANGED vars
    BY <2>1, WindowQuiet DEF vars, redis
  <2> QED
    BY <2>1, TypeParts, WindowStep DEF Next, Terminated
<1> QED
  BY <1>1, <1>2, TypeCorrect, PTL DEF Spec
=============================================================================
