------------------------ MODULE SaleLifecycle_proofs ------------------------
(***************************************************************************)
(* Theorems about SaleLifecycle for any products, sales, requests and task *)
(* messages, any of which may fail, and any values in them.                *)
(***************************************************************************)
EXTENDS SaleLifecycle, Purchase_proofs

-----------------------------------------------------------------------------
(* Types. *)

Actors == Sales \cup Visits \cup Deliveries
Lockers == Requests \cup Visits \cup Deliveries \cup {NoOne}
Message == [sale : Sales, eta : Nat, tries : 0..MaxRetries]

(* What SaleTypeOK rests on: the variables of Purchase the types of the    *)
(* shared ones depend on, the bodies of requests, and the numbers a task   *)
(* adds up.                                                                *)
HandlersOK ==
  /\ bought \subseteq Buys
  /\ ask \in [Buys -> [user : Users, sale : Sales, quantity : 1..MaxQuantity]]
  /\ pc \in [Requests -> Stages]
  /\ left \in [Buys -> Int]
BodiesOK ==
  /\ visit \in [Visits -> [op : Methods, sale : Sales, change : Patches \cup {NoChange}]]
  /\ at = [x \in Actors |-> at[x]]
  /\ row \in [Visits \cup Deliveries -> SaleRow]
  /\ seen \in [Visits \cup Deliveries -> [count : Int, shelf : Nat]]
LifeType == SaleTypeOK /\ HandlersOK /\ BodiesOK

LEMMA NoRowType == NoRow \in SaleRow
  BY DEF NoRow, SaleRow

LEMMA WithType ==
  ASSUME NEW f, NEW x, NEW v, NEW D, NEW R,
         DOMAIN f \subseteq D, \A y \in DOMAIN f : f[y] \in R, x \in D, v \in R
  PROVE  /\ DOMAIN With(f, x, v) = DOMAIN f \cup {x}
         /\ DOMAIN With(f, x, v) \subseteq D
         /\ With(f, x, v) \in [DOMAIN With(f, x, v) -> R]
         /\ With(f, x, v)[x] = v
         /\ \A y \in DOMAIN f : y # x => With(f, x, v)[y] = f[y]
  BY DEF With

LEMMA StockType ==
  ASSUME LifeType, NEW s \in Sales
  PROVE  /\ StockOf(s) \in Int
         /\ \A n \in Int : SetStock(s, n) =>
              DOMAIN stock' \subseteq Sales /\ stock' \in [DOMAIN stock' -> Int]
         /\ DropCounter(s) =>
              DOMAIN stock' \subseteq Sales /\ stock' \in [DOMAIN stock' -> Int]
<1>1. DOMAIN stock \subseteq Sales /\ \A t \in DOMAIN stock : stock[t] \in Int
  BY DEF LifeType, SaleTypeOK
<1>2. StockOf(s) \in Int
  BY <1>1 DEF StockOf
<1>3. ASSUME NEW n \in Int, SetStock(s, n)
      PROVE  DOMAIN stock' \subseteq Sales /\ stock' \in [DOMAIN stock' -> Int]
  BY <1>1, <1>3, WithType DEF SetStock
<1>4. ASSUME DropCounter(s)
      PROVE  DOMAIN stock' \subseteq Sales /\ stock' \in [DOMAIN stock' -> Int]
  BY <1>1, <1>4 DEF DropCounter
<1> QED
  BY <1>2, <1>3, <1>4

LEMMA AskSale ==
  ASSUME LifeType, NEW r \in Buys
  PROVE  r \in Requests /\ ask[r].sale \in Sales /\ ask[r].quantity \in Int
  BY DEF LifeType, HandlersOK, Requests

(* What saleLock and the locks of Purchase may become. *)
LEMMA FreeType ==
  ASSUME LifeType, NEW x
  PROVE  /\ FreeFrom(saleLock, x) \in [Sales -> Lockers]
         /\ FreeFrom(shelfLock, x) \in [Products -> Deliveries \cup {NoOne}]
  BY DEF LifeType, SaleTypeOK, FreeFrom, Lockers

LEMMA LifeInit == SaleInit => LifeType
<1> SUFFICES ASSUME SaleInit PROVE LifeType
  OBVIOUS
<1>1. sale \in [Sales -> SaleRow]
  BY ValuesAssumption DEF SaleInit, Opening, SaleRow
<1>2. pc \in [Requests -> Stages]
  BY DEF SaleInit, Opening, Stages
<1>3. HandlersOK
  BY <1>2 DEF SaleInit, Opening, HandlersOK
<1>4. BodiesOK
  <2>1. visit \in [Visits -> [op : Methods, sale : Sales, change : Patches \cup {NoChange}]]
    BY DEF SaleInit
  <2>2. at = [x \in Actors |-> at[x]]
    BY DEF SaleInit, Actors
  <2>3. row \in [Visits \cup Deliveries -> SaleRow]
    BY NoRowType DEF SaleInit
  <2>4. seen \in [Visits \cup Deliveries -> [count : Int, shelf : Nat]]
    BY DEF SaleInit
  <2> QED
    BY <2>1, <2>2, <2>3, <2>4 DEF BodiesOK
<1>5. SaleTypeOK
  <2>1. /\ now \in 0..MaxClock
        /\ DOMAIN stock \subseteq Sales /\ stock \in [DOMAIN stock -> Int]
    BY ClockAssumption DEF SaleInit, Opening
  <2>2. saleLock \in [Sales -> Lockers] /\ shelfLock \in [Products -> Deliveries \cup {NoOne}]
    BY DEF SaleInit, Opening, Lockers
  <2>3. offered \subseteq Products /\ shelf \in [Products -> Nat]
    BY LifecycleAssumption DEF SaleInit
  <2>4. DOMAIN mail = {}
    BY DEF SaleInit
  <2>5. /\ \A x \in Visits \cup Deliveries : row[x] \in SaleRow
        /\ \A d \in Deliveries : seen[d].count \in Nat
    BY NoRowType DEF SaleInit
  <2> QED
    BY <1>1, <2>1, <2>2, <2>3, <2>4, <2>5 DEF SaleTypeOK, Lockers
<1> QED
  BY <1>3, <1>4, <1>5 DEF LifeType

(* The steps of purchases and top-ups. *)
LEMMA StepType ==
  ASSUME LifeType, Step, UNCHANGED lifecycle
  PROVE  LifeType'
<1> USE DEF lifecycle, catalogue, redis, postgres, locals, LifeType, SaleTypeOK, HandlersOK,
        BodiesOK, Go
<1>0. \A p \in {"idle", "authed", "loaded", "unmarked", "first", "counted", "short", "taken",
                "charged", "written", "marked", "done", "refused", "failed", "lost"} : p \in Stages
  BY DEF Stages, InFlight, Holding, Ended
<1>1. ASSUME NEW r \in Requests, Authenticate(r) PROVE LifeType'
  BY <1>0, <1>1 DEF Authenticate
<1>2. ASSUME NEW r \in Buys,
             LoadSale(r) \/ TurnAway(r) \/ CheckDaily(r) \/ CountRequest(r)
               \/ SetRateWindow(r) \/ TurnAwayPoor(r)
      PROVE  LifeType'
  <2>1. pc' \in [Requests -> Stages]
    BY <1>0, <1>2, AskSale
    DEF LoadSale, TurnAway, CheckDaily, CountRequest, SetRateWindow, TurnAwayPoor
  <2>2. UNCHANGED <<now, stock, sale, saleLock, bought, ask, left>>
    BY <1>2 DEF LoadSale, TurnAway, CheckDaily, CountRequest, SetRateWindow, TurnAwayPoor
  <2> QED
    BY <2>1, <2>2
<1>3. ASSUME NEW r \in Buys, DecrStock(r) PROVE LifeType'
  <2>1. StockOf(ask[r].sale) - ask[r].quantity \in Int
    BY AskSale, StockType
  <2>2. /\ DOMAIN stock' \subseteq Sales /\ stock' \in [DOMAIN stock' -> Int]
        /\ left' \in [Buys -> Int]
    BY <1>3, <2>1, AskSale, StockType DEF DecrStock
  <2> QED
    BY <1>0, <1>3, <2>2, AskSale DEF DecrStock
<1>4. ASSUME NEW r \in Buys, GiveBack(r) PROVE LifeType'
  <2>1. StockOf(ask[r].sale) + ask[r].quantity \in Int
    BY AskSale, StockType
  <2>2. DOMAIN stock' \subseteq Sales /\ stock' \in [DOMAIN stock' -> Int]
    BY <1>4, <2>1, AskSale, StockType DEF GiveBack
  <2> QED
    BY <1>0, <1>4, <2>2, AskSale DEF GiveBack
<1>5. ASSUME NEW r \in Buys, FlushUser(r) \/ FlushSale(r) \/ MarkDaily(r) PROVE LifeType'
  <2>1. pc' \in [Requests -> Stages]
    BY <1>0, <1>5, AskSale DEF FlushUser, FlushSale, MarkDaily
  <2>2. UNCHANGED <<now, stock, sale, bought, ask, left>>
    BY <1>5 DEF FlushUser, FlushSale, MarkDaily
  <2>3. saleLock' \in [Sales -> Lockers]
    BY <1>5, AskSale DEF FlushUser, FlushSale, MarkDaily, Lockers
  <2> QED
    BY <2>1, <2>2, <2>3 DEF Lockers
<1>6. ASSUME NEW r \in Buys, Commit(r) PROVE LifeType'
  <2>1. sale[ask[r].sale] \in SaleRow /\ left[r] \in Int
    BY AskSale
  <2>2. [sale[ask[r].sale] EXCEPT !.remaining = left[r]] \in SaleRow
    BY <2>1 DEF SaleRow
  <2>3. \/ sale' = sale
        \/ sale' = [sale EXCEPT ![ask[r].sale] =
                       [sale[ask[r].sale] EXCEPT !.remaining = left[r]]]
    BY <1>6 DEF Commit
  <2>4. sale' \in [Sales -> SaleRow]
    BY <2>2, <2>3, AskSale
  <2>5. saleLock' \in [Sales -> Lockers]
    BY <1>6, FreeType DEF Commit, Release
  <2> QED
    BY <1>0, <1>6, <2>4, <2>5, AskSale DEF Commit, Lockers
<1>7. ASSUME NEW r \in TopUps, FlushTopUp(r) PROVE LifeType'
  BY <1>0, <1>7 DEF FlushTopUp, Requests
<1>8. ASSUME NEW r \in TopUps, CommitTopUp(r) PROVE LifeType'
  <2>1. saleLock' \in [Sales -> Lockers]
    BY <1>8, FreeType DEF CommitTopUp, Release
  <2> QED
    BY <1>0, <1>8, <2>1 DEF CommitTopUp, Requests, Lockers
<1>9. ASSUME NEW r \in MayFail, Fail(r) PROVE LifeType'
  <2>1. saleLock' \in [Sales -> Lockers]
    BY <1>9, FreeType DEF Fail, Release
  <2> QED
    BY <1>0, <1>9, <2>1, RequestsAssumption DEF Fail, Lockers
<1>10. ASSUME Environment PROVE LifeType'
  BY <1>10, ClockAssumption DEF Environment, Tick, RateWindowEnds, DailyKeyExpires
<1> QED
  BY <1>1, <1>2, <1>3, <1>4, <1>5, <1>6, <1>7, <1>8, <1>9, <1>10 DEF Step, BuyStep, TopUpStep

LEMMA MoveType ==
  ASSUME LifeType, NEW x, NEW from, NEW to, Move(x, from, to)
  PROVE  (at = [y \in Actors |-> at[y]])'
<1>1. at = [y \in Actors |-> at[y]]
  BY DEF LifeType, BodiesOK
<1>2. DOMAIN at = Actors /\ at' = [at EXCEPT ![x] = to]
  BY <1>1 DEF Move
<1> QED
  BY <1>2 DEF Actors

LEMMA SendType ==
  ASSUME LifeType, NEW s \in Sales, NEW eta \in Nat, Send(s, eta)
  PROVE  /\ DOMAIN mail' \subseteq Deliveries
         /\ \A d \in DOMAIN mail' : mail'[d] \in Message
<1> DEFINE j == CHOOSE j \in Jobs : j \notin DOMAIN mail
           v == [sale |-> s, eta |-> eta, tries |-> 0]
<1>1. j \in Deliveries /\ mail' = With(mail, j, v)
  BY DEF Send, Deliveries
<1>2. v \in Message
  BY LifecycleAssumption DEF Message
<1>3. DOMAIN mail \subseteq Deliveries /\ \A d \in DOMAIN mail : mail[d] \in Message
  BY DEF LifeType, SaleTypeOK, Message
<1> QED
  BY <1>1, <1>2, <1>3 DEF With

LEMMA CreateType ==
  ASSUME LifeType, NEW s \in Sales, Create(s)
  PROVE  LifeType'
<1>1. (at = [y \in Actors |-> at[y]])'
  BY MoveType
  DEF Create, CheckProduct, CheckOverlap, SeedStock, ScheduleSync, CommitCreation
<1>2. UNCHANGED <<now, saleLock, catalogue, visit, row, seen, bought, ask, pc, left>>
  BY DEF Create, CheckProduct, CheckOverlap, SeedStock, ScheduleSync, CommitCreation, vars,
         postgres, buyers, locals
<1>3. (DOMAIN stock \subseteq Sales /\ stock \in [DOMAIN stock -> Int])'
  <2>1. CASE UNCHANGED stock
    BY <2>1 DEF LifeType, SaleTypeOK
  <2>2. CASE SetStock(s, Total[s])
    BY <2>2, StockType, ValuesAssumption
  <2> QED
    BY <2>1, <2>2
    DEF Create, CheckProduct, CheckOverlap, SeedStock, ScheduleSync, CommitCreation, vars, redis
<1>4. sale' \in [Sales -> SaleRow]
  <2>1. CASE UNCHANGED sale
    BY <2>1 DEF LifeType, SaleTypeOK
  <2>2. CASE sale' = [sale EXCEPT ![s].live = TRUE]
    BY <2>2 DEF LifeType, SaleTypeOK, SaleRow
  <2> QED
    BY <2>1, <2>2
    DEF Create, CheckProduct, CheckOverlap, SeedStock, ScheduleSync, CommitCreation, vars,
        postgres
<1>5. DOMAIN mail' \subseteq Deliveries /\ \A d \in DOMAIN mail' : mail'[d] \in Message
  <2>1. CASE UNCHANGED mail
    BY <2>1 DEF LifeType, SaleTypeOK, Message
  <2>2. CASE Send(s, Closes[s])
    BY <2>2, SendType, ValuesAssumption
  <2> QED
    BY <2>1, <2>2
    DEF Create, CheckProduct, CheckOverlap, SeedStock, ScheduleSync, CommitCreation
<1> QED
  BY <1>1, <1>2, <1>3, <1>4, <1>5
  DEF LifeType, SaleTypeOK, HandlersOK, BodiesOK, catalogue, Message

(* The three row writers of a visit. *)
LEMMA VisitBody ==
  ASSUME LifeType, NEW v \in Visits
  PROVE  /\ visit[v].sale \in Sales /\ v \in Actors /\ v # NoOne
         /\ visit[v].change \in Patches \cup {NoChange}
         /\ sale[visit[v].sale] \in SaleRow /\ row[v] \in SaleRow
         /\ seen[v].count \in Int
  BY LifecycleAssumption DEF LifeType, SaleTypeOK, BodiesOK, Actors

LEMMA DirtyType ==
  ASSUME LifeType, NEW v \in Visits
  PROVE  /\ "active" \in Dirty(v) => visit[v].change.active \in BOOLEAN
         /\ "price" \in Dirty(v) => visit[v].change.price \in Int
         /\ "opens" \in Dirty(v) => visit[v].change.opens \in Nat
         /\ "closes" \in Dirty(v) => visit[v].change.closes \in Nat
<1>1. visit[v].change \in Patches \cup {NoChange} /\ DOMAIN NoChange = {}
  BY VisitBody DEF NoChange
<1>2. visit[v].change \notin Patches => Dirty(v) = {}
  BY <1>1 DEF Dirty
<1> QED
  BY <1>1, <1>2, PatchesAssumption DEF Dirty

LEMMA PatchedType ==
  ASSUME LifeType, NEW v \in Visits, NEW w \in SaleRow
  PROVE  Patched(w, v) \in SaleRow /\ Patched(w, v).live = w.live
  BY DirtyType DEF Patched, SaleRow

(* A step that leaves the messages, the handlers and the bodies of requests *)
(* alone, and whose new values have their types.                            *)
LEMMA SameMail ==
  ASSUME LifeType,
         UNCHANGED <<now, bought, ask, pc, left, visit, mail, row, seen>>
           \/ /\ UNCHANGED <<now, ask, pc, left, visit, mail, seen>>
              /\ bought' \subseteq bought
              /\ row' \in [Visits \cup Deliveries -> SaleRow],
         (at = [y \in Actors |-> at[y]])',
         (DOMAIN stock \subseteq Sales /\ stock \in [DOMAIN stock -> Int])',
         sale' \in [Sales -> SaleRow],
         saleLock' \in [Sales -> Lockers],
         offered' \subseteq Products,
         shelf' \in [Products -> Nat],
         shelfLock' \in [Products -> Deliveries \cup {NoOne}]
  PROVE  LifeType'
  BY DEF LifeType, SaleTypeOK, HandlersOK, BodiesOK, Lockers

LEMMA VisitType ==
  ASSUME LifeType, NEW v \in Visits, Visit(v)
  PROVE  LifeType'
<1> DEFINE s == visit[v].sale
<1>0. s \in Sales /\ sale[s] \in SaleRow /\ row[v] \in SaleRow /\ seen[v].count \in Int
  BY VisitBody
<1>k. /\ DOMAIN stock \subseteq Sales /\ stock \in [DOMAIN stock -> Int]
      /\ sale \in [Sales -> SaleRow] /\ saleLock \in [Sales -> Lockers]
      /\ offered \subseteq Products /\ shelf \in [Products -> Nat]
      /\ shelfLock \in [Products -> Deliveries \cup {NoOne}]
      /\ row \in [Visits \cup Deliveries -> SaleRow]
  BY DEF LifeType, SaleTypeOK, BodiesOK, Lockers
<1> USE DEF vars, redis, postgres, locals, buyers, catalogue
<1>1. CASE LoadVisit(v)
  <2>1. (at = [y \in Actors |-> at[y]])'
    BY <1>1, MoveType DEF LoadVisit
  <2>2. row' \in [Visits \cup Deliveries -> SaleRow]
    BY <1>0, <1>1, <1>k DEF LoadVisit
  <2> QED
    BY <1>1, <1>k, <2>1, <2>2, SameMail DEF LoadVisit
<1>2. CASE FlushPatch(v)
  <2>1. (at = [y \in Actors |-> at[y]])'
    BY <1>2, MoveType DEF FlushPatch
  <2>2. saleLock' \in [Sales -> Lockers]
    BY <1>2, <1>k DEF FlushPatch, Lockers
  <2> QED
    BY <1>2, <1>k, <2>1, <2>2, SameMail DEF FlushPatch
<1>3. CASE Reschedule(v)
  <2>1. (at = [y \in Actors |-> at[y]])'
    BY <1>3, MoveType DEF Reschedule
  <2>2. Send(s, visit[v].change.closes) /\ visit[v].change.closes \in Nat
    BY <1>3, DirtyType DEF Reschedule
  <2>3. DOMAIN mail' \subseteq Deliveries /\ \A d \in DOMAIN mail' : mail'[d] \in Message
    BY <1>0, <2>2, SendType
  <2> QED
    BY <1>3, <2>1, <2>3
    DEF Reschedule, LifeType, SaleTypeOK, HandlersOK, BodiesOK, Message
<1>4. CASE CommitPatch(v)
  <2>1. (at = [y \in Actors |-> at[y]])'
    BY <1>4, MoveType DEF CommitPatch
  <2>2. sale' \in [Sales -> SaleRow]
    BY <1>0, <1>4, <1>k, PatchedType DEF CommitPatch
  <2>3. /\ saleLock' \in [Sales -> Lockers]
        /\ shelfLock' \in [Products -> Deliveries \cup {NoOne}]
    BY <1>4, FreeType DEF CommitPatch, Unlock
  <2> QED
    BY <1>4, <1>k, <2>1, <2>2, <2>3, SameMail DEF CommitPatch
<1>5. CASE ReadCounter(v)
  <2>1. (at = [y \in Actors |-> at[y]])'
    BY <1>5, MoveType DEF ReadCounter
  <2>2. PICK n : /\ n = IF s \in DOMAIN stock THEN stock[s] ELSE row[v].remaining
                 /\ seen' = [seen EXCEPT ![v].count = n]
    BY <1>5 DEF ReadCounter
  <2>3. n \in Int
    BY <1>0, <1>k, <2>2 DEF SaleRow
  <2>4. /\ seen' \in [Visits \cup Deliveries -> [count : Int, shelf : Nat]]
        /\ \A d \in Deliveries : seen'[d] = seen[d]
    BY <2>2, <2>3, LifecycleAssumption DEF LifeType, BodiesOK
  <2> QED
    BY <1>5, <2>1, <2>4
    DEF ReadCounter, LifeType, SaleTypeOK, HandlersOK, BodiesOK
<1>6. CASE CommitRead(v)
  <2>1. (at = [y \in Actors |-> at[y]])'
    BY <1>6, MoveType DEF CommitRead
  <2>2. sale' \in [Sales -> SaleRow]
    BY <1>0, <1>6, <1>k DEF CommitRead, SaleRow
  <2> QED
    BY <1>6, <1>k, <2>1, <2>2, SameMail DEF CommitRead
<1>7. CASE DropKey(v)
  <2>1. (at = [y \in Actors |-> at[y]])'
    BY <1>7, MoveType DEF DropKey
  <2>2. (DOMAIN stock \subseteq Sales /\ stock \in [DOMAIN stock -> Int])'
    BY <1>0, <1>7, StockType DEF DropKey
  <2> QED
    BY <1>7, <1>k, <2>1, <2>2, SameMail DEF DropKey
<1>8. CASE CommitDelete(v)
  <2>1. (at = [y \in Actors |-> at[y]])'
    BY <1>8, MoveType DEF CommitDelete
  <2>2. sale' \in [Sales -> SaleRow]
    BY <1>0, <1>8, <1>k DEF CommitDelete, SaleRow
  <2>3. bought' \subseteq bought
    BY <1>8 DEF CommitDelete
  <2> QED
    BY <1>8, <1>k, <2>1, <2>2, <2>3, SameMail DEF CommitDelete
<1> QED
  BY <1>1, <1>2, <1>3, <1>4, <1>5, <1>6, <1>7, <1>8 DEF Visit

LEMMA MailType ==
  ASSUME LifeType, NEW d \in DOMAIN mail
  PROVE  /\ d \in Deliveries /\ d \in Actors /\ d # NoOne
         /\ mail[d] \in Message /\ mail[d].sale \in Sales
         /\ ProductOf[mail[d].sale] \in Products
         /\ sale[mail[d].sale] \in SaleRow /\ row[d] \in SaleRow
         /\ seen[d].count \in Nat /\ seen[d].shelf \in Nat
         /\ shelf[ProductOf[mail[d].sale]] \in Nat
  BY LifecycleAssumption DEF LifeType, SaleTypeOK, BodiesOK, Actors, Message

LEMMA SyncedType ==
  ASSUME LifeType, NEW d \in DOMAIN mail, NEW w \in SaleRow
  PROVE  Synced(w, d) \in SaleRow /\ Synced(w, d).live = w.live
<1> DEFINE a == IF row[d].active THEN FALSE ELSE w.active
           n == IF row[d].remaining # seen[d].count THEN seen[d].count ELSE w.remaining
<1>0. /\ w.active \in BOOLEAN /\ w.remaining \in Int
      /\ row[d].active \in BOOLEAN /\ seen[d].count \in Int
  BY MailType DEF SaleRow
<1>1. a \in BOOLEAN /\ n \in Int
  BY <1>0
<1>2. Synced(w, d) = [w EXCEPT !.active = a, !.remaining = n]
  BY DEF Synced
<1> QED
  BY <1>1, <1>2 DEF SaleRow

LEMMA RetryType ==
  ASSUME LifeType, NEW d \in DOMAIN mail, Retry(d)
  PROVE  LifeType'
<1>1. (at = [y \in Actors |-> at[y]])'
  BY DEF Retry, LifeType, BodiesOK
<1>2. /\ saleLock' \in [Sales -> Lockers]
      /\ shelfLock' \in [Products -> Deliveries \cup {NoOne}]
  BY FreeType DEF Retry, Unlock
<1>3. DOMAIN mail' \subseteq Deliveries /\ \A e \in DOMAIN mail' : mail'[e] \in Message
  <2>1. DOMAIN mail \subseteq Deliveries /\ \A e \in DOMAIN mail : mail[e] \in Message
    BY MailType
  <2>2. CASE mail[d].tries < MaxRetries /\ mail' = [mail EXCEPT ![d].tries = @ + 1]
    <3>1. [mail[d] EXCEPT !.tries = @ + 1] \in Message
      BY <2>1, <2>2, LifecycleAssumption DEF Message
    <3> QED
      BY <2>1, <2>2, <3>1
  <2>3. CASE UNCHANGED mail
    BY <2>1, <2>3
  <2> QED
    BY <2>2, <2>3 DEF Retry
<1> QED
  BY <1>1, <1>2, <1>3
  DEF Retry, LifeType, SaleTypeOK, HandlersOK, BodiesOK, Message, Lockers, buyers, locals

LEMMA SyncType ==
  ASSUME LifeType, NEW d \in DOMAIN mail, Sync(d)
  PROVE  LifeType'
<1> DEFINE s == mail[d].sale
           p == ProductOf[s]
<1>0. /\ d \in Deliveries /\ s \in Sales /\ p \in Products
      /\ sale[s] \in SaleRow /\ row[d] \in SaleRow /\ seen[d].count \in Nat
      /\ seen[d].shelf \in Nat /\ shelf[p] \in Nat
  BY MailType
<1>k. /\ DOMAIN stock \subseteq Sales /\ stock \in [DOMAIN stock -> Int]
      /\ sale \in [Sales -> SaleRow] /\ saleLock \in [Sales -> Lockers]
      /\ offered \subseteq Products /\ shelf \in [Products -> Nat]
      /\ shelfLock \in [Products -> Deliveries \cup {NoOne}]
      /\ row \in [Visits \cup Deliveries -> SaleRow]
      /\ seen \in [Visits \cup Deliveries -> [count : Int, shelf : Nat]]
      /\ \A e \in Deliveries : seen[e].count \in Nat
  BY DEF LifeType, SaleTypeOK, BodiesOK, Lockers
<1> USE DEF vars, redis, postgres, locals, buyers, catalogue
<1>1. CASE ReadStock(d)
  <2>1. (at = [y \in Actors |-> at[y]])'
    BY <1>1, MoveType DEF ReadStock
  <2>2. PICK n : n = StockOf(s) /\ seen' = [seen EXCEPT ![d].count = IF n < 0 THEN 0 ELSE n]
    BY <1>1 DEF ReadStock
  <2>3. (IF n < 0 THEN 0 ELSE n) \in Nat
    BY <1>0, <2>2, StockType
  <2>4. /\ seen' \in [Visits \cup Deliveries -> [count : Int, shelf : Nat]]
        /\ \A e \in Deliveries : seen'[e].count \in Nat
    BY <1>0, <1>k, <2>2, <2>3
  <2> QED
    BY <1>1, <2>1, <2>4 DEF ReadStock, LifeType, SaleTypeOK, HandlersOK, BodiesOK
<1>2. CASE DropStock(d)
  <2>1. (at = [y \in Actors |-> at[y]])'
    BY <1>2, MoveType DEF DropStock
  <2>2. (DOMAIN stock \subseteq Sales /\ stock \in [DOMAIN stock -> Int])'
    BY <1>0, <1>2, StockType DEF DropStock
  <2> QED
    BY <1>2, <1>k, <2>1, <2>2, SameMail DEF DropStock
<1>3. CASE LoadSync(d)
  <2>1. (at = [y \in Actors |-> at[y]])'
    BY <1>3, MoveType DEF LoadSync
  <2>2. row' \in [Visits \cup Deliveries -> SaleRow]
    BY <1>0, <1>3, <1>k DEF LoadSync
  <2> QED
    BY <1>3, <2>1, <2>2 DEF LoadSync, LifeType, SaleTypeOK, HandlersOK, BodiesOK
<1>3a. CASE LoadProduct(d)
  <2>1. (at = [y \in Actors |-> at[y]])'
    BY <1>3a, MoveType DEF LoadProduct
  <2>2. /\ seen' \in [Visits \cup Deliveries -> [count : Int, shelf : Nat]]
        /\ \A e \in Deliveries : seen'[e].count \in Nat
    BY <1>0, <1>3a, <1>k DEF LoadProduct
  <2> QED
    BY <1>3a, <2>1, <2>2 DEF LoadProduct, LifeType, SaleTypeOK, HandlersOK, BodiesOK
<1>4. CASE FlushProduct(d)
  <2>1. (at = [y \in Actors |-> at[y]])'
    BY <1>4, MoveType DEF FlushProduct
  <2>2. shelfLock' \in [Products -> Deliveries \cup {NoOne}]
    BY <1>0, <1>4, <1>k DEF FlushProduct
  <2> QED
    BY <1>4, <1>k, <2>1, <2>2, SameMail DEF FlushProduct
<1>5. CASE FlushSync(d)
  <2>1. (at = [y \in Actors |-> at[y]])'
    BY <1>5, MoveType DEF FlushSync
  <2>2. saleLock' \in [Sales -> Lockers]
    BY <1>0, <1>5, <1>k DEF FlushSync, Lockers
  <2> QED
    BY <1>5, <1>k, <2>1, <2>2, SameMail DEF FlushSync
<1>6. CASE CommitSync(d)
  <2>1. (at = [y \in Actors |-> at[y]])'
    BY <1>6, MoveType DEF CommitSync
  <2>2. sale' \in [Sales -> SaleRow]
    BY <1>0, <1>6, <1>k, SyncedType DEF CommitSync
  <2>3. shelf' \in [Products -> Nat]
    BY <1>0, <1>6, <1>k DEF CommitSync
  <2>4. /\ saleLock' \in [Sales -> Lockers]
        /\ shelfLock' \in [Products -> Deliveries \cup {NoOne}]
    BY <1>6, FreeType DEF CommitSync, Unlock
  <2> QED
    BY <1>6, <1>k, <2>1, <2>2, <2>3, <2>4, SameMail DEF CommitSync
<1>7. CASE SyncGone(d)
  BY <1>7, RetryType DEF SyncGone
<1> QED
  BY <1>1, <1>2, <1>3, <1>3a, <1>4, <1>5, <1>6, <1>7 DEF Sync

(* Handlers, workers and the broker at their worst, and products. *)
LEMMA OtherType ==
  ASSUME LifeType,
         \/ \E r \in Buys : FlushGone(r)
         \/ \E x \in Actors : Break(x) \/ WorkerDies(x)
         \/ \E e \in Echoes : Redeliver(e)
         \/ \E p \in Products, n \in Restocks : Restock(p, n)
         \/ \E p \in Droppable : DropProduct(p)
  PROVE  LifeType'
<1>k. /\ DOMAIN stock \subseteq Sales /\ stock \in [DOMAIN stock -> Int]
      /\ sale \in [Sales -> SaleRow] /\ saleLock \in [Sales -> Lockers]
      /\ offered \subseteq Products /\ shelf \in [Products -> Nat]
      /\ shelfLock \in [Products -> Deliveries \cup {NoOne}]
      /\ at = [y \in Actors |-> at[y]]
  BY DEF LifeType, SaleTypeOK, BodiesOK, Lockers
<1> USE DEF vars, redis, postgres, locals, buyers, catalogue, lifecycle
<1>1. ASSUME NEW r \in Buys, FlushGone(r) PROVE LifeType'
  <2>1. pc' \in [Requests -> Stages]
    BY <1>1, AskSale DEF FlushGone, Go, LifeType, HandlersOK, Stages, Ended
  <2>2. saleLock' \in [Sales -> Lockers]
    BY <1>1, FreeType DEF FlushGone, Release
  <2> QED
    BY <1>1, <2>1, <2>2
    DEF FlushGone, LifeType, SaleTypeOK, HandlersOK, BodiesOK, Lockers
<1>2. ASSUME NEW x \in Actors, Break(x) \/ WorkerDies(x) PROVE LifeType'
  <2>1. (at = [y \in Actors |-> at[y]])'
    BY <1>2, <1>k DEF Break, WorkerDies
  <2>2. /\ saleLock' \in [Sales -> Lockers]
        /\ shelfLock' \in [Products -> Deliveries \cup {NoOne}]
    BY <1>2, FreeType DEF Break, WorkerDies, Unlock
  <2> QED
    BY <1>2, <1>k, <2>1, <2>2, SameMail DEF Break, WorkerDies
<1>3. ASSUME NEW e \in Echoes, Redeliver(e) PROVE LifeType'
  <2>1. DOMAIN mail \subseteq Deliveries /\ \A d \in DOMAIN mail : mail[d] \in Message
    BY MailType
  <2>2. PICK j \in Jobs \cap DOMAIN mail : mail' = With(mail, e, mail[j])
    BY <1>3 DEF Redeliver
  <2>3. DOMAIN mail' \subseteq Deliveries /\ \A d \in DOMAIN mail' : mail'[d] \in Message
    BY <2>1, <2>2 DEF With, Deliveries
  <2> QED
    BY <1>3, <2>3 DEF Redeliver, LifeType, SaleTypeOK, HandlersOK, BodiesOK, Message
<1>4. ASSUME NEW p \in Products, NEW n \in Restocks, Restock(p, n) PROVE LifeType'
  <2>1. shelf' \in [Products -> Nat]
    BY <1>4, <1>k, LifecycleAssumption DEF Restock
  <2> QED
    BY <1>4, <1>k, <2>1, SameMail DEF Restock
<1>5. ASSUME NEW p \in Droppable, DropProduct(p) PROVE LifeType'
  BY <1>5, <1>k, SameMail DEF DropProduct
<1> QED
  BY <1>1, <1>2, <1>3, <1>4, <1>5

LEMMA LifeStep == LifeType /\ [SaleNext]_all => LifeType'
<1> SUFFICES ASSUME LifeType, [SaleNext]_all PROVE LifeType'
  OBVIOUS
<1>1. CASE UNCHANGED all
  BY <1>1
  DEF all, vars, redis, postgres, locals, lifecycle, catalogue, LifeType, SaleTypeOK,
      HandlersOK, BodiesOK
<1>2. MayBreak \cap (Sales \cup Visits) \subseteq Actors /\ DOMAIN mail \subseteq Actors
  BY MailType DEF Actors
<1> QED
  BY <1>1, <1>2, StepType, CreateType, VisitType, SyncType, RetryType, OtherType
  DEF SaleNext, Over

(* Whatever becomes of a sale, its counter, its messages and its product,  *)
(* every variable keeps its type: no task counts below zero, none is       *)
(* retried more than max_retries times, and no product's stock becomes     *)
(* negative by what a task gives back.                                     *)
THEOREM SaleTypeCorrect == SaleSpec => []SaleTypeOK
<1>1. LifeType => SaleTypeOK
  BY DEF LifeType
<1> QED
  BY <1>1, LifeInit, LifeStep, PTL DEF SaleSpec

LEMMA LifeCorrect == SaleSpec => []LifeType
  BY LifeInit, LifeStep, PTL DEF SaleSpec

-----------------------------------------------------------------------------
(* What a step may do to a row of flash_sales. *)

SameRow(s) == sale'[s].live = sale[s].live /\ sale'[s].active = sale[s].active
Closing(s) == sale'[s].live = sale[s].live /\ (sale'[s].active => sale[s].active)

LEMMA StepKeepsRow ==
  ASSUME LifeType, NEW s \in Sales,
         (Step /\ UNCHANGED lifecycle) \/ \E r \in Buys : FlushGone(r)
  PROVE  SameRow(s)
<1>1. ASSUME NEW r \in Buys, Commit(r) PROVE SameRow(s)
  <2>1. sale \in [Sales -> SaleRow]
    BY DEF LifeType, SaleTypeOK
  <2>2. \/ sale' = sale
        \/ sale' = [sale EXCEPT ![ask[r].sale].remaining = left[r]]
    BY <1>1 DEF Commit
  <2> QED
    BY <2>1, <2>2 DEF SameRow, SaleRow
<1>2. UNCHANGED sale \/ \E r \in Buys : Commit(r)
  BY DEF Step, BuyStep, TopUpStep, Environment, postgres, Authenticate, LoadSale, TurnAway,
         CheckDaily, CountRequest, SetRateWindow, TurnAwayPoor, DecrStock, GiveBack, FlushUser,
         FlushSale, MarkDaily, FlushTopUp, CommitTopUp, Fail, Tick, RateWindowEnds,
         DailyKeyExpires, FlushGone
<1> QED
  BY <1>1, <1>2 DEF SameRow

LEMMA VisitKeepsRow ==
  ASSUME LifeType, NEW s \in Sales, NEW v \in Visits, Visit(v)
  PROVE  \/ SameRow(s)
         \/ CommitPatch(v) /\ visit[v].sale = s
         \/ CommitDelete(v) /\ visit[v].sale = s
<1> USE DEF vars, postgres
<1>0. sale \in [Sales -> SaleRow] /\ visit[v].sale \in Sales
  BY VisitBody DEF LifeType, SaleTypeOK
<1>1. CASE CommitRead(v)
  BY <1>0, <1>1 DEF CommitRead, SameRow, SaleRow
<1>2. CASE CommitPatch(v)
  BY <1>0, <1>2 DEF CommitPatch, SameRow
<1>3. CASE CommitDelete(v)
  BY <1>0, <1>3 DEF CommitDelete, SameRow
<1> QED
  BY <1>1, <1>2, <1>3
  DEF Visit, LoadVisit, FlushPatch, Reschedule, ReadCounter, DropKey, SameRow

LEMMA SyncKeepsRow ==
  ASSUME LifeType, NEW s \in Sales, NEW d \in DOMAIN mail, Sync(d) \/ Retry(d)
  PROVE  SameRow(s) \/ (CommitSync(d) /\ mail[d].sale = s /\ Closing(s))
<1> USE DEF vars, postgres
<1>1. CASE CommitSync(d)
  <2>1. sale \in [Sales -> SaleRow] /\ mail[d].sale \in Sales
    BY MailType DEF LifeType, SaleTypeOK
  <2>2. \A w \in SaleRow : Synced(w, d).active => w.active
    BY DEF Synced, SaleRow
  <2> QED
    BY <1>1, <2>1, <2>2, SyncedType DEF CommitSync, Closing, SameRow
<1> QED
  BY <1>1
  DEF Sync, ReadStock, DropStock, LoadSync, LoadProduct, FlushProduct, FlushSync, SyncGone,
      Retry, SameRow

LEMMA RowSteps ==
  ASSUME LifeType, NEW s \in Sales, [SaleNext]_all
  PROVE  \/ SameRow(s)
         \/ CommitCreation(s)
         \/ \E d \in DOMAIN mail : CommitSync(d) /\ mail[d].sale = s /\ Closing(s)
         \/ \E v \in Visits : /\ CommitPatch(v) \/ CommitDelete(v)
                              /\ visit[v].sale = s
<1> USE DEF vars, postgres, all
<1>1. ASSUME NEW t \in Sales, Create(t)
      PROVE  SameRow(s) \/ CommitCreation(s)
  BY <1>1
  DEF Create, CheckProduct, CheckOverlap, SeedStock, ScheduleSync, CommitCreation, SameRow,
      LifeType, SaleTypeOK
<1>2. CASE UNCHANGED sale
  BY <1>2 DEF SameRow
<1> QED
  BY <1>1, <1>2, StepKeepsRow, VisitKeepsRow, SyncKeepsRow
  DEF SaleNext, Over, Break, WorkerDies, Redeliver, Restock, DropProduct

(* No stale object reopens a closed sale: only a PATCH that sets is_active *)
(* does, however purchases, GETs and tasks write rows they loaded before.  *)
THEOREM ClosedForGood == SaleSpec => StaysClosed
<1>1. ASSUME LifeType, [SaleNext]_all
      PROVE  [\A s \in Sales :
                sale[s].live /\ sale[s].live' /\ ~sale[s].active /\ sale[s].active'
                  => \E v \in Visits : /\ at[v] # "done" /\ at'[v] = "done"
                                       /\ visit[v].sale = s /\ "active" \in Dirty(v)]_all
  <2> SUFFICES ASSUME NEW s \in Sales, sale[s].live, sale[s].live', ~sale[s].active,
                      sale[s].active'
               PROVE  \E v \in Visits : /\ at[v] # "done" /\ at'[v] = "done"
                                        /\ visit[v].sale = s /\ "active" \in Dirty(v)
    OBVIOUS
  <2>0. sale \in [Sales -> SaleRow]
    BY <1>1 DEF LifeType, SaleTypeOK
  <2>1. ~CommitCreation(s)
    BY <2>0 DEF CommitCreation, SaleRow
  <2>2. PICK v \in Visits : (CommitPatch(v) \/ CommitDelete(v)) /\ visit[v].sale = s
    BY <1>1, <2>1, RowSteps DEF SameRow, Closing
  <2>3. ~CommitDelete(v)
    BY <2>0, <2>2 DEF CommitDelete, SaleRow
  <2>4. CommitPatch(v) /\ sale'[s] = Patched(sale[s], v)
    BY <2>0, <2>2, <2>3 DEF CommitPatch
  <2>5. "active" \in Dirty(v)
    BY <2>0, <2>4 DEF Patched, SaleRow
  <2>6. at[v] # "done" /\ at'[v] = "done"
    BY <1>1, <2>4, VisitBody DEF CommitPatch, Move, LifeType, BodiesOK
  <2> QED
    BY <2>2, <2>5, <2>6
<1> QED
  BY <1>1, LifeCorrect, PTL DEF SaleSpec, StaysClosed

-----------------------------------------------------------------------------
(* A sale has its product from the moment its INSERT is sent. *)

Inserted(s) == at[s] \in {"seeded", "queued"}
ProductThere == \A s \in Sales : sale[s].live \/ Inserted(s) => ProductOf[s] \in offered

(* What a step may do to the place of a creation. *)
LEMMA PlaceSteps ==
  ASSUME LifeType, NEW s \in Sales, [SaleNext]_all
  PROVE  at'[s] = at[s] \/ Create(s) \/ (at'[s] = "failed" /\ at[s] # "created")
<1>0. at = [y \in Actors |-> at[y]] /\ s \in Actors /\ s \notin Visits \cup Deliveries
  BY LifecycleAssumption DEF LifeType, BodiesOK, Actors
<1>1. ASSUME NEW t \in Sales, t # s, Create(t) PROVE at'[s] = at[s]
  BY <1>0, <1>1
  DEF Create, CheckProduct, CheckOverlap, SeedStock, ScheduleSync, CommitCreation, Move
<1>2. ASSUME NEW v \in Visits, Visit(v) PROVE at'[s] = at[s]
  BY <1>0, <1>2
  DEF Visit, LoadVisit, FlushPatch, Reschedule, CommitPatch, ReadCounter, CommitRead, DropKey,
      CommitDelete, Move
<1>3. ASSUME NEW d \in DOMAIN mail, Sync(d) \/ Retry(d) \/ WorkerDies(d)
      PROVE  at'[s] = at[s]
  BY <1>0, <1>3, MailType
  DEF Sync, ReadStock, DropStock, LoadSync, LoadProduct, FlushProduct, FlushSync, CommitSync,
      SyncGone, Retry, WorkerDies, Move
<1>4. ASSUME NEW x \in Sales \cup Visits, Break(x)
      PROVE  at'[s] = at[s] \/ (at'[s] = "failed" /\ at[s] # "created")
  BY <1>0, <1>4 DEF Break, Settled
<1>5. ASSUME NEW r \in Buys, FlushGone(r) PROVE at'[s] = at[s]
  BY <1>5 DEF FlushGone, lifecycle
<1> QED
  BY <1>1, <1>2, <1>3, <1>4, <1>5
  DEF SaleNext, Over, Redeliver, Restock, DropProduct, all, lifecycle

LEMMA OfferedSteps ==
  ASSUME [SaleNext]_all
  PROVE  UNCHANGED offered \/ \E p \in Droppable : DropProduct(p)
<1> USE DEF vars, catalogue, lifecycle, all
<1>1. ASSUME NEW s \in Sales, Create(s) PROVE UNCHANGED offered
  BY <1>1
  DEF Create, CheckProduct, CheckOverlap, SeedStock, ScheduleSync, CommitCreation
<1>2. ASSUME NEW v \in Visits, Visit(v) PROVE UNCHANGED offered
  BY <1>2
  DEF Visit, LoadVisit, FlushPatch, Reschedule, CommitPatch, ReadCounter, CommitRead, DropKey,
      CommitDelete
<1>3. ASSUME NEW d \in DOMAIN mail, Sync(d) \/ Retry(d) \/ WorkerDies(d)
      PROVE  UNCHANGED offered
  BY <1>3
  DEF Sync, ReadStock, DropStock, LoadSync, LoadProduct, FlushProduct, FlushSync, CommitSync,
      SyncGone, Retry, WorkerDies
<1> QED
  BY <1>1, <1>2, <1>3 DEF SaleNext, FlushGone, Over, Break, Redeliver, Restock

LEMMA ProductStep == LifeType /\ ProductThere /\ [SaleNext]_all => ProductThere'
<1> SUFFICES ASSUME LifeType, ProductThere, [SaleNext]_all, NEW s \in Sales,
                    (sale[s].live \/ Inserted(s))'
             PROVE  ProductOf[s] \in offered'
  BY DEF ProductThere
<1>0. sale \in [Sales -> SaleRow] /\ at = [y \in Actors |-> at[y]] /\ s \in Actors
  BY DEF LifeType, SaleTypeOK, BodiesOK, Actors
<1>1. sale[s].live \/ Inserted(s) \/ (SeedStock(s) /\ ProductOf[s] \in offered)
  <2>1. CASE Inserted(s)'
    <3>1. CASE at'[s] = at[s]
      BY <2>1, <3>1 DEF Inserted
    <3>2. CASE Create(s)
      BY <1>0, <2>1, <3>2
      DEF Inserted, Create, CheckProduct, CheckOverlap, SeedStock, ScheduleSync, CommitCreation,
          Move
    <3> QED
      BY <2>1, <3>1, <3>2, PlaceSteps DEF Inserted
  <2>2. CASE sale[s].live'
    <3>1. CASE CommitCreation(s)
      BY <3>1 DEF CommitCreation, Move, Inserted
    <3>2. ASSUME NEW v \in Visits, CommitPatch(v) \/ CommitDelete(v), visit[v].sale = s
          PROVE  sale[s].live
      BY <1>0, <2>2, <3>2, PatchedType DEF CommitPatch, CommitDelete, SaleRow
    <3> QED
      BY <2>2, <3>1, <3>2, RowSteps DEF SameRow, Closing
  <2> QED
    BY <2>1, <2>2
<1>2. ProductOf[s] \in offered
  BY <1>1 DEF ProductThere
<1>3. ASSUME NEW p \in Droppable, DropProduct(p) PROVE ProductOf[s] # p
  BY <1>1, <1>3 DEF DropProduct, SeedStock, Move, Inserted
<1> QED
  BY <1>2, <1>3, OfferedSteps DEF DropProduct

(* A sale on record always has its product, whatever products are deleted  *)
(* while it is created, changed and synced.                                *)
THEOREM ProductStays == SaleSpec => []SaleHasProduct
<1>1. SaleInit => ProductThere
  BY DEF SaleInit, Opening, ProductThere, Inserted
<1>2. ProductThere => SaleHasProduct
  BY DEF ProductThere, SaleHasProduct
<1> QED
  BY <1>1, <1>2, LifeCorrect, ProductStep, PTL DEF SaleSpec

-----------------------------------------------------------------------------
(* A purchase has its sale from the moment its INSERT is sent. *)

Refers(r) == pc[r] \in {"written", "marked"} \/ r \in bought
SaleThere == \A r \in Buys : Refers(r) => sale[ask[r].sale].live

(* Whoever refers to a sale did so before the step, or has just found it.  *)
LEMMA ReferSteps ==
  ASSUME LifeType, NEW r \in Buys, [SaleNext]_all, Refers(r)'
  PROVE  /\ ask' = ask
         /\ \/ Refers(r)
            \/ sale[ask[r].sale].live /\ SameRow(ask[r].sale)
<1> USE DEF redis, postgres, locals, vars, buyers, lifecycle, all
<1>0. /\ pc \in [Requests -> Stages] /\ r \in Requests /\ r \notin TopUps
  BY RequestsAssumption, AskSale DEF LifeType, HandlersOK
<1>1. ASSUME NEW s \in Sales, Create(s) PROVE ask' = ask /\ Refers(r)
  BY <1>1
  DEF Create, CheckProduct, CheckOverlap, SeedStock, ScheduleSync, CommitCreation, Refers
<1>2. ASSUME NEW v \in Visits, Visit(v) PROVE ask' = ask /\ Refers(r)
  BY <1>2
  DEF Visit, LoadVisit, FlushPatch, Reschedule, CommitPatch, ReadCounter, CommitRead, DropKey,
      CommitDelete, Refers
<1>3. ASSUME NEW d \in DOMAIN mail, Sync(d) \/ Retry(d) \/ WorkerDies(d)
      PROVE  ask' = ask /\ Refers(r)
  BY <1>3
  DEF Sync, ReadStock, DropStock, LoadSync, LoadProduct, FlushProduct, FlushSync, CommitSync,
      SyncGone, Retry, WorkerDies, Refers
<1>4. ASSUME NEW q \in Buys, FlushSale(q)
      PROVE  ask' = ask /\ (Refers(r) \/ (sale[ask[r].sale].live /\ sale' = sale))
  BY <1>0, <1>4 DEF FlushSale, Go, Refers
<1>5. ASSUME NEW q \in Buys, BuyStep(q), ~FlushSale(q) PROVE ask' = ask /\ Refers(r)
  BY <1>0, <1>5
  DEF BuyStep, LoadSale, TurnAway, CheckDaily, CountRequest, SetRateWindow, TurnAwayPoor,
      DecrStock, GiveBack, FlushUser, MarkDaily, Commit, Go, Refers
<1>6. ASSUME NEW q \in TopUps, TopUpStep(q) PROVE ask' = ask /\ Refers(r)
  BY <1>0, <1>6 DEF TopUpStep, FlushTopUp, CommitTopUp, Go, Refers, Requests
<1>7. ASSUME NEW q \in Requests, Authenticate(q) \/ Fail(q) PROVE ask' = ask /\ Refers(r)
  BY <1>0, <1>7 DEF Authenticate, Fail, Go, Refers
<1>8. ASSUME NEW q \in Buys, FlushGone(q) PROVE ask' = ask /\ Refers(r)
  BY <1>0, <1>8 DEF FlushGone, Go, Refers
<1>9. ASSUME Environment PROVE ask' = ask /\ Refers(r)
  BY <1>9 DEF Environment, Tick, RateWindowEnds, DailyKeyExpires, Refers
<1>10. MayFail \subseteq Requests
  BY RequestsAssumption
<1>11. ask' = ask /\ (Refers(r) \/ (sale[ask[r].sale].live /\ sale' = sale))
  BY <1>1, <1>2, <1>3, <1>4, <1>5, <1>6, <1>7, <1>8, <1>9, <1>10
  DEF SaleNext, Step, Over, Break, Redeliver, Restock, DropProduct, Refers
<1> QED
  BY <1>11 DEF SameRow

LEMMA ReferStep == LifeType /\ SaleThere /\ [SaleNext]_all => SaleThere'
<1> SUFFICES ASSUME LifeType, SaleThere, [SaleNext]_all, NEW r \in Buys, Refers(r)'
             PROVE  sale'[ask'[r].sale].live
  BY DEF SaleThere
<1> DEFINE s == ask[r].sale
<1>0. sale \in [Sales -> SaleRow] /\ s \in Sales
  BY AskSale DEF LifeType, SaleTypeOK
<1>1. ask' = ask /\ (Refers(r) \/ SameRow(s)) /\ sale[s].live
  BY ReferSteps DEF SaleThere
<1>2. ASSUME NEW v \in Visits, CommitDelete(v), visit[v].sale = s PROVE FALSE
  BY <1>0, <1>1, <1>2 DEF CommitDelete, Referred, Refers, buyers, SameRow, SaleRow
<1>3. ASSUME NEW v \in Visits, CommitPatch(v), visit[v].sale = s PROVE sale'[s].live
  BY <1>0, <1>1, <1>3, PatchedType DEF CommitPatch
<1>4. ASSUME CommitCreation(s) PROVE sale'[s].live
  BY <1>0, <1>4 DEF CommitCreation, SaleRow
<1> QED
  BY <1>0, <1>1, <1>2, <1>3, <1>4, RowSteps DEF SameRow, Closing

LEMMA ThereCorrect == SaleSpec => []SaleThere
<1>1. SaleInit => SaleThere
  BY DEF SaleInit, Opening, SaleThere, Refers, Requests
<1> QED
  BY <1>1, LifeCorrect, ReferStep, PTL DEF SaleSpec

(* A recorded purchase always has its sale: a DELETE waits for purchases   *)
(* that were inserted, takes the recorded ones along, and makes those that *)
(* come too late fail.                                                     *)
THEOREM SaleStays == SaleSpec => []RowHasSale
<1>1. LifeType /\ SaleThere => RowHasSale
  BY DEF LifeType, HandlersOK, SaleThere, Refers, RowHasSale
<1> QED
  BY <1>1, LifeCorrect, ThereCorrect, PTL

-----------------------------------------------------------------------------
(* The counter of a sale whose counter stands. *)

(* No step changes the body of a request. *)
LEMMA BodiesKept == [SaleNext]_all => UNCHANGED <<ask, visit>>
<1> SUFFICES ASSUME [SaleNext]_all PROVE UNCHANGED <<ask, visit>>
  OBVIOUS
<1> USE DEF vars, buyers, lifecycle, all
<1>1. ASSUME NEW s \in Sales, Create(s) PROVE UNCHANGED <<ask, visit>>
  BY <1>1
  DEF Create, CheckProduct, CheckOverlap, SeedStock, ScheduleSync, CommitCreation
<1>2. ASSUME NEW v \in Visits, Visit(v) PROVE UNCHANGED <<ask, visit>>
  BY <1>2
  DEF Visit, LoadVisit, FlushPatch, Reschedule, CommitPatch, ReadCounter, CommitRead, DropKey,
      CommitDelete
<1>3. ASSUME NEW d \in DOMAIN mail, Sync(d) \/ Retry(d) \/ WorkerDies(d)
      PROVE  UNCHANGED <<ask, visit>>
  BY <1>3
  DEF Sync, ReadStock, DropStock, LoadSync, LoadProduct, FlushProduct, FlushSync, CommitSync,
      SyncGone, Retry, WorkerDies
<1>4. Step => UNCHANGED ask
  BY DEF Step, BuyStep, TopUpStep, Environment, Authenticate, LoadSale, TurnAway,
         CheckDaily, CountRequest, SetRateWindow, TurnAwayPoor, DecrStock, GiveBack, FlushUser,
         FlushSale, MarkDaily, Commit, FlushTopUp, CommitTopUp, Fail, Tick, RateWindowEnds,
         DailyKeyExpires
<1> QED
  BY <1>1, <1>2, <1>3, <1>4
  DEF SaleNext, FlushGone, Over, Break, Redeliver, Restock, DropProduct

(* Nobody gets past LoadSale before the creation of the sale is committed. *)
Early(s) == at[s] \in {"new", "priced", "clear"}
Begun(r) == pc[r] \notin {"idle", "authed", "refused", "failed"}
Unsold == \A s \in Sales : Early(s) =>
            /\ ~sale[s].live
            /\ \A r \in Buys : ask[r].sale = s => ~Begun(r)

LEMMA BeginSteps ==
  ASSUME LifeType, NEW r \in Buys, [SaleNext]_all
  PROVE  Begun(r)' => Begun(r) \/ LoadSale(r)
<1> USE DEF redis, postgres, locals, vars, buyers, lifecycle, all
<1> DEFINE Kept == Begun(r)' => Begun(r)
<1>0. /\ pc \in [Requests -> Stages] /\ r \in Requests /\ r \notin TopUps
      /\ MayFail \subseteq Requests
  BY RequestsAssumption, AskSale DEF LifeType, HandlersOK
<1>1. ASSUME NEW s \in Sales, Create(s) PROVE Kept
  BY <1>1
  DEF Create, CheckProduct, CheckOverlap, SeedStock, ScheduleSync, CommitCreation, Begun
<1>2. ASSUME NEW v \in Visits, Visit(v) PROVE Kept
  BY <1>2
  DEF Visit, LoadVisit, FlushPatch, Reschedule, CommitPatch, ReadCounter, CommitRead, DropKey,
      CommitDelete, Begun
<1>3. ASSUME NEW d \in DOMAIN mail, Sync(d) \/ Retry(d) \/ WorkerDies(d)
      PROVE  Kept
  BY <1>3
  DEF Sync, ReadStock, DropStock, LoadSync, LoadProduct, FlushProduct, FlushSync, CommitSync,
      SyncGone, Retry, WorkerDies, Begun
<1>4. ASSUME NEW q \in Buys, LoadSale(q) PROVE Kept \/ LoadSale(r)
  BY <1>0, <1>4 DEF LoadSale, Go, Begun
<1>5. ASSUME NEW q \in Buys, BuyStep(q), ~LoadSale(q) PROVE Kept
  BY <1>0, <1>5
  DEF BuyStep, TurnAway, CheckDaily, CountRequest, SetRateWindow, TurnAwayPoor,
      DecrStock, GiveBack, FlushUser, FlushSale, MarkDaily, Commit, Go, Begun
<1>6. ASSUME NEW q \in TopUps, TopUpStep(q) PROVE Kept
  BY <1>0, <1>6 DEF TopUpStep, FlushTopUp, CommitTopUp, Go, Begun, Requests
<1>7. ASSUME NEW q \in Requests, Authenticate(q) PROVE Kept
  BY <1>0, <1>7 DEF Authenticate, Go, Begun
<1>8. ASSUME NEW q \in Requests, Fail(q) PROVE Kept
  BY <1>0, <1>8 DEF Fail, Holding, Begun
<1>9. ASSUME NEW q \in Buys, FlushGone(q) PROVE Kept
  BY <1>0, <1>9 DEF FlushGone, Go, Begun
<1>10. ASSUME Environment PROVE Kept
  BY <1>10 DEF Environment, Tick, RateWindowEnds, DailyKeyExpires, Begun
<1> QED
  BY <1>0, <1>1, <1>2, <1>3, <1>4, <1>5, <1>6, <1>7, <1>8, <1>9, <1>10
  DEF SaleNext, Step, Over, Break, Redeliver, Restock, DropProduct, Begun

LEMMA UnsoldStep == LifeType /\ Unsold /\ [SaleNext]_all => Unsold'
<1> SUFFICES ASSUME LifeType, Unsold, [SaleNext]_all, NEW s \in Sales, Early(s)'
             PROVE  /\ ~sale'[s].live
                    /\ \A r \in Buys : ask'[r].sale = s => ~Begun(r)'
  BY DEF Unsold
<1>0. sale \in [Sales -> SaleRow] /\ at = [y \in Actors |-> at[y]] /\ s \in Actors
  BY DEF LifeType, SaleTypeOK, BodiesOK, Actors
<1>1. Early(s) /\ ~CommitCreation(s)
  <2>1. CASE Create(s)
    BY <1>0, <2>1
    DEF Create, CheckProduct, CheckOverlap, SeedStock, ScheduleSync, CommitCreation, Move,
        Early
  <2>2. CASE at'[s] = at[s]
    BY <1>0, <2>2 DEF CommitCreation, Move, Early
  <2> QED
    BY <2>1, <2>2, PlaceSteps DEF Early
<1>2. ~sale[s].live /\ \A r \in Buys : ask[r].sale = s => ~Begun(r)
  BY <1>1 DEF Unsold
<1>3. ~sale'[s].live
  <2>1. ASSUME NEW v \in Visits, CommitPatch(v) \/ CommitDelete(v), visit[v].sale = s
        PROVE  ~sale'[s].live
    BY <1>0, <1>2, <2>1, PatchedType DEF CommitPatch, CommitDelete, SaleRow
  <2> QED
    BY <1>1, <1>2, <2>1, RowSteps DEF SameRow, Closing
<1>4. ASSUME NEW r \in Buys, ask'[r].sale = s PROVE ~Begun(r)'
  BY <1>2, <1>4, BodiesKept, BeginSteps DEF LoadSale, OnSale
<1> QED
  BY <1>3, <1>4

LEMMA MailKept ==
  ASSUME LifeType, NEW d \in DOMAIN mail, [SaleNext]_all
  PROVE  d \in DOMAIN mail' /\ mail'[d].sale = mail[d].sale
<1> USE DEF vars, lifecycle, all
<1> DEFINE Kept == d \in DOMAIN mail' /\ mail'[d].sale = mail[d].sale
<1>0. \A e \in DOMAIN mail : mail[e] \in Message
  BY MailType
<1>1. ASSUME NEW s \in Sales, NEW eta, Send(s, eta) PROVE d \in DOMAIN mail' /\ mail'[d] = mail[d]
  BY <1>1 DEF Send, With
<1>2. ASSUME NEW s \in Sales, Create(s) PROVE Kept
  BY <1>1, <1>2
  DEF Create, CheckProduct, CheckOverlap, SeedStock, ScheduleSync, CommitCreation
<1>3. ASSUME NEW v \in Visits, Visit(v) PROVE Kept
  BY <1>1, <1>3, VisitBody
  DEF Visit, LoadVisit, FlushPatch, Reschedule, CommitPatch, ReadCounter, CommitRead, DropKey,
      CommitDelete
<1>4. ASSUME NEW e \in DOMAIN mail, Retry(e) PROVE Kept
  BY <1>0, <1>4 DEF Retry, Message
<1>5. ASSUME NEW e \in DOMAIN mail, Sync(e) PROVE Kept
  BY <1>4, <1>5
  DEF Sync, ReadStock, DropStock, LoadSync, LoadProduct, FlushProduct, FlushSync, CommitSync,
      SyncGone
<1>6. ASSUME NEW e \in Echoes, Redeliver(e) PROVE Kept
  BY <1>6 DEF Redeliver, With
<1> QED
  BY <1>2, <1>3, <1>4, <1>5, <1>6
  DEF SaleNext, FlushGone, Over, Break, WorkerDies, Restock, DropProduct

(* A counter that stands after a step stood before it, or was just set:    *)
(* what was done to a message or by a DELETE cannot be undone.             *)
LEMMA MessageSteps ==
  ASSUME LifeType, NEW d \in DOMAIN mail, [SaleNext]_all,
         at'[d] \in {"waiting", "read"}, mail'[d].tries = 0
  PROVE  /\ d \in DOMAIN mail' /\ mail'[d] = mail[d]
         /\ at[d] \in {"waiting", "read"}
<1> USE DEF vars, lifecycle, all
<1> DEFINE Kept == /\ d \in DOMAIN mail' /\ mail'[d] = mail[d]
                   /\ at[d] \in {"waiting", "read"}
<1>0. /\ at = [y \in Actors |-> at[y]]
      /\ d \in Deliveries /\ d \in Actors /\ d \notin Sales \cup Visits
      /\ DOMAIN mail \subseteq Actors
      /\ \A e \in DOMAIN mail : mail[e] \in Message
  BY MailType, LifecycleAssumption DEF LifeType, BodiesOK, Actors
<1>1. ASSUME NEW s \in Sales, NEW eta, Send(s, eta) PROVE d \in DOMAIN mail' /\ mail'[d] = mail[d]
  BY <1>1 DEF Send, With
<1>2. ASSUME NEW s \in Sales, Create(s) PROVE Kept
  BY <1>0, <1>1, <1>2
  DEF Create, CheckProduct, CheckOverlap, SeedStock, ScheduleSync, CommitCreation, Move
<1>3. ASSUME NEW v \in Visits, Visit(v) PROVE Kept
  BY <1>0, <1>1, <1>3, VisitBody
  DEF Visit, LoadVisit, FlushPatch, Reschedule, CommitPatch, ReadCounter, CommitRead, DropKey,
      CommitDelete, Move
<1>4. ASSUME NEW e \in DOMAIN mail, Retry(e) PROVE Kept
  BY <1>0, <1>4 DEF Retry, Message, Settled
<1>5. ASSUME NEW e \in DOMAIN mail, Sync(e) PROVE Kept
  BY <1>0, <1>4, <1>5
  DEF Sync, ReadStock, DropStock, LoadSync, LoadProduct, FlushProduct, FlushSync, CommitSync,
      SyncGone, Move
<1>6. ASSUME NEW e \in DOMAIN mail, WorkerDies(e) PROVE Kept
  BY <1>0, <1>6 DEF WorkerDies
<1>7. ASSUME NEW x \in Sales \cup Visits, Break(x) PROVE Kept
  BY <1>0, <1>7 DEF Break
<1>8. ASSUME NEW e \in Echoes, Redeliver(e) PROVE Kept
  BY <1>8 DEF Redeliver, With
<1>9. ASSUME NEW r \in Buys, FlushGone(r) PROVE Kept
  BY <1>9 DEF FlushGone
<1> QED
  BY <1>2, <1>3, <1>4, <1>5, <1>6, <1>7, <1>8, <1>9
  DEF SaleNext, Over, Restock, DropProduct

LEMMA DeleteSteps ==
  ASSUME LifeType, NEW v \in Visits, [SaleNext]_all,
         at'[v] \in {"new", "loaded", "refused"}
  PROVE  at[v] \in {"new", "loaded", "refused"}
<1> USE DEF vars, lifecycle, all
<1> DEFINE Kept == at[v] \in {"new", "loaded", "refused"}
<1>0. /\ at = [y \in Actors |-> at[y]]
      /\ v \in Actors /\ v \notin Sales \cup Deliveries
      /\ DOMAIN mail \subseteq Deliveries
  BY MailType, LifecycleAssumption DEF LifeType, BodiesOK, Actors
<1>1. ASSUME NEW s \in Sales, Create(s) PROVE Kept
  BY <1>0, <1>1
  DEF Create, CheckProduct, CheckOverlap, SeedStock, ScheduleSync, CommitCreation, Move
<1>2. ASSUME NEW w \in Visits, Visit(w) PROVE Kept
  BY <1>0, <1>2
  DEF Visit, LoadVisit, FlushPatch, Reschedule, CommitPatch, ReadCounter, CommitRead, DropKey,
      CommitDelete, Move
<1>3. ASSUME NEW d \in DOMAIN mail, Sync(d) \/ Retry(d) \/ WorkerDies(d) PROVE Kept
  BY <1>0, <1>3
  DEF Sync, ReadStock, DropStock, LoadSync, LoadProduct, FlushProduct, FlushSync, CommitSync,
      SyncGone, Retry, WorkerDies, Move
<1>4. ASSUME NEW x \in Sales \cup Visits, Break(x) PROVE Kept
  BY <1>0, <1>4 DEF Break
<1>5. ASSUME NEW r \in Buys, FlushGone(r) PROVE Kept
  BY <1>5 DEF FlushGone
<1> QED
  BY <1>1, <1>2, <1>3, <1>4, <1>5
  DEF SaleNext, Over, Redeliver, Restock, DropProduct

LEMMA StandsSteps ==
  ASSUME LifeType, NEW s \in Sales, [SaleNext]_all, CounterStands(s)'
  PROVE  CounterStands(s) \/ (SeedStock(s) /\ ProductOf[s] \in offered)
<1>0. at = [y \in Actors |-> at[y]] /\ s \in Actors
  BY DEF LifeType, BodiesOK, Actors
<1>1. \/ at[s] \in {"seeded", "queued", "created"}
      \/ SeedStock(s) /\ ProductOf[s] \in offered
  <2>1. CASE Create(s)
    BY <1>0, <2>1
    DEF Create, CheckProduct, CheckOverlap, SeedStock, ScheduleSync, CommitCreation, Move,
        CounterStands
  <2> QED
    BY <2>1, PlaceSteps DEF CounterStands
<1>2. ASSUME NEW d \in DOMAIN mail, mail[d].sale = s
      PROVE  at[d] \in {"waiting", "read"} /\ mail[d].tries = 0
  <2>1. d \in DOMAIN mail' /\ mail'[d].sale = s
    BY <1>2, MailKept
  <2>2. at'[d] \in {"waiting", "read"} /\ mail'[d].tries = 0
    BY <2>1 DEF CounterStands
  <2> QED
    BY <2>2, MessageSteps
<1>3. ASSUME NEW v \in Visits, visit[v].op = "delete", visit[v].sale = s
      PROVE  at[v] \in {"new", "loaded", "refused"}
  BY <1>3, BodiesKept, DeleteSteps DEF CounterStands
<1> QED
  BY <1>1, <1>2, <1>3 DEF CounterStands

LEMMA StockOfSteps ==
  ASSUME NEW s, NEW t
  PROVE  /\ \A n : SetStock(t, n) => StockOf(s)' = IF s = t THEN n ELSE StockOf(s)
         /\ s # t /\ DropCounter(t) => StockOf(s)' = StockOf(s)
  BY DEF SetStock, With, DropCounter, StockOf

(* A step that moves no unit of sale s. *)
Still(s) == /\ StockOf(s)' = StockOf(s)
            /\ \A q \in Buys : ask[q].sale = s => (pc'[q] \in Took <=> pc[q] \in Took)
Moves(s) == \E r \in Buys : ask[r].sale = s /\ (DecrStock(r) \/ GiveBack(r))

LEMMA PurchaseCounts ==
  ASSUME LifeType, NEW s \in Sales, Step \/ \E r \in Buys : FlushGone(r)
  PROVE  Still(s) \/ Moves(s)
<1> USE DEF redis, postgres, locals, vars, buyers, Took, Holding
<1>0. /\ pc \in [Requests -> Stages] /\ Buys \subseteq Requests /\ MayFail \subseteq Requests
      /\ Buys \cap TopUps = {}
  BY RequestsAssumption DEF LifeType, HandlersOK, Requests
<1>1. ASSUME NEW r \in Buys, DecrStock(r) \/ GiveBack(r) PROVE Still(s) \/ Moves(s)
  <2>1. CASE ask[r].sale = s
    BY <1>1, <2>1 DEF Moves
  <2>2. CASE ask[r].sale # s
    <3>1. StockOf(s)' = StockOf(s)
      BY <1>1, <2>2, StockOfSteps DEF DecrStock, GiveBack
    <3>2. \A q \in Buys : q # r => pc'[q] = pc[q]
      BY <1>0, <1>1 DEF DecrStock, GiveBack, Go
    <3> QED
      BY <2>2, <3>1, <3>2 DEF Still
  <2> QED
    BY <2>1, <2>2
<1>2. ASSUME UNCHANGED stock PROVE StockOf(s)' = StockOf(s)
  BY <1>2 DEF StockOf
<1>3. ASSUME NEW r \in Buys, BuyStep(r), ~DecrStock(r), ~GiveBack(r) PROVE Still(s)
  BY <1>0, <1>2, <1>3
  DEF BuyStep, LoadSale, TurnAway, CheckDaily, CountRequest, SetRateWindow, TurnAwayPoor,
      FlushUser, FlushSale, MarkDaily, Commit, Go, Still
<1>4. ASSUME NEW r \in TopUps, TopUpStep(r) PROVE Still(s)
  BY <1>0, <1>2, <1>4 DEF TopUpStep, FlushTopUp, CommitTopUp, Go, Still
<1>5. ASSUME NEW r \in Requests, Authenticate(r) PROVE Still(s)
  BY <1>0, <1>2, <1>5 DEF Authenticate, Go, Still
<1>6. ASSUME NEW r \in Requests, Fail(r) PROVE Still(s)
  BY <1>0, <1>2, <1>6 DEF Fail, InFlight, Still
<1>7. ASSUME NEW r \in Buys, FlushGone(r) PROVE Still(s)
  BY <1>0, <1>2, <1>7 DEF FlushGone, Go, Still
<1>8. ASSUME Environment PROVE Still(s)
  BY <1>2, <1>8 DEF Environment, Tick, RateWindowEnds, DailyKeyExpires, Still
<1> QED
  BY <1>0, <1>1, <1>3, <1>4, <1>5, <1>6, <1>7, <1>8 DEF Step

LEMMA CountSteps ==
  ASSUME LifeType, NEW s \in Sales, [SaleNext]_all, CounterStands(s)'
  PROVE  \/ Still(s) \/ Moves(s)
         \/ UNCHANGED pc /\ SeedStock(s) /\ ProductOf[s] \in offered
<1> USE DEF redis, vars, buyers, lifecycle, all
<1>0. /\ at = [y \in Actors |-> at[y]]
      /\ \A v \in Visits : v \in Actors
      /\ \A d \in DOMAIN mail : d \in Actors
  BY MailType DEF LifeType, BodiesOK, Actors
<1>1. ASSUME UNCHANGED <<stock, pc>> PROVE Still(s)
  BY <1>1 DEF Still, StockOf
<1>2. ASSUME NEW t \in Sales, SeedStock(t)
      PROVE  \/ Still(s)
             \/ UNCHANGED pc /\ SeedStock(s) /\ ProductOf[s] \in offered
  BY <1>1, <1>2, StockOfSteps DEF SeedStock, Still
<1>3. ASSUME NEW v \in Visits, DropKey(v) PROVE Still(s)
  <2>1. visit[v].sale # s
    BY <1>0, <1>3 DEF DropKey, Move, CounterStands
  <2> QED
    BY <1>3, <2>1, StockOfSteps DEF DropKey, Still
<1>4. ASSUME NEW d \in DOMAIN mail, DropStock(d) PROVE Still(s)
  <2>1. mail[d].sale # s
    BY <1>0, <1>4 DEF DropStock, Move, CounterStands
  <2> QED
    BY <1>4, <2>1, StockOfSteps DEF DropStock, Still
<1>5. ASSUME NEW t \in Sales, Create(t), ~SeedStock(t) PROVE Still(s)
  BY <1>1, <1>5 DEF Create, CheckProduct, CheckOverlap, ScheduleSync, CommitCreation
<1>6. ASSUME NEW v \in Visits, Visit(v), ~DropKey(v) PROVE Still(s)
  BY <1>1, <1>6
  DEF Visit, LoadVisit, FlushPatch, Reschedule, CommitPatch, ReadCounter, CommitRead,
      CommitDelete
<1>7. ASSUME NEW d \in DOMAIN mail, Sync(d) \/ Retry(d) \/ WorkerDies(d), ~DropStock(d)
      PROVE  Still(s)
  BY <1>1, <1>7
  DEF Sync, ReadStock, LoadSync, LoadProduct, FlushProduct, FlushSync, CommitSync, SyncGone,
      Retry, WorkerDies
<1> QED
  BY <1>1, <1>2, <1>3, <1>4, <1>5, <1>6, <1>7, PurchaseCounts
  DEF SaleNext, Over, Break, Redeliver, Restock, DropProduct

LEMMA CountKept ==
  ASSUME LifeType, LifeType', Unsold, ConservedWhileOpen, [SaleNext]_all,
         NEW s \in Sales, CounterStands(s)'
  PROVE  StockOf(s)' = Total[s] - UnitCount(Taken(s))'
<1>0. /\ ask' = ask
      /\ pc \in [Requests -> Stages] /\ Buys \subseteq Requests
      /\ Total[s] \in Nat /\ StockOf(s) \in Int
      /\ UnitCount(Taken(s))' = UnitCount(Taken(s)')
      /\ UnitCount(Taken(s)) \in Nat /\ UnitCount(Taken(s)') \in Nat
  <2>1. ask' = ask
    BY BodiesKept
  <2>2. Taken(s) \in SUBSET Buys /\ Taken(s)' \in SUBSET Buys
    BY DEF Taken
  <2> QED
    BY <2>1, <2>2, UnitCountKept, UnitsFinite, StockType, ValuesAssumption
    DEF LifeType, HandlersOK, AskOK, Requests
<1>1. CASE UNCHANGED pc /\ SeedStock(s) /\ ProductOf[s] \in offered
  <2>1. StockOf(s)' = Total[s]
    BY <1>1, StockOfSteps DEF SeedStock
  <2>2. Early(s)
    BY <1>1 DEF SeedStock, Move, Early
  <2>3. Taken(s)' = {}
    BY <1>0, <1>1, <2>2 DEF Unsold, Taken, Begun, Took, Holding
  <2> QED
    BY <1>0, <2>1, <2>3, NoUnits
<1>2. CASE CounterStands(s)
  <2>0. StockOf(s) = Total[s] - UnitCount(Taken(s))
    BY <1>2 DEF ConservedWhileOpen
  <2>1. CASE Still(s)
    <3>1. Taken(s)' = Taken(s)
      BY <1>0, <2>1 DEF Still, Taken
    <3> QED
      BY <1>0, <2>0, <2>1, <3>1 DEF Still
  <2>2. ASSUME NEW r \in Buys, ask[r].sale = s, DecrStock(r)
        PROVE  StockOf(s)' = Total[s] - UnitCount(Taken(s))'
    <3>1. ask[r].quantity \in 1..MaxQuantity /\ ask[r].quantity \in Nat
      BY ValuesAssumption DEF LifeType, HandlersOK
    <3>2. StockOf(s)' = StockOf(s) - ask[r].quantity
      BY <2>2, StockOfSteps DEF DecrStock
    <3>3. /\ pc[r] \notin Took /\ pc'[r] \in Took
          /\ \A q \in Buys : q # r => pc'[q] = pc[q]
      BY <1>0, <2>2 DEF DecrStock, Go, Took, Holding
    <3>4. Taken(s)' = Taken(s) \cup {r} /\ r \notin Taken(s) /\ Taken(s) \in SUBSET Buys
      BY <1>0, <2>2, <3>3 DEF Taken
    <3>5. UnitCount(Taken(s)') = UnitCount(Taken(s)) + ask[r].quantity
      BY <3>1, <3>4, UnitsAdd DEF LifeType, HandlersOK, AskOK
    <3> QED
      BY <1>0, <2>0, <3>1, <3>2, <3>5
  <2>3. ASSUME NEW r \in Buys, ask[r].sale = s, GiveBack(r)
        PROVE  StockOf(s)' = Total[s] - UnitCount(Taken(s))'
    <3>1. ask[r].quantity \in 1..MaxQuantity /\ ask[r].quantity \in Nat
      BY ValuesAssumption DEF LifeType, HandlersOK
    <3>2. StockOf(s)' = StockOf(s) + ask[r].quantity
      BY <2>3, StockOfSteps DEF GiveBack
    <3>3. /\ pc[r] \in Took /\ pc'[r] \notin Took
          /\ \A q \in Buys : q # r => pc'[q] = pc[q]
      BY <1>0, <2>3 DEF GiveBack, Go, Took, Holding
    <3>4. Taken(s) = Taken(s)' \cup {r} /\ r \notin Taken(s)' /\ Taken(s)' \in SUBSET Buys
      BY <1>0, <2>3, <3>3 DEF Taken
    <3>5. UnitCount(Taken(s)) = UnitCount(Taken(s)') + ask[r].quantity
      BY <3>1, <3>4, UnitsAdd DEF LifeType, HandlersOK, AskOK
    <3> QED
      BY <1>0, <2>0, <3>1, <3>2, <3>5
  <2>4. Still(s) \/ Moves(s)
    BY <1>2, CountSteps DEF CounterStands, SeedStock, Move
  <2> QED
    BY <2>1, <2>2, <2>3, <2>4 DEF Moves
<1>3. CounterStands(s) \/ (SeedStock(s) /\ ProductOf[s] \in offered)
  BY StandsSteps
<1> QED
  BY <1>1, <1>2, <1>3 DEF SeedStock, buyers

(* While no task and no DELETE has taken it, the counter of a sale and the *)
(* requests that hold units of it add up to its stock, whatever creations, *)
(* GETs, PATCHes and tasks of any sale are under way and fail.             *)
THEOREM CounterIsConserved == SaleSpec => []ConservedWhileOpen
<1>1. SaleInit => Unsold /\ ConservedWhileOpen
  <2> SUFFICES ASSUME SaleInit PROVE Unsold /\ ConservedWhileOpen
    OBVIOUS
  <2>1. \A s \in Sales : at[s] = "new" /\ ~sale[s].live
    BY LifecycleAssumption DEF SaleInit, Opening
  <2>2. \A r \in Buys : pc[r] = "idle"
    BY DEF SaleInit, Opening, Requests
  <2> QED
    BY <2>1, <2>2 DEF Unsold, Begun, ConservedWhileOpen, CounterStands
<1>2. LifeType /\ Unsold /\ ConservedWhileOpen /\ [SaleNext]_all
        => Unsold' /\ ConservedWhileOpen'
  BY LifeStep, UnsoldStep, CountKept DEF ConservedWhileOpen
<1> QED
  BY <1>1, <1>2, LifeCorrect, PTL DEF SaleSpec

-----------------------------------------------------------------------------
(* What tasks give back to a product. *)

(* A step moves one delivery at most, and only one whose message was sent. *)
Handled(d) == d \in DOMAIN mail /\ (Sync(d) \/ Retry(d) \/ WorkerDies(d))

LEMMA DeliverySteps ==
  ASSUME LifeType, NEW d \in Deliveries, [SaleNext]_all
  PROVE  Handled(d) \/ (at'[d] = at[d] /\ seen'[d] = seen[d])
<1> USE DEF vars, lifecycle, all
<1> DEFINE Kept == at'[d] = at[d] /\ seen'[d] = seen[d]
<1>0. /\ at = [y \in Actors |-> at[y]] /\ d \in Actors /\ d \notin Sales \cup Visits
      /\ seen \in [Visits \cup Deliveries -> [count : Int, shelf : Nat]]
  BY LifecycleAssumption DEF LifeType, BodiesOK, Actors
<1>1. ASSUME NEW s \in Sales, Create(s) PROVE Kept
  BY <1>0, <1>1
  DEF Create, CheckProduct, CheckOverlap, SeedStock, ScheduleSync, CommitCreation, Move
<1>2. ASSUME NEW v \in Visits, Visit(v) PROVE Kept
  BY <1>0, <1>2
  DEF Visit, LoadVisit, FlushPatch, Reschedule, CommitPatch, ReadCounter, CommitRead, DropKey,
      CommitDelete, Move
<1>3. ASSUME NEW e \in DOMAIN mail, e # d, Sync(e) \/ Retry(e) \/ WorkerDies(e)
      PROVE  Kept
  BY <1>0, <1>3
  DEF Sync, ReadStock, DropStock, LoadSync, LoadProduct, FlushProduct, FlushSync, CommitSync,
      SyncGone, Retry, WorkerDies, Move
<1>4. ASSUME NEW x \in Sales \cup Visits, Break(x) PROVE Kept
  BY <1>0, <1>4 DEF Break
<1>5. ASSUME NEW r \in Buys, FlushGone(r) PROVE Kept
  BY <1>5 DEF FlushGone
<1> QED
  BY <1>1, <1>2, <1>3, <1>4, <1>5
  DEF SaleNext, Over, Redeliver, Restock, DropProduct, Handled

LEMMA ShelfSteps ==
  ASSUME [SaleNext]_all
  PROVE  \/ UNCHANGED shelf
         \/ \E p \in Products, n \in Restocks : Restock(p, n)
         \/ \E d \in DOMAIN mail : CommitSync(d)
<1> USE DEF vars, catalogue, lifecycle, all
<1>1. ASSUME NEW s \in Sales, Create(s) PROVE UNCHANGED shelf
  BY <1>1
  DEF Create, CheckProduct, CheckOverlap, SeedStock, ScheduleSync, CommitCreation
<1>2. ASSUME NEW v \in Visits, Visit(v) PROVE UNCHANGED shelf
  BY <1>2
  DEF Visit, LoadVisit, FlushPatch, Reschedule, CommitPatch, ReadCounter, CommitRead, DropKey,
      CommitDelete
<1>3. ASSUME NEW d \in DOMAIN mail, Sync(d) \/ Retry(d) \/ WorkerDies(d)
      PROVE  UNCHANGED shelf \/ CommitSync(d)
  BY <1>3
  DEF Sync, ReadStock, DropStock, LoadSync, LoadProduct, FlushProduct, FlushSync, SyncGone,
      Retry, WorkerDies
<1> QED
  BY <1>1, <1>2, <1>3 DEF SaleNext, FlushGone, Over, Break, Redeliver, DropProduct

LEMMA MailGrows ==
  ASSUME [SaleNext]_all, IsFiniteSet(DOMAIN mail)
  PROVE  IsFiniteSet(DOMAIN mail')
<1> USE DEF vars, lifecycle, all
<1>0. ASSUME NEW x, NEW v, mail' = With(mail, x, v) PROVE IsFiniteSet(DOMAIN mail')
  <2>1. DOMAIN mail' = DOMAIN mail \cup {x}
    BY <1>0 DEF With
  <2> QED
    BY <2>1, FS_AddElement
<1>1. ASSUME NEW s \in Sales, Create(s) PROVE UNCHANGED mail \/ IsFiniteSet(DOMAIN mail')
  BY <1>0, <1>1
  DEF Create, CheckProduct, CheckOverlap, SeedStock, ScheduleSync, CommitCreation, Send
<1>2. ASSUME NEW v \in Visits, Visit(v) PROVE UNCHANGED mail \/ IsFiniteSet(DOMAIN mail')
  BY <1>0, <1>2
  DEF Visit, LoadVisit, FlushPatch, Reschedule, CommitPatch, ReadCounter, CommitRead, DropKey,
      CommitDelete, Send
<1>3. ASSUME NEW d \in DOMAIN mail, Sync(d) \/ Retry(d) \/ WorkerDies(d)
      PROVE  DOMAIN mail' = DOMAIN mail
  BY <1>3
  DEF Sync, ReadStock, DropStock, LoadSync, LoadProduct, FlushProduct, FlushSync, CommitSync,
      SyncGone, Retry, WorkerDies
<1>4. ASSUME NEW e \in Echoes, Redeliver(e) PROVE IsFiniteSet(DOMAIN mail')
  BY <1>0, <1>4 DEF Redeliver
<1> QED
  BY <1>1, <1>2, <1>3, <1>4 DEF SaleNext, FlushGone, Over, Break, Restock, DropProduct

(* A stock the product was given, and what some finished tasks returned;   *)
(* a task that loaded its product has read such a stock.                   *)
Reached(p, x) == \E n \in {Stocked[p]} \cup Restocks, D \in SUBSET GivenBack(p) :
                   x = n + Returned(D)
(* The same after the step, of a value taken before it. *)
ReachedNext(p, x) == \E n \in {Stocked[p]} \cup Restocks, D \in SUBSET GivenBack(p)' :
                       x = n + Returned(D)'
Carries(d) == at[d] \in {"loaded", "shelved", "flushed"}
ShelfSums == \A p \in Products : Reached(p, shelf[p])
ShelfInv ==
  /\ IsFiniteSet(DOMAIN mail)
  /\ \A d \in Deliveries \ DOMAIN mail : at[d] = "waiting"
  /\ ShelfSums
  /\ \A p \in Products, d \in DOMAIN mail :
       Carries(d) /\ ProductOf[mail[d].sale] = p => Reached(p, seen[d].shelf)

LEMMA ReturnedKept ==
  ASSUME NEW D \in SUBSET Deliveries, \A d \in D : seen'[d] = seen[d]
  PROVE  Returned(D)' = Returned(D)
<1> DEFINE f == [d \in Deliveries |-> seen[d].count]
           g == [d \in Deliveries |-> seen'[d].count]
<1>1. Returned(D)' = Tally(g, D)
  BY DEF Returned, Tally, Shares
<1>2. \A d \in D : f[d] = g[d]
  OBVIOUS
<1>3. Tally(f, D) = Tally(g, D)
  <2> HIDE DEF f, g
  <2> QED BY <1>2, TallySame
<1> QED
  BY <1>1, <1>3 DEF Returned

(* Whoever is done stays done, with what it gave back. *)
LEMMA DoneKept ==
  ASSUME LifeType, NEW p, [SaleNext]_all
  PROVE  /\ GivenBack(p) \in SUBSET GivenBack(p)'
         /\ GivenBack(p) \in SUBSET Deliveries
         /\ \A d \in GivenBack(p) : seen'[d] = seen[d]
<1>1. ASSUME NEW d \in GivenBack(p) PROVE ~Handled(d)
  BY <1>1
  DEF GivenBack, Handled, Sync, ReadStock, DropStock, LoadSync, LoadProduct, FlushProduct,
      FlushSync, CommitSync, SyncGone, Retry, WorkerDies, Move, Settled
<1>2. ASSUME NEW d \in GivenBack(p)
      PROVE  d \in Deliveries /\ d \in GivenBack(p)' /\ seen'[d] = seen[d]
  BY <1>1, <1>2, DeliverySteps, MailKept, MailType DEF GivenBack
<1> QED
  BY <1>2

LEMMA ReachedKept ==
  ASSUME LifeType, NEW p, NEW x, [SaleNext]_all, Reached(p, x)
  PROVE  ReachedNext(p, x)
<1>1. PICK n \in {Stocked[p]} \cup Restocks, D \in SUBSET GivenBack(p) : x = n + Returned(D)
  BY DEF Reached
<1>2. D \in SUBSET GivenBack(p)' /\ D \in SUBSET Deliveries /\ \A d \in D : seen'[d] = seen[d]
  BY DoneKept
<1>3. Returned(D)' = Returned(D)
  BY <1>2, ReturnedKept
<1> QED
  BY <1>1, <1>2, <1>3 DEF ReachedNext

(* A commit adds the count of one task to the stock that task has read. *)
LEMMA ReachedMore ==
  ASSUME LifeType, IsFiniteSet(DOMAIN mail), [SaleNext]_all,
         NEW d \in DOMAIN mail, CommitSync(d), NEW x,
         Reached(ProductOf[mail[d].sale], x)
  PROVE  ReachedNext(ProductOf[mail[d].sale], x + seen[d].count)
<1> DEFINE p == ProductOf[mail[d].sale]
           f == [e \in Deliveries |-> seen[e].count]
<1>1. PICK n \in {Stocked[p]} \cup Restocks, D \in SUBSET GivenBack(p) : x = n + Returned(D)
  BY DEF Reached
<1>2. /\ at = [y \in Actors |-> at[y]] /\ d \in Actors /\ d \in Deliveries
      /\ at[d] = "flushed" /\ at'[d] = "done" /\ mail' = mail /\ seen' = seen
  BY MailType DEF LifeType, BodiesOK, CommitSync, Move
<1>3. D \in SUBSET GivenBack(p)' /\ D \in SUBSET Deliveries /\ d \notin D
  BY <1>2, DoneKept DEF GivenBack
<1>4. D \cup {d} \in SUBSET GivenBack(p)' /\ D \cup {d} \in SUBSET Deliveries
  BY <1>2, <1>3 DEF GivenBack
<1>5. IsFiniteSet(D)
  <2>1. D \in SUBSET DOMAIN mail
    BY DEF GivenBack
  <2> QED
    BY <2>1, FS_Subset
<1>6. (\A e \in D : f[e] \in Nat) /\ f[d] \in Nat /\ f[d] = seen[d].count
  BY <1>2, <1>3 DEF LifeType, SaleTypeOK
<1>7. Tally(f, D \cup {d}) = Tally(f, D) + f[d] /\ Tally(f, D) \in Nat
  <2> HIDE DEF f, p
  <2> QED
    BY <1>3, <1>5, <1>6, TallyAdd, TallyFinite
<1>8. Returned(D \cup {d})' = Returned(D \cup {d})
  BY <1>2, <1>4, ReturnedKept
<1>9. /\ Returned(D \cup {d})' = Returned(D) + seen[d].count
      /\ Returned(D) \in Nat /\ seen[d].count \in Nat
  BY <1>6, <1>7, <1>8 DEF Returned
<1>10. n \in Nat
  BY MailType, LifecycleAssumption
<1>11. x + seen[d].count = n + Returned(D \cup {d})'
  BY <1>1, <1>9, <1>10
<1> QED
  BY <1>4, <1>11 DEF ReachedNext

LEMMA ShelfStep == LifeType /\ ShelfInv /\ [SaleNext]_all => ShelfInv'
<1> SUFFICES ASSUME LifeType, ShelfInv, [SaleNext]_all PROVE ShelfInv'
  OBVIOUS
<1>0. /\ at = [y \in Actors |-> at[y]] /\ Deliveries \subseteq Actors
      /\ shelf \in [Products -> Nat]
      /\ seen \in [Visits \cup Deliveries -> [count : Int, shelf : Nat]]
  BY DEF LifeType, SaleTypeOK, BodiesOK, Actors
<1>1. IsFiniteSet(DOMAIN mail')
  BY MailGrows DEF ShelfInv
<1>2. ASSUME NEW d \in Deliveries \ DOMAIN mail' PROVE at'[d] = "waiting"
  <2>1. d \notin DOMAIN mail
    BY <1>2, MailKept
  <2> QED
    BY <2>1, DeliverySteps DEF Handled, ShelfInv
<1>3. ASSUME NEW p \in Products
      PROVE  ReachedNext(p, shelf'[p])
  <2>1. Reached(p, shelf[p])
    BY DEF ShelfInv, ShelfSums
  <2>2. CASE shelf'[p] = shelf[p]
    BY <2>1, <2>2, ReachedKept
  <2>3. ASSUME NEW n \in Restocks, shelf'[p] = n
        PROVE  ReachedNext(p, shelf'[p])
    <3>1. Returned({})' = 0
      <4>1. Returned({})' = Tally([d \in Deliveries |-> seen'[d].count], {})
        BY DEF Returned, Tally, Shares
      <4> QED
        BY <4>1, TallyNone
    <3>2. n \in Nat /\ {} \in SUBSET GivenBack(p)'
      BY LifecycleAssumption
    <3>3. shelf'[p] = n + Returned({})'
      BY <2>3, <3>1, <3>2
    <3> QED
      BY <3>2, <3>3 DEF ReachedNext
  <2>4. ASSUME NEW q \in Products, NEW n \in Restocks, Restock(q, n)
        PROVE  shelf'[p] = shelf[p] \/ shelf'[p] = n
    BY <1>0, <2>4 DEF Restock
  <2>5. ASSUME NEW d \in DOMAIN mail, CommitSync(d), shelf'[p] # shelf[p]
        PROVE  ReachedNext(p, shelf'[p])
    <3>1. p = ProductOf[mail[d].sale] /\ shelf'[p] = seen[d].shelf + seen[d].count
      BY <1>0, <2>5 DEF CommitSync
    <3>2. Reached(p, seen[d].shelf)
      BY <2>5, <3>1 DEF ShelfInv, Carries, CommitSync, Move
    <3> QED
      BY <2>5, <3>1, <3>2, ReachedMore DEF ShelfInv
  <2> QED
    BY <2>2, <2>3, <2>4, <2>5, ShelfSteps
<1>4. ASSUME NEW p \in Products, NEW d \in DOMAIN mail', Carries(d)',
             ProductOf[mail'[d].sale] = p
      PROVE  ReachedNext(p, seen'[d].shelf)
  <2>0. d \in Deliveries /\ at'[d] \in {"loaded", "shelved", "flushed"}
    BY <1>4, LifeStep DEF LifeType, SaleTypeOK, Carries
  <2>1. d \in DOMAIN mail
    BY <1>4, <2>0, DeliverySteps DEF ShelfInv, Handled
  <2>2. ProductOf[mail[d].sale] = p
    BY <1>4, <2>1, MailKept
  <2>3. CASE LoadProduct(d)
    <3>1. seen'[d].shelf = shelf[p]
      BY <1>0, <2>0, <2>2, <2>3 DEF LoadProduct, Move
    <3>2. Reached(p, shelf[p])
      BY DEF ShelfInv, ShelfSums
    <3> QED
      BY <3>1, <3>2, ReachedKept
  <2>4. CASE ~LoadProduct(d)
    <3>1. Carries(d) /\ seen'[d] = seen[d]
      BY <1>0, <2>0, <2>4, DeliverySteps
      DEF Carries, Handled, Sync, ReadStock, DropStock, LoadSync, FlushProduct, FlushSync,
          CommitSync, SyncGone, Retry, WorkerDies, Move
    <3>2. Reached(p, seen[d].shelf)
      BY <2>1, <2>2, <3>1 DEF ShelfInv
    <3> QED
      BY <3>1, <3>2, ReachedKept
  <2> QED
    BY <2>3, <2>4
<1>5. ShelfSums'
  BY <1>3 DEF ShelfSums, Reached, ReachedNext
<1>6. (\A p \in Products, d \in DOMAIN mail :
         Carries(d) /\ ProductOf[mail[d].sale] = p => Reached(p, seen[d].shelf))'
  BY <1>4 DEF Reached, ReachedNext
<1> QED
  BY <1>1, <1>2, <1>5, <1>6 DEF ShelfInv

LEMMA ShelfInit == SaleInit => ShelfInv
<1> SUFFICES ASSUME SaleInit PROVE ShelfInv
  OBVIOUS
<1>1. DOMAIN mail = {} /\ shelf = Stocked /\ \A d \in Deliveries : at[d] = "waiting"
  BY DEF SaleInit
<1>2. ASSUME NEW p \in Products
      PROVE  \E n \in {Stocked[p]} \cup Restocks, D \in SUBSET GivenBack(p) :
               shelf[p] = n + Returned(D)
  <2>1. Returned({}) = 0
    BY TallyNone DEF Returned
  <2>2. shelf[p] = Stocked[p] + Returned({})
    BY <1>1, <2>1, LifecycleAssumption
  <2>3. Stocked[p] \in {Stocked[p]} \cup Restocks /\ {} \in SUBSET GivenBack(p)
    OBVIOUS
  <2> QED
    BY <2>2, <2>3
<1>3. ShelfSums
  BY <1>2 DEF ShelfSums, Reached
<1> QED
  BY <1>1, <1>3, FS_EmptySet DEF ShelfInv

LEMMA ShelfCorrect == SaleSpec => []ShelfInv
  BY ShelfInit, ShelfStep, LifeCorrect, PTL DEF SaleSpec

-----------------------------------------------------------------------------
(* What module Purchase promises of sales that are always there, while     *)
(* they are created, changed, closed and deleted.                          *)

(* Every step is one of a purchase or top-up, or leaves their handlers and *)
(* what they share but stock, sales and recorded purchases alone.          *)
Aside == UNCHANGED <<now, buyers>> /\ bought' \subseteq bought

LEMMA PurchaseSteps ==
  ASSUME [SaleNext]_all
  PROVE  (Step /\ UNCHANGED lifecycle) \/ (\E r \in Buys : FlushGone(r)) \/ Aside
<1> USE DEF vars, redis, postgres, locals, buyers, lifecycle, all, Aside
<1>1. ASSUME NEW s \in Sales, Create(s) PROVE Aside
  BY <1>1
  DEF Create, CheckProduct, CheckOverlap, SeedStock, ScheduleSync, CommitCreation
<1>2. ASSUME NEW v \in Visits, Visit(v) PROVE Aside
  BY <1>2
  DEF Visit, LoadVisit, FlushPatch, Reschedule, CommitPatch, ReadCounter, CommitRead, DropKey,
      CommitDelete
<1>3. ASSUME NEW d \in DOMAIN mail, Sync(d) \/ Retry(d) \/ WorkerDies(d) PROVE Aside
  BY <1>3
  DEF Sync, ReadStock, DropStock, LoadSync, LoadProduct, FlushProduct, FlushSync, CommitSync,
      SyncGone, Retry, WorkerDies
<1>4. ASSUME NEW x, Break(x) PROVE Aside
  BY <1>4 DEF Break
<1> QED
  BY <1>1, <1>2, <1>3, <1>4 DEF SaleNext, Over, Redeliver, Restock, DropProduct

(* The handlers of purchases keep their types whatever is done to sales.   *)
LEMMA BuyersLive ==
  ASSUME LifeType, LifeType', BuyersOK, [SaleNext]_all
  PROVE  BuyersOK'
<1>1. sale' \in [Sales -> SaleRow] /\ bought \subseteq Buys
  BY DEF LifeType, SaleTypeOK, HandlersOK
<1>2. CASE Step
  BY <1>2, StockType, BuyersStep
<1>3. ASSUME NEW r \in Buys, FlushGone(r) PROVE BuyersOK'
  <2>1. userLock' \in [Users -> Requests \cup {NoOne}]
    BY <1>3, LockType DEF FlushGone, Release
  <2>2. pc' \in [Requests -> Stages]
    BY DEF LifeType, HandlersOK
  <2> QED
    BY <1>3, <2>1, <2>2 DEF FlushGone, BuyersOK, redis, locals
<1>4. CASE Aside
  BY <1>1, <1>4 DEF Aside, buyers, locals, BuyersOK
<1> QED
  BY <1>2, <1>3, <1>4, PurchaseSteps

DoneRows == \A r \in bought : pc[r] = "done"
LEMMA DoneStep ==
  ASSUME BuyersOK, DoneRows, [SaleNext]_all
  PROVE  DoneRows'
<1> USE DEF redis, postgres, locals, vars, DoneRows, BuyersOK, Go, Requests
<1>1. ASSUME NEW r \in Requests, Authenticate(r) \/ Fail(r) PROVE DoneRows'
  BY <1>1 DEF Authenticate, Fail, InFlight, Holding
<1>2. ASSUME NEW r \in Buys,
             LoadSale(r) \/ TurnAway(r) \/ CheckDaily(r) \/ CountRequest(r)
               \/ SetRateWindow(r) \/ TurnAwayPoor(r)
      PROVE  DoneRows'
  BY <1>2
  DEF LoadSale, TurnAway, CheckDaily, CountRequest, SetRateWindow, TurnAwayPoor
<1>3. ASSUME NEW r \in Buys,
             DecrStock(r) \/ GiveBack(r) \/ FlushUser(r) \/ FlushSale(r) \/ MarkDaily(r)
               \/ FlushGone(r)
      PROVE  DoneRows'
  BY <1>3 DEF DecrStock, GiveBack, FlushUser, FlushSale, MarkDaily, FlushGone
<1>4. ASSUME NEW r \in Buys, Commit(r) PROVE DoneRows'
  BY <1>4 DEF Commit
<1>5. ASSUME NEW r \in TopUps, TopUpStep(r) PROVE DoneRows'
  BY <1>5, RequestsAssumption DEF TopUpStep, FlushTopUp, CommitTopUp
<1>6. CASE Environment
  BY <1>6 DEF Environment, Tick, RateWindowEnds, DailyKeyExpires
<1>7. CASE Aside
  BY <1>7 DEF Aside, buyers
<1> QED
  BY <1>1, <1>2, <1>3, <1>4, <1>5, <1>6, <1>7, PurchaseSteps, RequestsAssumption
  DEF Step, BuyStep

(* What the handlers maintain together in the whole system. *)
BuyersInv == BuyersOK /\ DoneRows /\ MoneyInv /\ MarksInv /\ WindowCloses

LEMMA BuyersInit == SaleInit => BuyersInv
<1> SUFFICES ASSUME SaleInit PROVE BuyersInv
  OBVIOUS
<1>1. sale \in [Sales -> SaleRow] /\ pc \in [Requests -> Stages]
  BY LifeInit DEF LifeType, SaleTypeOK, HandlersOK
<1>2. copy \in [Buys -> SaleRow]
  BY <1>1 DEF SaleInit, Opening
<1>3. BuyersOK
  BY <1>1, <1>2, ValuesAssumption, ClockAssumption DEF SaleInit, Opening, BuyersOK
<1>4. \A r \in Buys : pc[r] = "idle"
  BY DEF SaleInit, Opening, Requests
<1>5. MoneyInv
  BY ValuesAssumption DEF SaleInit, Opening, MoneyInv, NeverInDebt
<1>6. daily = {} /\ bought = {} /\ rate = [k \in Users \X Sales |-> 0]
  BY DEF SaleInit, Opening
<1> QED
  BY <1>3, <1>4, <1>5, <1>6 DEF BuyersInv, DoneRows, MarksInv, MarkHasBuyer, WindowCloses

LEMMA BuyersInvStep ==
  ASSUME LifeType, LifeType', BuyersInv, [SaleNext]_all
  PROVE  BuyersInv'
<1> USE DEF BuyersInv
<1>1. BuyersOK' /\ DoneRows'
  BY BuyersLive, DoneStep
<1>2. CASE Step
  BY <1>1, <1>2, MoneyStep, MarksStep, WindowStep
<1>3. ASSUME NEW r \in Buys, FlushGone(r) PROVE MoneyInv' /\ MarksInv' /\ WindowCloses'
  <2>1. UNCHANGED <<now, redis, balance, ask, bal, day>>
    BY <1>3 DEF FlushGone, locals
  <2>2. \A q \in Buys : pc'[q] = pc[q] \/ (pc[q] = "charged" /\ pc'[q] = "lost")
    BY <1>3 DEF FlushGone, Go, BuyersOK, Requests
  <2>3. MoneyInv'
    BY <2>1 DEF MoneyInv, NeverInDebt
  <2>4. MarksInv'
    BY <2>1, <2>2, MarksQuiet DEF redis
  <2>5. WindowCloses'
    BY <2>1, <2>2, WindowQuiet DEF redis
  <2> QED
    BY <2>3, <2>4, <2>5
<1>4. ASSUME Aside PROVE MoneyInv' /\ MarksInv' /\ WindowCloses'
  <2> USE <1>4 DEF Aside, buyers, locals
  <2>1. MoneyInv'
    BY DEF MoneyInv, NeverInDebt
  <2>2. MarksInv'
    BY MarksQuiet
  <2>3. WindowCloses'
    BY WindowQuiet
  <2> QED
    BY <2>1, <2>2, <2>3
<1> QED
  BY <1>1, <1>2, <1>3, <1>4, PurchaseSteps

LEMMA BuyersCorrect == SaleSpec => []BuyersInv
  BY BuyersInit, BuyersInvStep, LifeCorrect, PTL DEF SaleSpec

(* Also when sales come, change price and window, close and go under the   *)
(* purchases, no overlap of purchases and top-ups drives a balance below   *)
(* zero: a price that was raised meanwhile is not the one that is charged. *)
THEOREM NobodyInDebtAmidSales == SaleSpec => []NeverInDebt
<1>1. BuyersInv => NeverInDebt
  BY DEF BuyersInv, MoneyInv
<1> QED
  BY <1>1, BuyersCorrect, PTL

(* ... a purchase that is still on record has its daily key until its day  *)
(* is over ...                                                             *)
THEOREM RowsAreMarkedAmidSales == SaleSpec => []RowHasMark
<1>1. BuyersInv => RowHasMark
  BY DEF BuyersInv, BuyersOK, DoneRows, MarksInv, Covered, RowHasMark
<1> QED
  BY <1>1, BuyersCorrect, PTL

(* ... a daily key stands for a purchase that was made, be it deleted with *)
(* its sale since, or that failed in its commit ...                        *)
THEOREM MarksHaveBuyersAmidSales == SaleSpec => []MarkHasBuyer
<1>1. BuyersInv => MarkHasBuyer
  BY DEF BuyersInv, MarksInv
<1> QED
  BY <1>1, BuyersCorrect, PTL

(* ... and no rate limit goes on for ever but by a failure between INCR    *)
(* and EXPIRE.                                                             *)
THEOREM WindowsCloseAmidSales == SaleSpec => []WindowCloses
<1>1. BuyersInv => WindowCloses
  BY DEF BuyersInv
<1> QED
  BY <1>1, BuyersCorrect, PTL

(* Nor does a request get past the daily key of a purchase on record,      *)
(* though the sale was closed and opened again in between.                 *)
THEOREM NoneGetsPastTheMarkAmidSales == SaleSpec => NoSecondPurchase
<1>1. ASSUME BuyersInv, [SaleNext]_all
      PROVE  [\A r, q \in Buys :
               pc[r] = "loaded" /\ pc'[r] = "unmarked" /\ q \in bought /\ DailyKey(q) = DailyKey(r)
                 => DayIsOver(day[r])]_vars
  <2> SUFFICES ASSUME NEW r \in Buys, NEW q \in Buys, pc[r] = "loaded", pc'[r] = "unmarked",
                      q \in bought, DailyKey(q) = DailyKey(r)
               PROVE  DayIsOver(day[r])
    OBVIOUS
  <2>1. Step
    BY <1>1, PurchaseSteps DEF Aside, buyers, FlushGone, Go, BuyersInv, BuyersOK, Requests
  <2>2. DailyKey(r) \notin daily
    BY <1>1, <2>1, OnlyCheckDailyUnmarks DEF BuyersInv
  <2>3. Covered(q)
    BY <1>1 DEF BuyersInv, DoneRows, MarksInv
  <2>4. day[q] = day[r]
    BY DEF DailyKey
  <2> QED
    BY <2>2, <2>3, <2>4 DEF Covered
<1> QED
  BY <1>1, BuyersCorrect, PTL DEF SaleSpec, NoSecondPurchase

-----------------------------------------------------------------------------
(* No sale is oversold while its counter stands. *)

(* A request gets on with its purchase only if the units were there. *)
Served == {"taken", "charged", "written", "marked", "done"}
ServedHave == \A r \in Buys : pc[r] \in Served => InStock(left[r])
AcceptedFit == \A s \in Sales : CounterStands(s) => UnitCount(Accepted(s)) <= Total[s]

(* Only DECRBY gives a request its answer and makes it a served one. *)
LEMMA LeftSteps ==
  ASSUME BuyersOK, [SaleNext]_all
  PROVE  \/ \E r \in Buys : DecrStock(r)
         \/ left' = left /\ \A q \in Buys : pc'[q] \in Served => pc[q] \in Served
<1> DEFINE Kept == left' = left /\ \A q \in Buys : pc'[q] \in Served => pc[q] \in Served
<1> USE DEF redis, postgres, locals, vars, BuyersOK, Go, Requests, Served
<1>1. ASSUME NEW r \in Requests, Authenticate(r) \/ Fail(r) PROVE Kept
  BY <1>1 DEF Authenticate, Fail
<1>2. ASSUME NEW r \in Buys,
             LoadSale(r) \/ TurnAway(r) \/ CheckDaily(r) \/ CountRequest(r)
               \/ SetRateWindow(r) \/ TurnAwayPoor(r)
      PROVE  Kept
  BY <1>2
  DEF LoadSale, TurnAway, CheckDaily, CountRequest, SetRateWindow, TurnAwayPoor
<1>3. ASSUME NEW r \in Buys,
             GiveBack(r) \/ FlushUser(r) \/ FlushSale(r) \/ MarkDaily(r) \/ Commit(r)
               \/ FlushGone(r)
      PROVE  Kept
  BY <1>3 DEF GiveBack, FlushUser, FlushSale, MarkDaily, Commit, FlushGone
<1>4. ASSUME NEW r \in TopUps, TopUpStep(r) PROVE Kept
  BY <1>4, RequestsAssumption DEF TopUpStep, FlushTopUp, CommitTopUp
<1>5. CASE Environment
  BY <1>5 DEF Environment, Tick, RateWindowEnds, DailyKeyExpires
<1>6. CASE Aside
  BY <1>6 DEF Aside, buyers
<1> QED
  BY <1>1, <1>2, <1>3, <1>4, <1>5, <1>6, PurchaseSteps, RequestsAssumption
  DEF Step, BuyStep

LEMMA DecrStockIs ==
  ASSUME BuyersOK, NEW r \in Buys, DecrStock(r)
  PROVE  \E n : /\ left' = [left EXCEPT ![r] = n]
                /\ SetStock(ask[r].sale, n)
                /\ pc[r] = "counted"
                /\ pc' = [pc EXCEPT ![r] = IF InStock(n) THEN "taken" ELSE "short"]
  BY DEF DecrStock, Go

LEMMA ServedStep ==
  ASSUME BuyersOK, ServedHave, [SaleNext]_all
  PROVE  ServedHave'
<1>1. ASSUME NEW r \in Buys, DecrStock(r) PROVE ServedHave'
  <2>1. PICK n : /\ left' = [left EXCEPT ![r] = n]
                 /\ pc' = [pc EXCEPT ![r] = IF InStock(n) THEN "taken" ELSE "short"]
    BY <1>1, DecrStockIs
  <2> QED
    BY <2>1 DEF ServedHave, Served, BuyersOK, Requests
<1> QED
  BY <1>1, LeftSteps DEF ServedHave

(* What a step may add to the accepted requests of a sale. *)
LEMMA AcceptedSteps ==
  ASSUME LifeType, BuyersOK, NEW s \in Sales, Still(s) \/ Moves(s), [SaleNext]_all
  PROVE  \/ Accepted(s)' \in SUBSET Accepted(s)
         \/ StockOf(s)' >= 0
<1>0. ask' = ask /\ pc \in [Requests -> Stages] /\ Buys \subseteq Requests
      /\ left \in [Buys -> Int]
  BY BodiesKept DEF BuyersOK, Requests
<1>1. ASSUME NEW r \in Buys, DecrStock(r), ask[r].sale = s
      PROVE  Accepted(s)' \in SUBSET Accepted(s) \/ StockOf(s)' >= 0
  <2>1. PICK n : /\ left' = [left EXCEPT ![r] = n]
                 /\ SetStock(ask[r].sale, n)
                 /\ pc[r] = "counted"
                 /\ pc' = [pc EXCEPT ![r] = IF InStock(n) THEN "taken" ELSE "short"]
    BY <1>1, DecrStockIs
  <2>2. StockOf(s)' = n
    BY <1>1, <2>1, StockOfSteps
  <2>3. ASSUME ~InStock(n) PROVE Accepted(s)' \in SUBSET Accepted(s)
    BY <1>0, <2>1, <2>3 DEF Accepted, Taken, InStock
  <2> QED
    BY <2>2, <2>3 DEF InStock
<1>2. ASSUME NEW r \in Buys, DecrStock(r), Still(s) PROVE Accepted(s)' \in SUBSET Accepted(s)
  <2>1. PICK n : left' = [left EXCEPT ![r] = n] /\ pc[r] = "counted"
    BY <1>2, DecrStockIs
  <2> QED
    BY <1>0, <1>2, <2>1 DEF Still, Accepted, Taken, InStock, Took, Holding
<1>3. ASSUME left' = left, Still(s) PROVE Accepted(s)' \in SUBSET Accepted(s)
  BY <1>0, <1>3 DEF Still, Accepted, Taken, InStock
<1>4. ASSUME NEW r \in Buys, GiveBack(r) PROVE Accepted(s)' \in SUBSET Accepted(s)
  BY <1>0, <1>4 DEF GiveBack, Go, locals, Accepted, Taken, InStock, Took, Holding
<1> QED
  BY <1>1, <1>2, <1>3, <1>4, LeftSteps DEF Moves

LEMMA AcceptedStep ==
  ASSUME LifeType, LifeType', BuyersOK, Unsold, ConservedWhileOpen, AcceptedFit,
         [SaleNext]_all
  PROVE  AcceptedFit'
<1> SUFFICES ASSUME NEW s \in Sales, CounterStands(s)'
             PROVE  UnitCount(Accepted(s))' <= Total[s]
  BY DEF AcceptedFit
<1>0. /\ ask' = ask /\ AskOK /\ Total[s] \in Nat
      /\ UnitCount(Accepted(s))' = UnitCount(Accepted(s)')
      /\ UnitCount(Taken(s))' = UnitCount(Taken(s)')
      /\ Taken(s)' \in SUBSET Buys /\ Accepted(s)' \in SUBSET Taken(s)'
      /\ Accepted(s) \in SUBSET Buys
  BY BodiesKept, UnitCountKept, ValuesAssumption DEF BuyersOK, AskOK, Taken, Accepted
<1>1. ASSUME StockOf(s)' >= 0 PROVE UnitCount(Accepted(s)') <= Total[s]
  <2>1. StockOf(s)' = Total[s] - UnitCount(Taken(s)')
    BY <1>0, CountKept
  <2>2. /\ UnitCount(Accepted(s)') <= UnitCount(Taken(s)')
        /\ UnitCount(Taken(s)') \in Nat /\ UnitCount(Accepted(s)') \in Nat
    BY <1>0, UnitsMonotone, UnitsFinite
  <2> QED
    BY <1>0, <1>1, <2>1, <2>2
<1>2. ASSUME CounterStands(s), Accepted(s)' \in SUBSET Accepted(s)
      PROVE  UnitCount(Accepted(s)') <= Total[s]
  <2>1. UnitCount(Accepted(s)') <= UnitCount(Accepted(s)) /\ UnitCount(Accepted(s)) <= Total[s]
    BY <1>0, <1>2, UnitsMonotone DEF AcceptedFit
  <2>2. UnitCount(Accepted(s)') \in Nat /\ UnitCount(Accepted(s)) \in Nat
    BY <1>0, UnitsFinite
  <2> QED
    BY <1>0, <2>1, <2>2
<1>3. ASSUME SeedStock(s), ProductOf[s] \in offered PROVE StockOf(s)' >= 0
  BY <1>0, <1>3, StockOfSteps DEF SeedStock
<1>4. CounterStands(s) \/ (SeedStock(s) /\ ProductOf[s] \in offered)
  BY StandsSteps
<1> QED
  BY <1>0, <1>1, <1>2, <1>3, <1>4, CountSteps, AcceptedSteps

LEMMA OpenInit == SaleInit => Unsold /\ ConservedWhileOpen /\ ServedHave /\ AcceptedFit
<1> SUFFICES ASSUME SaleInit
             PROVE  Unsold /\ ConservedWhileOpen /\ ServedHave /\ AcceptedFit
  OBVIOUS
<1>1. \A s \in Sales : at[s] = "new" /\ ~sale[s].live
  BY LifecycleAssumption DEF SaleInit, Opening
<1>2. \A r \in Buys : pc[r] = "idle"
  BY DEF SaleInit, Opening, Requests
<1> QED
  BY <1>1, <1>2
  DEF Unsold, Begun, ConservedWhileOpen, CounterStands, ServedHave, Served, AcceptedFit

LEMMA RecordedFitWhileOpen ==
  ASSUME BuyersInv, ServedHave, AcceptedFit
  PROVE  FitsWhileOpen
<1> SUFFICES ASSUME NEW s \in Sales, CounterStands(s)
             PROVE  UnitCount(Recorded(s)) <= Total[s]
  BY DEF FitsWhileOpen
<1>1. Recorded(s) \in SUBSET Accepted(s) /\ Accepted(s) \in SUBSET Buys /\ AskOK
  BY
  DEF BuyersInv, BuyersOK, DoneRows, ServedHave, Served, Recorded, Accepted, Taken, Took, AskOK
<1>2. UnitCount(Recorded(s)) <= UnitCount(Accepted(s)) /\ UnitCount(Accepted(s)) <= Total[s]
  BY <1>1, UnitsMonotone DEF AcceptedFit
<1>3. /\ UnitCount(Recorded(s)) \in Nat /\ UnitCount(Accepted(s)) \in Nat
      /\ Total[s] \in Nat
  BY <1>1, UnitsFinite, ValuesAssumption
<1> QED
  BY <1>2, <1>3

(* "Prevents overselling" as far as it goes: whatever is done to sales,    *)
(* the recorded purchases of one fit in its stock until a task or a DELETE *)
(* has removed its counter.                                                *)
THEOREM NotOversoldWhileOpen == SaleSpec => []FitsWhileOpen
<1>1. LifeType /\ LifeType' /\ BuyersInv /\ Unsold /\ ConservedWhileOpen /\ ServedHave
        /\ AcceptedFit /\ [SaleNext]_all
        => Unsold' /\ ConservedWhileOpen' /\ ServedHave' /\ AcceptedFit'
  BY UnsoldStep, CountKept, ServedStep, AcceptedStep DEF ConservedWhileOpen, BuyersInv
<1> QED
  BY <1>1, OpenInit, RecordedFitWhileOpen, LifeCorrect, BuyersCorrect, PTL DEF SaleSpec

-----------------------------------------------------------------------------
(* Row locks. *)

LEMMA Freed ==
  ASSUME NEW S, NEW lock, DOMAIN lock = S, NEW x, NEW s \in S
  PROVE  FreeFrom(lock, x)[s] = NoOne \/ (FreeFrom(lock, x)[s] = lock[s] /\ lock[s] # x)
  BY DEF FreeFrom

LEMMA LockDomains ==
  ASSUME LifeType, BuyersOK
  PROVE  /\ DOMAIN userLock = Users /\ DOMAIN saleLock = Sales /\ DOMAIN shelfLock = Products
         /\ pc \in [Requests -> Stages] /\ Buys \subseteq Requests /\ TopUps \subseteq Requests
         /\ at = [y \in Actors |-> at[y]]
         /\ Visits \subseteq Actors /\ Deliveries \subseteq Actors
         /\ DOMAIN mail \subseteq Deliveries
  BY DEF LifeType, SaleTypeOK, BodiesOK, BuyersOK, Requests, Actors

(* The end of a transaction: x gives back its locks, nobody else moves. *)
LEMMA EndsClean ==
  ASSUME LifeType, BuyersOK, LocksInUse, NEW x,
         userLock' = FreeFrom(userLock, x) \/ (userLock' = userLock /\ pc' = pc),
         saleLock' = FreeFrom(saleLock, x),
         shelfLock' = FreeFrom(shelfLock, x) \/ (shelfLock' = shelfLock /\ at' = at),
         \A q \in Requests : q # x => pc'[q] = pc[q],
         \A y \in Visits \cup Deliveries : y # x => at'[y] = at[y]
  PROVE  LocksInUse'
<1>1. ASSUME NEW u \in Users PROVE (userLock[u] = NoOne \/ HoldsUser(userLock[u]))'
  <2>1. userLock'[u] = NoOne \/ (userLock'[u] = userLock[u] /\ (userLock[u] # x \/ pc' = pc))
    BY Freed, LockDomains
  <2> QED
    BY <2>1, LockDomains DEF LocksInUse, HoldsUser
<1>2. ASSUME NEW s \in Sales PROVE (saleLock[s] = NoOne \/ HoldsSale(saleLock[s]))'
  <2>1. saleLock'[s] = NoOne \/ (saleLock'[s] = saleLock[s] /\ saleLock[s] # x)
    BY Freed, LockDomains
  <2> QED
    BY <2>1, LockDomains DEF LocksInUse, HoldsSale
<1>3. ASSUME NEW p \in Products PROVE (shelfLock[p] = NoOne \/ HoldsProduct(shelfLock[p]))'
  <2>1. \/ shelfLock'[p] = NoOne
        \/ shelfLock'[p] = shelfLock[p] /\ (shelfLock[p] # x \/ at' = at)
    BY Freed, LockDomains
  <2> QED
    BY <2>1, LockDomains DEF LocksInUse, HoldsProduct
<1> QED
  BY <1>1, <1>2, <1>3 DEF LocksInUse

(* Every other step of a handler leaves its locks where they are and takes *)
(* at most one more.                                                       *)
LEMMA HandlerLocks ==
  ASSUME LifeType, BuyersOK, LocksInUse, UNCHANGED lifecycle,
         Step \/ \E r \in Buys : FlushGone(r)
  PROVE  LocksInUse'
<1> USE LockDomains
    DEF lifecycle, catalogue, redis, postgres, locals, vars, Go, LocksInUse, HoldsUser,
        HoldsSale, HoldsProduct
<1>1. ASSUME NEW r \in Requests, Authenticate(r) PROVE LocksInUse'
  BY <1>1 DEF Authenticate
<1>2. ASSUME NEW r \in Buys,
             LoadSale(r) \/ TurnAway(r) \/ CheckDaily(r) \/ CountRequest(r)
               \/ SetRateWindow(r) \/ TurnAwayPoor(r)
      PROVE  LocksInUse'
  BY <1>2, RequestsAssumption
  DEF LoadSale, TurnAway, CheckDaily, CountRequest, SetRateWindow, TurnAwayPoor
<1>3. ASSUME NEW r \in Buys, DecrStock(r) \/ GiveBack(r) \/ MarkDaily(r) PROVE LocksInUse'
  BY <1>3, RequestsAssumption DEF DecrStock, GiveBack, MarkDaily
<1>4. ASSUME NEW r \in Buys, FlushUser(r) PROVE LocksInUse'
  BY <1>4, RequestsAssumption DEF FlushUser
<1>5. ASSUME NEW r \in Buys, FlushSale(r) PROVE LocksInUse'
  BY <1>5, RequestsAssumption DEF FlushSale
<1>6. ASSUME NEW r \in TopUps, FlushTopUp(r) PROVE LocksInUse'
  BY <1>6, RequestsAssumption DEF FlushTopUp
<1>7. ASSUME NEW r \in Requests, Commit(r) \/ CommitTopUp(r) \/ Fail(r) \/ FlushGone(r)
      PROVE  LocksInUse'
  <2>1. Release(r) /\ \A q \in Requests : q # r => pc'[q] = pc[q]
    BY <1>7 DEF Commit, CommitTopUp, Fail, FlushGone
  <2> QED
    BY <2>1, EndsClean DEF Release
<1>8. CASE Environment
  BY <1>8 DEF Environment, Tick, RateWindowEnds, DailyKeyExpires
<1> QED
  BY <1>1, <1>2, <1>3, <1>4, <1>5, <1>6, <1>7, <1>8, RequestsAssumption
  DEF Step, BuyStep, TopUpStep

(* A creation, visit or delivery that goes on keeps its locks and may take *)
(* one more.                                                               *)
LEMMA GoesOn ==
  ASSUME LifeType, BuyersOK, LocksInUse, NEW x,
         userLock' = userLock /\ pc' = pc,
         saleLock' = saleLock \/ \E s \in Sales : saleLock' = [saleLock EXCEPT ![s] = x],
         saleLock' # saleLock => HoldsSale(x)',
         shelfLock' = shelfLock \/ \E p \in Products : shelfLock' = [shelfLock EXCEPT ![p] = x],
         shelfLock' # shelfLock => HoldsProduct(x)',
         HoldsSale(x) => HoldsSale(x)', HoldsProduct(x) => HoldsProduct(x)',
         \A y \in Visits \cup Deliveries : y # x => at'[y] = at[y]
  PROVE  LocksInUse'
<1>1. ASSUME NEW u \in Users PROVE (userLock[u] = NoOne \/ HoldsUser(userLock[u]))'
  BY DEF LocksInUse, HoldsUser
<1>2. \A y : HoldsSale(y) => HoldsSale(y)'
  BY DEF HoldsSale
<1>3. \A y : HoldsProduct(y) => HoldsProduct(y)'
  BY DEF HoldsProduct
<1>4. ASSUME NEW s \in Sales PROVE (saleLock[s] = NoOne \/ HoldsSale(saleLock[s]))'
  <2>1. \/ saleLock'[s] = saleLock[s]
        \/ saleLock'[s] = x /\ HoldsSale(x)'
    BY LockDomains
  <2>2. CASE saleLock'[s] = saleLock[s]
    <3>1. saleLock[s] = NoOne \/ HoldsSale(saleLock[s])
      BY DEF LocksInUse
    <3> QED
      BY <1>2, <2>2, <3>1 DEF HoldsSale
  <2>3. CASE saleLock'[s] = x /\ HoldsSale(x)'
    BY <2>3 DEF HoldsSale
  <2> QED
    BY <2>1, <2>2, <2>3
<1>5. ASSUME NEW p \in Products PROVE (shelfLock[p] = NoOne \/ HoldsProduct(shelfLock[p]))'
  <2>1. \/ shelfLock'[p] = shelfLock[p]
        \/ shelfLock'[p] = x /\ HoldsProduct(x)'
    BY LockDomains
  <2>2. CASE shelfLock'[p] = shelfLock[p]
    <3>1. shelfLock[p] = NoOne \/ HoldsProduct(shelfLock[p])
      BY DEF LocksInUse
    <3> QED
      BY <1>3, <2>2, <3>1 DEF HoldsProduct
  <2>3. CASE shelfLock'[p] = x /\ HoldsProduct(x)'
    BY <2>3 DEF HoldsProduct
  <2> QED
    BY <2>1, <2>2, <2>3
<1> QED
  BY <1>1, <1>4, <1>5 DEF LocksInUse

LEMMA VisitLocks ==
  ASSUME LifeType, BuyersOK, LocksInUse, NEW v \in Visits, Visit(v)
  PROVE  LocksInUse'
<1> USE DEF Move, HoldsSale, HoldsProduct, vars, postgres, redis, buyers, catalogue
<1>0. /\ v \notin Deliveries /\ v \notin Buys /\ visit[v].sale \in Sales /\ v \in DOMAIN at
      /\ \A y \in Visits \cup Deliveries : y \in DOMAIN at
  BY LockDomains, VisitBody, LifecycleAssumption DEF Requests
<1>1. CASE FlushPatch(v)
  <2>1. at[v] = "loaded" /\ (at'[v] = "flushed" \/ saleLock' = saleLock)
    BY <1>0, <1>1, LockDomains DEF FlushPatch
  <2> QED
    BY <1>0, <1>1, <2>1, GoesOn DEF FlushPatch
<1>2. CASE CommitPatch(v)
  BY <1>0, <1>2, EndsClean DEF CommitPatch, Unlock
<1>3. CASE Reschedule(v)
  BY <1>0, <1>3, GoesOn DEF Reschedule
<1>4. CASE LoadVisit(v) \/ ReadCounter(v) \/ CommitRead(v) \/ DropKey(v) \/ CommitDelete(v)
  <2>1. at[v] \in {"new", "loaded", "counted", "dropped"}
    BY <1>4 DEF LoadVisit, ReadCounter, CommitRead, DropKey, CommitDelete
  <2>2. UNCHANGED <<userLock, saleLock, shelfLock, pc>>
    BY <1>4 DEF LoadVisit, ReadCounter, CommitRead, DropKey, CommitDelete
  <2>3. \A y \in Visits \cup Deliveries : y # v => at'[y] = at[y]
    BY <1>0, <1>4 DEF LoadVisit, ReadCounter, CommitRead, DropKey, CommitDelete
  <2> QED
    BY <1>0, <2>1, <2>2, <2>3, GoesOn
<1> QED
  BY <1>1, <1>2, <1>3, <1>4 DEF Visit

LEMMA SyncLocks ==
  ASSUME LifeType, BuyersOK, LocksInUse, NEW d \in DOMAIN mail,
         Sync(d) \/ Retry(d) \/ WorkerDies(d)
  PROVE  LocksInUse'
<1> USE DEF Move, HoldsSale, HoldsProduct, vars, postgres, redis, buyers, catalogue
<1>0. /\ d \in Deliveries /\ d \notin Visits /\ d \notin Buys /\ d \in DOMAIN at
      /\ mail[d].sale \in Sales /\ ProductOf[mail[d].sale] \in Products
      /\ \A y \in Visits \cup Deliveries : y \in DOMAIN at
  <2>1. d \in Deliveries /\ mail[d].sale \in Sales
    BY DEF LifeType, SaleTypeOK
  <2> QED
    BY <2>1, LockDomains, LifecycleAssumption DEF Requests
<1>1. CASE FlushProduct(d)
  <2>1. at[d] = "loaded" /\ at'[d] = "shelved"
    BY <1>0, <1>1 DEF FlushProduct
  <2> QED
    BY <1>0, <1>1, <2>1, GoesOn DEF FlushProduct
<1>2. CASE FlushSync(d)
  <2>1. at[d] = "shelved" /\ at'[d] = "flushed"
    BY <1>0, <1>2 DEF FlushSync
  <2> QED
    BY <1>0, <1>2, <2>1, GoesOn DEF FlushSync
<1>3. CASE CommitSync(d)
  BY <1>0, <1>3, EndsClean DEF CommitSync, Unlock
<1>4. CASE Retry(d) \/ WorkerDies(d)
  BY <1>0, <1>4, EndsClean DEF Retry, WorkerDies, Unlock
<1>5. CASE ReadStock(d) \/ DropStock(d) \/ LoadSync(d) \/ LoadProduct(d)
  <2>1. at[d] \in {"waiting", "read", "dropped", "found"}
    BY <1>5 DEF ReadStock, DropStock, LoadSync, LoadProduct
  <2>2. UNCHANGED <<userLock, saleLock, shelfLock, pc>>
    BY <1>5 DEF ReadStock, DropStock, LoadSync, LoadProduct
  <2>3. \A y \in Visits \cup Deliveries : y # d => at'[y] = at[y]
    BY <1>0, <1>5 DEF ReadStock, DropStock, LoadSync, LoadProduct
  <2> QED
    BY <1>0, <2>1, <2>2, <2>3, GoesOn
<1> QED
  BY <1>1, <1>2, <1>3, <1>4, <1>5 DEF Sync, SyncGone

LEMMA LocksStep ==
  ASSUME LifeType, BuyersOK, LocksInUse, [SaleNext]_all
  PROVE  LocksInUse'
<1> USE DEF vars, postgres, redis, buyers, catalogue, lifecycle
<1>1. CASE (Step /\ UNCHANGED lifecycle) \/ \E r \in Buys : FlushGone(r)
  BY <1>1, HandlerLocks DEF FlushGone
<1>2. ASSUME NEW s \in Sales, Create(s) PROVE LocksInUse'
  <2>1. UNCHANGED <<userLock, saleLock, shelfLock, pc>>
    BY <1>2
    DEF Create, CheckProduct, CheckOverlap, SeedStock, ScheduleSync, CommitCreation
  <2>2. \A y \in Visits \cup Deliveries : at'[y] = at[y]
    BY <1>2, LifecycleAssumption, LockDomains
    DEF Create, CheckProduct, CheckOverlap, SeedStock, ScheduleSync, CommitCreation, Move
  <2> QED
    BY <2>1, <2>2 DEF LocksInUse, HoldsUser, HoldsSale, HoldsProduct
<1>3. ASSUME NEW x, Break(x) PROVE LocksInUse'
  BY <1>3, EndsClean DEF Break, Unlock
<1>4. CASE \/ \E e \in Echoes : Redeliver(e)
           \/ \E p \in Products, n \in Restocks : Restock(p, n)
           \/ \E p \in Droppable : DropProduct(p)
           \/ UNCHANGED all
  <2>1. UNCHANGED <<userLock, saleLock, shelfLock, pc, at>>
    BY <1>4 DEF Redeliver, Restock, DropProduct, all
  <2> QED
    BY <2>1 DEF LocksInUse, HoldsUser, HoldsSale, HoldsProduct
<1> QED
  BY <1>1, <1>2, <1>3, <1>4, VisitLocks, SyncLocks DEF SaleNext, Over

LEMMA LocksCorrect == SaleSpec => []LocksInUse
<1>1. SaleInit => LocksInUse
  BY DEF SaleInit, Opening, LocksInUse
<1>2. BuyersInv => BuyersOK
  BY DEF BuyersInv
<1> QED
  BY <1>1, <1>2, LocksStep, LifeCorrect, BuyersCorrect, PTL DEF SaleSpec

(* Whoever one waits for holds a lock. *)
LEMMA HoldersAreAwaited ==
  ASSUME LocksInUse, NEW x, NEW y \in Awaited(x)
  PROVE  /\ y # NoOne
         /\ \/ HoldsUser(y) /\ \E u \in Users : WritesUser(x, u)
            \/ HoldsSale(y)
            \/ HoldsProduct(y) /\ \E p \in Products : WritesProduct(x, p)
<1>1. y # NoOne
  BY DEF Awaited
<1>2. CASE \E u \in Users : WritesUser(x, u) /\ y = userLock[u]
  BY <1>1, <1>2 DEF LocksInUse
<1>3. CASE \E s \in Sales : WritesSale(x, s) /\ y = saleLock[s]
  BY <1>1, <1>3 DEF LocksInUse
<1>4. CASE \E p \in Products : WritesProduct(x, p) /\ y = shelfLock[p]
  BY <1>1, <1>4 DEF LocksInUse
<1>5. CASE y \in Buys /\ pc[y] \in {"written", "marked"}
  BY <1>1, <1>5 DEF HoldsSale
<1> QED
  BY <1>1, <1>2, <1>3, <1>4, <1>5 DEF Awaited

(* Rows of users and products are taken before those of sales. *)
LEMMA UsersFirst ==
  ASSUME LifeType, BuyersOK, NEW y, HoldsUser(y) \/ HoldsSale(y) \/ HoldsProduct(y)
  PROVE  /\ \A u : ~WritesUser(y, u)
         /\ \A p : ~WritesProduct(y, p)
         /\ HoldsSale(y) => (\A s : ~WritesSale(y, s)) /\ ~(y \in Visits /\ at[y] = "dropped")
<1>1. /\ DOMAIN mail \subseteq Deliveries /\ Buys \subseteq Requests /\ TopUps \subseteq Requests
      /\ Buys \cap TopUps = {} /\ Visits \cap Deliveries = {}
      /\ Requests \cap (Visits \cup Deliveries) = {}
  BY LockDomains, LifecycleAssumption, RequestsAssumption
<1> QED
  BY <1>1 DEF HoldsUser, HoldsSale, HoldsProduct, WritesUser, WritesProduct, WritesSale

(* Row locks form no cycle.  Each is held by a transaction under way; who  *)
(* holds the row of a user or a product waits for nobody but holders of    *)
(* rows of sales or, deleting, of purchases, and those wait for nobody:    *)
(* nobody's wait depends on a chain of more than two others, let alone on  *)
(* himself.                                                                *)
THEOREM LocksAreOrdered == SaleSpec => []LocksOrdered
<1>1. ASSUME LifeType, BuyersOK, LocksInUse
      PROVE  LocksOrdered
  <2>1. ASSUME NEW x, NEW y \in Awaited(x), HoldsSale(y)
        PROVE  Awaited(y) = {}
    BY <1>1, <2>1, UsersFirst DEF Awaited
  <2>2. ASSUME NEW x, NEW y \in Awaited(x), NEW z \in Awaited(y)
        PROVE  HoldsSale(z)
    <3>1. HoldsUser(y) \/ HoldsSale(y) \/ HoldsProduct(y)
      BY <1>1, <2>2, HoldersAreAwaited
    <3>2. (\A u : ~WritesUser(y, u)) /\ (\A p : ~WritesProduct(y, p))
      BY <1>1, <3>1, UsersFirst
    <3> QED
      BY <1>1, <2>2, <3>2, HoldersAreAwaited
  <2>3. ASSUME NEW x, NEW y \in Awaited(x), NEW z \in Awaited(y)
        PROVE  Awaited(z) = {}
    BY <2>1, <2>2, <2>3
  <2> QED
    BY <1>1, <2>3 DEF LocksOrdered
<1>2. BuyersInv => BuyersOK
  BY DEF BuyersInv
<1> QED
  BY <1>1, <1>2, LifeCorrect, BuyersCorrect, LocksCorrect, PTL

-----------------------------------------------------------------------------
(* Creations, PATCHes, DELETEs, tasks and purchases implement SaleBook. *)

(* Nothing is done to a sale before its creation is committed. *)
HasRow(d) == at[d] = "found" \/ Carries(d)
CreatedFirst ==
  /\ \A s \in Sales : at[s] # "created" => ~sale[s].live /\ sale[s].active
  /\ \A v \in Visits : at[v] \notin {"new", "refused"} => at[visit[v].sale] = "created"
  /\ \A d \in Deliveries : HasRow(d) => d \in DOMAIN mail /\ at[mail[d].sale] = "created"

LEMMA CreationCreates ==
  ASSUME LifeType, NEW s \in Sales, CommitCreation(s)
  PROVE  at[s] = "queued" /\ at'[s] = "created" /\ \A t \in Sales : t # s => at'[t] = at[t]
  BY DEF CommitCreation, Move, LifeType, BodiesOK, Actors

LEMMA CreatedSteps ==
  ASSUME LifeType, NEW s \in Sales, [SaleNext]_all
  PROVE  /\ at[s] = "created" => at'[s] = "created"
         /\ at'[s] = "created" => at[s] = "created" \/ CommitCreation(s)
<1>0. at = [y \in Actors |-> at[y]] /\ s \in Actors
  BY DEF LifeType, BodiesOK, Actors
<1>1. CASE Create(s)
  BY <1>0, <1>1
  DEF Create, CheckProduct, CheckOverlap, SeedStock, ScheduleSync, CommitCreation, Move
<1> QED
  BY <1>1, PlaceSteps

LEMMA LoadSteps ==
  ASSUME LifeType, NEW v \in Visits, [SaleNext]_all, at'[v] \notin {"new", "refused"}
  PROVE  at[v] \notin {"new", "refused"} \/ sale[visit[v].sale].live
<1> USE DEF vars, lifecycle, all
<1> DEFINE Kept == at[v] \notin {"new", "refused"} \/ sale[visit[v].sale].live
<1>0. /\ at = [y \in Actors |-> at[y]]
      /\ v \in Actors /\ v \notin Sales \cup Deliveries
      /\ DOMAIN mail \subseteq Deliveries
  BY MailType, LifecycleAssumption DEF LifeType, BodiesOK, Actors
<1>1. ASSUME NEW s \in Sales, Create(s) PROVE Kept
  BY <1>0, <1>1
  DEF Create, CheckProduct, CheckOverlap, SeedStock, ScheduleSync, CommitCreation, Move
<1>2. ASSUME NEW w \in Visits, Visit(w) PROVE Kept
  BY <1>0, <1>2
  DEF Visit, LoadVisit, FlushPatch, Reschedule, CommitPatch, ReadCounter, CommitRead, DropKey,
      CommitDelete, Move
<1>3. ASSUME NEW d \in DOMAIN mail, Sync(d) \/ Retry(d) \/ WorkerDies(d) PROVE Kept
  BY <1>0, <1>3
  DEF Sync, ReadStock, DropStock, LoadSync, LoadProduct, FlushProduct, FlushSync, CommitSync,
      SyncGone, Retry, WorkerDies, Move
<1>4. ASSUME NEW x \in Sales \cup Visits, Break(x) PROVE Kept
  BY <1>0, <1>4 DEF Break, Settled
<1>5. ASSUME NEW r \in Buys, FlushGone(r) PROVE Kept
  BY <1>5 DEF FlushGone
<1> QED
  BY <1>1, <1>2, <1>3, <1>4, <1>5
  DEF SaleNext, Over, Redeliver, Restock, DropProduct

LEMMA CreatedFirstStep == LifeType /\ CreatedFirst /\ [SaleNext]_all => CreatedFirst'
<1> SUFFICES ASSUME LifeType, CreatedFirst, [SaleNext]_all PROVE CreatedFirst'
  OBVIOUS
<1>0. sale \in [Sales -> SaleRow] /\ ask' = ask /\ visit' = visit
  BY BodiesKept DEF LifeType, SaleTypeOK
<1>1. ASSUME NEW s \in Sales, at'[s] # "created"
      PROVE  ~sale'[s].live /\ sale'[s].active
  <2>1. at[s] # "created" /\ ~CommitCreation(s) /\ ~sale[s].live /\ sale[s].active
    BY <1>1, CreatedSteps, CreationCreates DEF CreatedFirst
  <2>2. ASSUME NEW v \in Visits, CommitPatch(v) \/ CommitDelete(v), visit[v].sale = s
        PROVE  FALSE
    BY <2>1, <2>2 DEF CommitPatch, CommitDelete, Move, CreatedFirst
  <2>3. ASSUME NEW d \in DOMAIN mail, CommitSync(d), mail[d].sale = s PROVE FALSE
    BY <2>1, <2>3, MailType DEF CommitSync, Move, CreatedFirst, HasRow, Carries
  <2> QED
    BY <2>1, <2>2, <2>3, RowSteps DEF SameRow
<1>2. ASSUME NEW v \in Visits, at'[v] \notin {"new", "refused"}
      PROVE  at'[visit'[v].sale] = "created"
  <2>1. visit[v].sale \in Sales
    BY VisitBody
  <2>2. at[visit[v].sale] = "created"
    BY <1>2, <2>1, LoadSteps DEF CreatedFirst
  <2> QED
    BY <1>0, <2>1, <2>2, CreatedSteps
<1>3. ASSUME NEW d \in Deliveries, HasRow(d)'
      PROVE  d \in DOMAIN mail' /\ at'[mail'[d].sale] = "created"
  <2>1. d \in DOMAIN mail /\ at[mail[d].sale] = "created"
    <3>1. CASE at'[d] = at[d]
      BY <1>3, <3>1 DEF CreatedFirst, HasRow, Carries
    <3>2. ASSUME Handled(d), ~HasRow(d) PROVE LoadSync(d) /\ sale[mail[d].sale].live
      <4>0. at = [y \in Actors |-> at[y]] /\ d \in Actors
        BY DEF LifeType, BodiesOK, Actors
      <4> QED
        BY <1>3, <3>2, <4>0
        DEF Handled, Sync, ReadStock, DropStock, LoadSync, LoadProduct, FlushProduct, FlushSync,
            CommitSync, SyncGone, Retry, WorkerDies, Move, HasRow, Carries
    <3>3. ASSUME Handled(d) PROVE d \in DOMAIN mail /\ mail[d].sale \in Sales
      BY <3>3, MailType DEF Handled
    <3> QED
      BY <3>1, <3>2, <3>3, DeliverySteps DEF CreatedFirst
  <2>2. mail[d].sale \in Sales
    BY <2>1, MailType
  <2> QED
    BY <2>1, <2>2, MailKept, CreatedSteps
<1> QED
  BY <1>1, <1>2, <1>3 DEF CreatedFirst

LEMMA CreatedFirstCorrect == SaleSpec => []CreatedFirst
<1>1. SaleInit => CreatedFirst
  <2> SUFFICES ASSUME SaleInit PROVE CreatedFirst
    OBVIOUS
  <2>1. /\ \A s \in Sales : ~sale[s].live /\ sale[s].active
        /\ \A v \in Visits : at[v] = "new"
        /\ \A d \in Deliveries : at[d] = "waiting"
    BY LifecycleAssumption DEF SaleInit, Opening
  <2> QED
    BY <2>1 DEF CreatedFirst, HasRow, Carries
<1> QED
  BY <1>1, CreatedFirstStep, LifeCorrect, PTL DEF SaleSpec

(* The stage of a sale in its rows and in the place of its creation. *)
LEMMA StageIs ==
  ASSUME LifeType, CreatedFirst, NEW s \in Sales
  PROVE  /\ Stage[s] = "on" <=> sale[s].live /\ sale[s].active
         /\ Stage[s] = "off" <=> sale[s].live /\ ~sale[s].active
         /\ Stage[s] = "gone" <=> ~sale[s].live /\ at[s] = "created"
         /\ Stage[s] = "none" <=> ~sale[s].live /\ at[s] # "created"
         /\ Stage[s] \in {"on", "off", "gone", "none"}
  BY DEF Stage

LEMMA StageKept ==
  ASSUME NEW s \in Sales, SameRow(s), at'[s] = "created" <=> at[s] = "created"
  PROVE  Stage'[s] = Stage[s]
  BY DEF Stage, SameRow

LEMMA StagesKept ==
  ASSUME \A s \in Sales : Stage'[s] = Stage[s]
  PROVE  Stage' = Stage
  BY DEF Stage

(* One sale turns, the others stay. *)
LEMMA StageTurns ==
  ASSUME NEW s \in Sales, NEW to, Stage'[s] = to,
         \A t \in Sales : t # s => Stage'[t] = Stage[t]
  PROVE  Stage' = [Stage EXCEPT ![s] = to]
  BY DEF Stage

(* What a commit to the row of sale s leaves alone. *)
LEMMA OthersKept ==
  ASSUME LifeType, NEW s \in Sales, NEW w, sale' = [sale EXCEPT ![s] = w],
         \A t \in Sales : t # s => (at'[t] = "created" <=> at[t] = "created")
  PROVE  \A t \in Sales : t # s => Stage'[t] = Stage[t]
<1>1. \A t \in Sales : t # s => SameRow(t)
  BY DEF LifeType, SaleTypeOK, SameRow
<1> QED
  BY <1>1, StageKept

(* A commit to the row of a sale that is created and keeps its live: it    *)
(* switches the sale or leaves its stage.                                  *)
LEMMA SwitchOrStay ==
  ASSUME LifeType, LifeType', CreatedFirst, CreatedFirst', NEW s \in Sales, NEW w,
         sale' = [sale EXCEPT ![s] = w], w.live = sale[s].live,
         \A t \in Sales : at'[t] = "created" <=> at[t] = "created",
         UNCHANGED <<bought, ask, pc>>
  PROVE  Book!Next \/ UNCHANGED Book!vars
<1>1. \A t \in Sales : t # s => Stage'[t] = Stage[t]
  BY OthersKept
<1>2. sale'[s].live = sale[s].live
  BY DEF LifeType, SaleTypeOK
<1>3. UNCHANGED <<Wanted, Pending, bought>>
  BY DEF Wanted, Pending
<1>4. CASE Stage'[s] = Stage[s]
  BY <1>1, <1>3, <1>4, StagesKept DEF Book!vars
<1>5. CASE Stage'[s] # Stage[s]
  <2>1. (Stage[s] = "on" /\ Stage'[s] = "off") \/ (Stage[s] = "off" /\ Stage'[s] = "on")
    BY <1>2, <1>5 DEF Stage
  <2>2. Book!Turn(s, "on", "off") \/ Book!Turn(s, "off", "on")
    BY <1>1, <2>1, StageTurns DEF Book!Turn
  <2>3. Book!Switch(s)
    BY <1>3, <2>2 DEF Book!Switch
  <2> QED
    BY <2>3 DEF Book!Next
<1> QED
  BY <1>4, <1>5

LEMMA RecordedKept ==
  ASSUME [SaleNext]_all, ~(Step /\ UNCHANGED lifecycle), ~\E v \in Visits : CommitDelete(v)
  PROVE  bought' = bought
<1> USE DEF vars, postgres, all
<1>1. ASSUME NEW s \in Sales, Create(s) PROVE bought' = bought
  BY <1>1
  DEF Create, CheckProduct, CheckOverlap, SeedStock, ScheduleSync, CommitCreation
<1>2. ASSUME NEW v \in Visits, Visit(v), ~CommitDelete(v) PROVE bought' = bought
  BY <1>2
  DEF Visit, LoadVisit, FlushPatch, Reschedule, CommitPatch, ReadCounter, CommitRead, DropKey
<1>3. ASSUME NEW d \in DOMAIN mail, Sync(d) \/ Retry(d) \/ WorkerDies(d)
      PROVE  bought' = bought
  BY <1>3
  DEF Sync, ReadStock, DropStock, LoadSync, LoadProduct, FlushProduct, FlushSync, CommitSync,
      SyncGone, Retry, WorkerDies
<1> QED
  BY <1>1, <1>2, <1>3
  DEF SaleNext, FlushGone, Over, Break, Redeliver, Restock, DropProduct

(* What is done to sales. *)
LEMMA AdminBook ==
  ASSUME LifeType, LifeType', CreatedFirst, CreatedFirst', SaleThere, [SaleNext]_all,
         ~(Step /\ UNCHANGED lifecycle), ~\E r \in Buys : FlushGone(r)
  PROVE  Book!Next \/ UNCHANGED Book!vars
<1>0. /\ sale \in [Sales -> SaleRow]
      /\ at = [y \in Actors |-> at[y]] /\ Sales \subseteq Actors
      /\ UNCHANGED <<ask, pc>> /\ UNCHANGED <<Wanted, Pending>>
  BY PurchaseSteps
  DEF LifeType, SaleTypeOK, BodiesOK, Actors, Aside, buyers, Wanted, Pending
<1>1. ASSUME NEW s \in Sales, CommitCreation(s) PROVE Book!Next
  <2>1. at[s] = "queued" /\ at'[s] = "created" /\ \A t \in Sales : t # s => at'[t] = at[t]
    BY <1>1, CreationCreates
  <2>2. sale' = [sale EXCEPT ![s] = [sale[s] EXCEPT !.live = TRUE]] /\ bought' = bought
    BY <1>1 DEF CommitCreation
  <2>3. Stage[s] = "none" /\ Stage'[s] = "on"
    BY <1>0, <2>1, <2>2 DEF CreatedFirst, Stage, SaleRow
  <2>4. Book!Turn(s, "none", "on")
    BY <2>1, <2>2, <2>3, OthersKept, StageTurns DEF Book!Turn
  <2>5. Book!Publish(s)
    BY <1>0, <2>2, <2>4 DEF Book!Publish
  <2> QED
    BY <2>5 DEF Book!Next
<1>2. ASSUME NEW v \in Visits, CommitPatch(v) PROVE Book!Next \/ UNCHANGED Book!vars
  <2> DEFINE s == visit[v].sale
  <2>1. s \in Sales /\ sale' = [sale EXCEPT ![s] = Patched(sale[s], v)] /\ bought' = bought
    BY <1>0, <1>2, VisitBody DEF CommitPatch
  <2>2. Patched(sale[s], v).live = sale[s].live
    BY <1>0, <2>1, PatchedType
  <2>3. \A t \in Sales : at'[t] = at[t]
    BY <1>0, <1>2, LifecycleAssumption DEF CommitPatch, Move
  <2> QED
    BY <1>0, <2>1, <2>2, <2>3, SwitchOrStay
<1>3. ASSUME NEW d \in DOMAIN mail, CommitSync(d) PROVE Book!Next \/ UNCHANGED Book!vars
  <2> DEFINE s == mail[d].sale
  <2>0. d \in Deliveries /\ s \in Sales
    BY MailType
  <2>1. sale' = [sale EXCEPT ![s] = Synced(sale[s], d)] /\ bought' = bought
    BY <1>0, <1>3, <2>0 DEF CommitSync
  <2>2. Synced(sale[s], d).live = sale[s].live
    BY <1>0, <2>0 DEF Synced, SaleRow
  <2>3. \A t \in Sales : at'[t] = at[t]
    BY <1>0, <1>3, <2>0, LifecycleAssumption DEF CommitSync, Move
  <2> QED
    BY <1>0, <2>0, <2>1, <2>2, <2>3, SwitchOrStay
<1>4. ASSUME NEW v \in Visits, CommitDelete(v) PROVE Book!Next \/ UNCHANGED Book!vars
  <2> DEFINE s == visit[v].sale
  <2>1. /\ s \in Sales /\ sale' = [sale EXCEPT ![s] = [sale[s] EXCEPT !.live = FALSE]]
        /\ bought' = bought \ {r \in Buys : ask[r].sale = s}
    BY <1>0, <1>4, VisitBody DEF CommitDelete
  <2>2. at[v] = "dropped" /\ \A t \in Sales : at'[t] = at[t]
    BY <1>0, <1>4, LifecycleAssumption DEF CommitDelete, Move
  <2>3. at[s] = "created"
    BY <2>2 DEF CreatedFirst
  <2>4. \A t \in Sales : t # s => Stage'[t] = Stage[t]
    BY <2>1, <2>2, OthersKept
  <2>5. Stage'[s] = "gone"
    BY <1>0, <2>1, <2>2, <2>3 DEF Stage, SaleRow
  <2>6. CASE sale[s].live
    <3>1. Stage[s] \in {"on", "off"}
      BY <2>1, <2>6 DEF Stage
    <3>2. Book!Turn(s, "on", "gone") \/ Book!Turn(s, "off", "gone")
      BY <2>1, <2>4, <2>5, <3>1, StageTurns DEF Book!Turn
    <3>3. bought' = bought \ {r \in Buys : Wanted[r] = s}
      BY <2>1 DEF Wanted
    <3>4. Book!Withdraw(s)
      BY <1>0, <3>2, <3>3 DEF Book!Withdraw
    <3> QED
      BY <2>1, <3>4 DEF Book!Next
  <2>7. CASE ~sale[s].live
    <3>1. Stage[s] = "gone"
      BY <2>1, <2>3, <2>7 DEF Stage
    <3>2. bought' = bought
      BY <2>1, <2>7 DEF SaleThere, Refers
    <3> QED
      BY <1>0, <2>4, <2>5, <3>1, <3>2, StagesKept DEF Book!vars
  <2> QED
    BY <2>6, <2>7
<1>5. CASE /\ ~\E s \in Sales : CommitCreation(s)
           /\ ~\E v \in Visits : CommitPatch(v) \/ CommitDelete(v)
           /\ ~\E d \in DOMAIN mail : CommitSync(d)
  <2>1. \A s \in Sales : Stage'[s] = Stage[s]
    BY <1>5, RowSteps, CreatedSteps, StageKept
  <2>2. bought' = bought
    BY <1>5, RecordedKept
  <2> QED
    BY <1>0, <2>1, <2>2, StagesKept DEF Book!vars
<1> QED
  BY <1>1, <1>2, <1>3, <1>4, <1>5

Answering == InFlight \ {"authed"}

(* A step of one handler, as the book sees it. *)
LEMMA PendingIs ==
  ASSUME BuyersOK, NEW r \in Requests, NEW to, pc' = [pc EXCEPT ![r] = to]
  PROVE  /\ r \notin Buys => Pending' = Pending
         /\ r \in Buys /\ (pc[r] \in Answering <=> to \in Answering) => Pending' = Pending
         /\ r \in Buys /\ to \in Answering => Pending' = Pending \cup {r}
         /\ r \in Buys /\ to \notin Answering => Pending' = Pending \ {r}
<1>1. /\ pc'[r] = to /\ r \in DOMAIN pc
      /\ \A q \in Buys : q # r => pc'[q] = pc[q]
  BY DEF BuyersOK, Requests
<1> QED
  BY <1>1 DEF Pending, Answering

LEMMA GoIs ==
  ASSUME NEW r, NEW from, NEW to, Go(r, from, to)
  PROVE  pc[r] = from /\ pc' = [pc EXCEPT ![r] = to]
  BY DEF Go

(* What is done to requests: the stages of sales stay. *)
LEMMA BuyBook ==
  ASSUME LifeType, BuyersInv, SaleThere, UNCHANGED <<Stage, Wanted>>, NEW r \in Buys,
         BuyStep(r) \/ FlushGone(r)
  PROVE  Book!Next \/ UNCHANGED Book!vars
<1> USE DEF redis, postgres, locals
<1>0. /\ r \in Requests /\ BuyersOK /\ DoneRows
      /\ ask[r].sale \in Sales /\ Wanted[r] = ask[r].sale
      /\ r \in Pending <=> pc[r] \in Answering
  BY AskSale DEF BuyersInv, Wanted, Pending, Answering
<1> USE DEF Answering, InFlight, Holding
<1>1. CASE LoadSale(r)
  <2>1. pc[r] = "authed" /\ pc' = [pc EXCEPT ![r] = "loaded"]
    BY <1>1, GoIs DEF LoadSale
  <2>2. Stage[ask[r].sale] = "on" /\ bought' = bought
    BY <1>0, <1>1 DEF LoadSale, OnSale, Stage
  <2>3. Pending' = Pending \cup {r} /\ r \notin Pending
    BY <1>0, <2>1, PendingIs
  <2>4. r \notin bought
    BY <1>0, <2>1 DEF DoneRows
  <2>5. Book!Admit(r)
    BY <1>0, <2>2, <2>3, <2>4 DEF Book!Admit
  <2> QED
    BY <2>5 DEF Book!Next
<1>2. CASE Commit(r)
  <2>1. pc[r] = "marked" /\ pc' = [pc EXCEPT ![r] = "done"] /\ bought' = bought \cup {r}
    BY <1>2, GoIs DEF Commit
  <2>2. Pending' = Pending \ {r} /\ r \in Pending
    <3>1. "done" \notin Answering /\ "marked" \in Answering
      OBVIOUS
    <3> HIDE DEF Answering
    <3> QED
      BY <1>0, <2>1, <3>1, PendingIs
  <2>3. Stage[ask[r].sale] \in {"on", "off"}
    BY <1>0, <2>1 DEF SaleThere, Refers, Stage
  <2>4. Book!Record(r)
    BY <1>0, <2>1, <2>2, <2>3 DEF Book!Record, Book!Published
  <2> QED
    BY <2>4 DEF Book!Next
<1>3. ASSUME NEW to \in Stages, pc[r] \in Answering, pc' = [pc EXCEPT ![r] = to], bought' = bought
      PROVE  Book!Next \/ UNCHANGED Book!vars
  <2>1. CASE to \in Answering
    BY <1>0, <1>3, <2>1, PendingIs DEF Book!vars
  <2>2. CASE to \notin Answering
    <3>1. Book!Dismiss(r)
      BY <1>0, <1>3, <2>2, PendingIs DEF Book!Dismiss
    <3> QED
      BY <3>1 DEF Book!Next
  <2> QED
    BY <2>1, <2>2
<1>4. CASE TurnAway(r)
  <2>1. pc[r] = "authed" /\ pc' = [pc EXCEPT ![r] = "refused"] /\ bought' = bought
    BY <1>4, GoIs DEF TurnAway
  <2> QED
    BY <1>0, <2>1, PendingIs DEF Book!vars
<1>5. CASE CheckDaily(r) \/ CountRequest(r) \/ SetRateWindow(r) \/ TurnAwayPoor(r)
  BY <1>3, <1>5, StagesOf DEF CheckDaily, CountRequest, SetRateWindow, TurnAwayPoor, Go
<1>6. CASE DecrStock(r) \/ GiveBack(r) \/ MarkDaily(r)
  BY <1>3, <1>6, StagesOf DEF DecrStock, GiveBack, MarkDaily, Go
<1>7. CASE FlushUser(r) \/ FlushSale(r) \/ FlushGone(r)
  BY <1>3, <1>7, StagesOf DEF FlushUser, FlushSale, FlushGone, Go
<1> QED
  BY <1>1, <1>2, <1>4, <1>5, <1>6, <1>7 DEF BuyStep

LEMMA PurchaseBook ==
  ASSUME LifeType, BuyersInv, SaleThere, [SaleNext]_all,
         (Step /\ UNCHANGED lifecycle) \/ \E r \in Buys : FlushGone(r)
  PROVE  Book!Next \/ UNCHANGED Book!vars
<1>1. Stage' = Stage /\ Wanted' = Wanted
  <2>1. UNCHANGED <<at, ask>>
    BY BodiesKept DEF FlushGone, lifecycle
  <2> QED
    BY <2>1, StepKeepsRow, StageKept, StagesKept DEF Wanted
<1>2. ASSUME NEW r \in Buys, BuyStep(r) \/ FlushGone(r)
      PROVE  Book!Next \/ UNCHANGED Book!vars
  BY <1>1, <1>2, BuyBook
<1>3. BuyersOK
  BY DEF BuyersInv
<1>4. ASSUME NEW r \in Requests, Authenticate(r) PROVE UNCHANGED Book!vars
  <2>1. pc[r] = "idle" /\ pc' = [pc EXCEPT ![r] = "authed"] /\ bought' = bought
    BY <1>4, GoIs DEF Authenticate, postgres
  <2> QED
    BY <1>1, <1>3, <2>1, PendingIs DEF Book!vars, Answering, InFlight, Holding
<1>5. ASSUME NEW r \in TopUps, TopUpStep(r) PROVE UNCHANGED Book!vars
  <2>1. bought' = bought /\ \E to : pc' = [pc EXCEPT ![r] = to]
    BY <1>5, GoIs DEF TopUpStep, FlushTopUp, CommitTopUp
  <2>2. r \in Requests /\ r \notin Buys
    BY RequestsAssumption DEF Requests
  <2> QED
    BY <1>1, <1>3, <2>1, <2>2, PendingIs DEF Book!vars
<1>6. ASSUME NEW r \in MayFail, Fail(r) PROVE Book!Next \/ UNCHANGED Book!vars
  <2> DEFINE to == IF r \in Buys /\ pc[r] \in Holding THEN "lost" ELSE "failed"
  <2>1. /\ r \in Requests /\ bought' = bought /\ pc[r] \in InFlight
        /\ pc' = [pc EXCEPT ![r] = to] /\ to \notin Answering
    BY <1>6, RequestsAssumption DEF Fail, Answering, InFlight, Holding
  <2>2. CASE r \notin Buys \/ pc[r] = "authed"
    BY <1>1, <1>3, <2>1, <2>2, PendingIs DEF Book!vars, Answering
  <2>3. CASE r \in Buys /\ pc[r] # "authed"
    <3>1. r \in Pending /\ Pending' = Pending \ {r}
      BY <1>3, <2>1, <2>3, PendingIs DEF Pending
    <3>2. Book!Dismiss(r)
      BY <1>1, <2>1, <3>1 DEF Book!Dismiss
    <3> QED
      BY <2>3, <3>2 DEF Book!Next
  <2> QED
    BY <2>2, <2>3
<1>7. CASE Environment
  <2>1. UNCHANGED <<pc, bought>>
    BY <1>7 DEF Environment, Tick, RateWindowEnds, DailyKeyExpires, postgres
  <2> QED
    BY <1>1, <2>1 DEF Book!vars, Pending
<1> QED
  BY <1>2, <1>4, <1>5, <1>6, <1>7 DEF Step

(* Whatever the handlers, the tasks and the admins' requests do at the     *)
(* same time, a buyer sees the sales of SaleBook: published once, gone for *)
(* good with their purchases, and a purchase recorded once, of a request   *)
(* that found its sale on, while the sale was there.                       *)
THEOREM SalesAreABook == SaleSpec => ImplementsSaleBook
<1>1. SaleInit => Book!Init
  <2> SUFFICES ASSUME SaleInit PROVE Book!Init
    OBVIOUS
  <2>1. /\ \A s \in Sales : ~sale[s].live /\ at[s] = "new"
        /\ \A r \in Buys : pc[r] = "idle"
        /\ bought = {}
    BY LifecycleAssumption DEF SaleInit, Opening, Requests
  <2>2. Stage = [s \in Sales |-> "none"]
    BY <2>1 DEF Stage
  <2>3. Wanted \in [Buys -> Sales]
    BY LifeInit, AskSale DEF Wanted
  <2>4. Pending = {}
    BY <2>1 DEF Pending, InFlight, Holding
  <2> QED
    BY <2>1, <2>2, <2>3, <2>4 DEF Book!Init
<1>2. ASSUME LifeType, LifeType', CreatedFirst, CreatedFirst', BuyersInv, SaleThere, [SaleNext]_all
      PROVE  [Book!Next]_(Book!vars)
  BY <1>2, PurchaseBook, AdminBook
<1> QED
  BY <1>1, <1>2, LifeCorrect, CreatedFirstCorrect, BuyersCorrect, ThereCorrect, PTL
  DEF SaleSpec, ImplementsSaleBook, Book!Spec
=============================================================================
