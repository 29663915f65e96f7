------------------------ MODULE SaleHistory_proofs ------------------------
(***************************************************************************)
(* What the overlap check guarantees, and when units come back to a        *)
(* product twice: for any number of sales, products, requests, tasks and   *)
(* PATCHes, and any windows.                                               *)
(***************************************************************************)
EXTENDS SaleHistory, SaleLifecycle_proofs

-----------------------------------------------------------------------------
(* The history variables only watch. *)

LEMMA WatchOnly == HistorySpec => SaleSpec
<1>1. HistoryInit => SaleInit
  BY DEF HistoryInit
<1>2. [HistoryNext]_<<all, history>> => [SaleNext]_all
  BY DEF HistoryNext
<1> QED
  BY <1>1, <1>2, PTL DEF HistorySpec, SaleSpec

-----------------------------------------------------------------------------
(* A visit that is done stays done. *)
LEMMA DoneVisits ==
  ASSUME LifeType, NEW v \in Visits, [SaleNext]_all, at[v] = "done"
  PROVE  at'[v] = "done"
<1> USE DEF vars, lifecycle, all
<1>0. /\ at = [y \in Actors |-> at[y]]
      /\ v \in Actors /\ v \notin Sales \cup Deliveries
      /\ DOMAIN mail \subseteq Deliveries
  BY MailType, LifecycleAssumption DEF LifeType, BodiesOK, Actors
<1>1. ASSUME NEW s \in Sales, Create(s) PROVE at'[v] = "done"
  BY <1>0, <1>1
  DEF Create, CheckProduct, CheckOverlap, SeedStock, ScheduleSync, CommitCreation, Move
<1>2. ASSUME NEW w \in Visits, Visit(w) PROVE at'[v] = "done"
  BY <1>0, <1>2
  DEF Visit, LoadVisit, FlushPatch, Reschedule, CommitPatch, ReadCounter, CommitRead, DropKey,
      CommitDelete, Move
<1>3. ASSUME NEW d \in DOMAIN mail, Sync(d) \/ Retry(d) \/ WorkerDies(d) PROVE at'[v] = "done"
  BY <1>0, <1>3
  DEF Sync, ReadStock, DropStock, LoadSync, LoadProduct, FlushProduct, FlushSync, CommitSync,
      SyncGone, Retry, WorkerDies, Move
<1>4. ASSUME NEW x \in Sales \cup Visits, Break(x) PROVE at'[v] = "done"
  BY <1>0, <1>4 DEF Break, Settled
<1>5. ASSUME NEW r \in Buys, FlushGone(r) PROVE at'[v] = "done"
  BY <1>5 DEF FlushGone
<1> QED
  BY <1>1, <1>2, <1>3, <1>4, <1>5
  DEF SaleNext, Over, Redeliver, Restock, DropProduct

LEMMA MovedForGood ==
  ASSUME LifeType, NEW s \in Sales, [SaleNext]_all, Moved(s)
  PROVE  Moved(s)'
  BY BodiesKept, DoneVisits DEF Moved

(* No step but the commit of a PATCH that names it changes a window. *)
SameWindow(s) == sale'[s].opens = sale[s].opens /\ sale'[s].closes = sale[s].closes

LEMMA WindowSteps ==
  ASSUME LifeType, NEW s \in Sales, [SaleNext]_all
  PROVE  SameWindow(s) \/ Moved(s)'
<1> USE DEF redis, postgres, vars, buyers, lifecycle, all
<1>0. sale \in [Sales -> SaleRow]
  BY DEF LifeType, SaleTypeOK
<1>1. ASSUME NEW t \in Sales, Create(t) PROVE SameWindow(s)
  BY <1>0, <1>1
  DEF Create, CheckProduct, CheckOverlap, SeedStock, ScheduleSync, CommitCreation, SameWindow,
      SaleRow
<1>2. ASSUME NEW v \in Visits, Visit(v), ~CommitPatch(v) PROVE SameWindow(s)
  <2>0. visit[v].sale \in Sales
    BY VisitBody
  <2> QED
    BY <1>0, <1>2, <2>0
    DEF Visit, LoadVisit, FlushPatch, Reschedule, ReadCounter, CommitRead, DropKey,
        CommitDelete, SameWindow, SaleRow
<1>3. ASSUME NEW v \in Visits, CommitPatch(v) PROVE SameWindow(s) \/ Moved(s)'
  <2>0. /\ visit[v].sale \in Sales /\ v \in Actors /\ at = [y \in Actors |-> at[y]]
        /\ visit' = visit
    BY <1>3, VisitBody DEF CommitPatch, LifeType, BodiesOK
  <2>1. CASE visit[v].sale # s
    BY <1>0, <1>3, <2>1 DEF CommitPatch, SameWindow
  <2>2. CASE visit[v].sale = s /\ Dirty(v) \cap {"opens", "closes"} = {}
    BY <1>0, <1>3, <2>2 DEF CommitPatch, Patched, SameWindow, SaleRow
  <2>3. CASE visit[v].sale = s /\ Dirty(v) \cap {"opens", "closes"} # {}
    <3>1. DOMAIN visit[v].change \cap {"opens", "closes"} # {}
      BY <2>3 DEF Dirty
    <3>2. at'[v] = "done"
      BY <1>3, <2>0 DEF CommitPatch, Move
    <3> QED
      BY <2>0, <2>3, <3>1, <3>2 DEF Moved
  <2> QED
    BY <2>1, <2>2, <2>3
<1>4. ASSUME NEW d \in DOMAIN mail, Sync(d) \/ Retry(d) PROVE SameWindow(s)
  <2>1. CASE CommitSync(d)
    <3>1. mail[d].sale \in Sales
      BY MailType
    <3>2. sale' = [sale EXCEPT ![mail[d].sale] = Synced(sale[mail[d].sale], d)]
      BY <2>1 DEF CommitSync
    <3>3. \A w \in SaleRow : Synced(w, d).opens = w.opens /\ Synced(w, d).closes = w.closes
      BY DEF Synced, SaleRow
    <3> QED
      BY <1>0, <3>1, <3>2, <3>3 DEF SameWindow
  <2> QED
    BY <1>4, <2>1
    DEF Sync, ReadStock, DropStock, LoadSync, LoadProduct, FlushProduct, FlushSync, SyncGone,
        Retry, SameWindow
<1>5. ASSUME Step \/ \E r \in Buys : FlushGone(r) PROVE SameWindow(s)
  <2>1. ASSUME NEW r \in Buys, Commit(r) PROVE SameWindow(s)
    <3>1. \/ sale' = sale
          \/ sale' = [sale EXCEPT ![ask[r].sale].remaining = left[r]]
      BY <2>1 DEF Commit
    <3> QED
      BY <1>0, <3>1 DEF SameWindow, SaleRow
  <2>2. UNCHANGED sale \/ \E r \in Buys : Commit(r)
    BY <1>5
    DEF Step, BuyStep, TopUpStep, Environment, Authenticate, LoadSale, TurnAway,
        CheckDaily, CountRequest, SetRateWindow, TurnAwayPoor, DecrStock, GiveBack, FlushUser,
        FlushSale, MarkDaily, FlushTopUp, CommitTopUp, Fail, Tick, RateWindowEnds,
        DailyKeyExpires, FlushGone
  <2> QED
    BY <2>1, <2>2 DEF SameWindow
<1>6. ASSUME UNCHANGED sale PROVE SameWindow(s)
  BY <1>6 DEF SameWindow
<1> QED
  BY <1>1, <1>2, <1>3, <1>4, <1>5, <1>6
  DEF SaleNext, Over, Break, WorkerDies, Redeliver, Restock, DropProduct

-----------------------------------------------------------------------------
(* A window no PATCH has set is the one of the POST, and a creation that   *)
(* passed its check found none that meets its own.                         *)
AsCreated ==
  \A s \in Sales : Moved(s) \/ (sale[s].opens = Opens[s] /\ sale[s].closes = Closes[s])
FoundApart ==
  \A s, t \in Sales :
    s \in found[t] /\ ProductOf[s] = ProductOf[t] /\ ~Moved(s)
      => ~(Opens[s] < Closes[t] /\ Closes[s] > Opens[t])
OverlapInv == AsCreated /\ FoundApart

LEMMA OverlapStep ==
  LifeType /\ OverlapInv /\ [HistoryNext]_<<all, history>> => OverlapInv'
<1> SUFFICES ASSUME LifeType, OverlapInv, [HistoryNext]_<<all, history>> PROVE OverlapInv'
  OBVIOUS
<1>0. [SaleNext]_all
  BY DEF HistoryNext
<1>k. at = [y \in Actors |-> at[y]] /\ Sales \subseteq Actors
  BY DEF LifeType, BodiesOK, Actors
<1>f. ASSUME NEW t \in Sales, found'[t] # found[t]
      PROVE  at[t] = "priced" /\ at'[t] = "clear" /\ found'[t] = {s \in Sales : sale[s].live}
  <2>1. UNCHANGED found
          \/ found' = [s \in Sales |-> IF at[s] = "priced" /\ at'[s] = "clear"
                                       THEN {u \in Sales : sale[u].live} ELSE found[s]]
    BY DEF HistoryNext, history
  <2> QED
    BY <1>f, <2>1
<1>1. AsCreated'
  BY <1>0, MovedForGood, WindowSteps DEF OverlapInv, AsCreated, SameWindow
<1>2. ASSUME NEW s \in Sales, NEW t \in Sales, s \in found'[t], ProductOf[s] = ProductOf[t],
             ~Moved(s)'
      PROVE  ~(Opens[s] < Closes[t] /\ Closes[s] > Opens[t])
  <2>0. ~Moved(s)
    BY <1>0, <1>2, MovedForGood
  <2>1. CASE s \in found[t]
    BY <1>2, <2>0, <2>1 DEF OverlapInv, FoundApart
  <2>2. CASE s \notin found[t]
    <3>1. at[t] = "priced" /\ at'[t] = "clear" /\ sale[s].live
      BY <1>2, <2>2, <1>f
    <3>2. Create(t)
      BY <1>0, <3>1, PlaceSteps
    <3>3. Clashes(t) = {}
      BY <1>k, <3>1, <3>2
      DEF Create, CheckProduct, CheckOverlap, SeedStock, ScheduleSync, CommitCreation, Move
    <3>4. ~(sale[s].opens < Closes[t] /\ sale[s].closes > Opens[t])
      BY <1>2, <3>1, <3>3 DEF Clashes
    <3>5. sale[s].opens = Opens[s] /\ sale[s].closes = Closes[s]
      BY <2>0 DEF OverlapInv, AsCreated
    <3> QED
      BY <3>4, <3>5
  <2> QED
    BY <2>1, <2>2
<1>3. FoundApart'
  BY <1>2 DEF FoundApart
<1> QED
  BY <1>1, <1>3 DEF OverlapInv

(* However many sales of a product are created, changed, closed and        *)
(* deleted, and whatever their windows: the check of a creation lets two   *)
(* windows of one product meet only when the creations ran at once.        *)
THEOREM OverlapsAreRaces == HistorySpec => []OverlapNeedsRace
<1>1. HistoryInit => OverlapInv
  BY DEF HistoryInit, SaleInit, Opening, OverlapInv, AsCreated, FoundApart
<1>2. LifeType /\ OverlapInv => OverlapNeedsRace
  <2> SUFFICES ASSUME OverlapInv,
                      NEW s \in Sales, NEW t \in Sales, Meet(s, t), ~Moved(s), ~Moved(t)
               PROVE  s \notin found[t] /\ t \notin found[s]
    BY DEF OverlapNeedsRace
  <2>1. /\ sale[s].opens = Opens[s] /\ sale[s].closes = Closes[s]
        /\ sale[t].opens = Opens[t] /\ sale[t].closes = Closes[t]
    BY DEF OverlapInv, AsCreated
  <2>2. /\ Opens[s] \in Nat /\ Closes[s] \in Nat /\ Opens[t] \in Nat /\ Closes[t] \in Nat
    BY ValuesAssumption
  <2>3. ProductOf[s] = ProductOf[t] /\ Opens[s] < Closes[t] /\ Opens[t] < Closes[s]
    BY <2>1 DEF Meet
  <2> QED
    BY <2>2, <2>3 DEF OverlapInv, FoundApart
<1> QED
  BY <1>1, <1>2, WatchOnly, LifeCorrect, OverlapStep, PTL DEF HistorySpec

-----------------------------------------------------------------------------
(* What a step does to the counter of a sale, and who makes a message.     *)

LEMMA CounterSteps ==
  ASSUME LifeType, NEW s \in Sales, [SaleNext]_all
  PROVE  \/ StockOf(s)' \in Int /\ StockOf(s)' <= StockOf(s)
         \/ StockOf(s)' = 0
         \/ SeedStock(s)
         \/ \E r \in Buys : ask[r].sale = s /\ GiveBack(r)
<1> USE DEF redis, vars, buyers, lifecycle, all
<1> DEFINE Falls == (StockOf(s)' \in Int /\ StockOf(s)' <= StockOf(s)) \/ StockOf(s)' = 0
<1>0. StockOf(s) \in Int
  BY StockType
<1>1. ASSUME UNCHANGED stock PROVE Falls
  <2>1. StockOf(s)' = StockOf(s)
    BY <1>1 DEF StockOf
  <2> QED
    BY <1>0, <2>1
<1>2. ASSUME NEW t, DropCounter(t) PROVE Falls
  <2>1. CASE s = t
    BY <1>2, <2>1 DEF DropCounter, StockOf
  <2>2. CASE s # t
    <3>1. StockOf(s)' = StockOf(s)
      BY <1>2, <2>2, StockOfSteps
    <3> QED
      BY <1>0, <3>1
  <2> QED
    BY <2>1, <2>2
<1>3. ASSUME NEW t \in Sales, Create(t) PROVE Falls \/ SeedStock(s)
  <2>1. CASE SeedStock(t) /\ s # t
    <3>1. StockOf(s)' = StockOf(s)
      BY <2>1, StockOfSteps DEF SeedStock, StockOf
    <3> QED
      BY <1>0, <3>1
  <2>2. CASE SeedStock(t) /\ s = t
    BY <2>2
  <2>3. CASE ~SeedStock(t)
    BY <1>1, <1>3, <2>3
    DEF Create, CheckProduct, CheckOverlap, ScheduleSync, CommitCreation
  <2> QED
    BY <2>1, <2>2, <2>3
<1>4. ASSUME NEW v \in Visits, Visit(v) PROVE Falls
  <2>1. CASE DropKey(v)
    BY <1>2, <2>1 DEF DropKey
  <2>2. CASE ~DropKey(v)
    BY <1>1, <1>4, <2>2
    DEF Visit, LoadVisit, FlushPatch, Reschedule, CommitPatch, ReadCounter, CommitRead,
        CommitDelete
  <2> QED
    BY <2>1, <2>2
<1>5. ASSUME NEW d \in DOMAIN mail, Sync(d) \/ Retry(d) \/ WorkerDies(d) PROVE Falls
  <2>1. CASE DropStock(d)
    BY <1>2, <2>1 DEF DropStock
  <2>2. CASE ~DropStock(d)
    BY <1>1, <1>5, <2>2
    DEF Sync, ReadStock, LoadSync, LoadProduct, FlushProduct, FlushSync, CommitSync, SyncGone,
        Retry, WorkerDies
  <2> QED
    BY <2>1, <2>2
<1>6. ASSUME Step \/ \E r \in Buys : FlushGone(r)
      PROVE  Falls \/ \E r \in Buys : ask[r].sale = s /\ GiveBack(r)
  <2>1. ASSUME NEW r \in Buys, ask[r].sale = s, DecrStock(r) PROVE Falls
    <3>1. ask[r].quantity \in Nat
      BY ValuesAssumption DEF LifeType, HandlersOK, AskOK
    <3>2. StockOf(s)' = StockOf(s) - ask[r].quantity
      BY <2>1, StockOfSteps DEF DecrStock
    <3> QED
      BY <1>0, <3>1, <3>2
  <2>2. CASE Still(s)
    BY <1>0, <2>2 DEF Still
  <2> QED
    BY <1>6, <2>1, <2>2, PurchaseCounts DEF Moves
<1> QED
  BY <1>1, <1>3, <1>4, <1>5, <1>6
  DEF SaleNext, Over, Break, Redeliver, Restock, DropProduct

LEMMA MailMade ==
  ASSUME LifeType, NEW d \in DOMAIN mail' \ DOMAIN mail, [SaleNext]_all
  PROVE  \/ \E s \in Sales : ScheduleSync(s) /\ mail'[d].sale = s
         \/ \E v \in Visits : Reschedule(v) /\ mail'[d].sale = visit[v].sale
         \/ \E j \in DOMAIN mail : mail'[d].sale = mail[j].sale
<1> USE DEF vars, lifecycle, all
<1> DEFINE None == DOMAIN mail' = DOMAIN mail
<1>1. ASSUME NEW s, NEW eta, Send(s, eta) PROVE mail'[d].sale = s
  BY <1>1 DEF Send, With
<1>2. ASSUME NEW s \in Sales, Create(s) PROVE None \/ (ScheduleSync(s) /\ mail'[d].sale = s)
  BY <1>1, <1>2
  DEF Create, CheckProduct, CheckOverlap, SeedStock, ScheduleSync, CommitCreation
<1>3. ASSUME NEW v \in Visits, Visit(v)
      PROVE  None \/ (Reschedule(v) /\ mail'[d].sale = visit[v].sale)
  BY <1>1, <1>3
  DEF Visit, LoadVisit, FlushPatch, Reschedule, CommitPatch, ReadCounter, CommitRead, DropKey,
      CommitDelete
<1>4. ASSUME NEW e \in DOMAIN mail, Sync(e) \/ Retry(e) \/ WorkerDies(e) PROVE None
  BY <1>4
  DEF Sync, ReadStock, DropStock, LoadSync, LoadProduct, FlushProduct, FlushSync, CommitSync,
      SyncGone, Retry, WorkerDies
<1>5. ASSUME NEW e \in Echoes, Redeliver(e)
      PROVE  \E j \in DOMAIN mail : mail'[d].sale = mail[j].sale
  BY <1>5 DEF Redeliver, With
<1> QED
  BY <1>2, <1>3, <1>4, <1>5 DEF SaleNext, FlushGone, Over, Break, Restock, DropProduct

LEMMA EarlyKept ==
  ASSUME LifeType, NEW s \in Sales, [SaleNext]_all, ~Early(s)
  PROVE  ~Early(s)'
<1>0. at = [y \in Actors |-> at[y]] /\ s \in Actors
  BY DEF LifeType, BodiesOK, Actors
<1>1. CASE Create(s)
  BY <1>0, <1>1
  DEF Create, CheckProduct, CheckOverlap, SeedStock, ScheduleSync, CommitCreation, Move, Early
<1> QED
  BY <1>1, PlaceSteps DEF Early

-----------------------------------------------------------------------------
(* When a counter has been removed, and who has read it before.            *)

(* Where a delivery is that has removed the counter and was not retried. *)
Past == {"dropped", "found", "loaded", "shelved", "flushed", "done"}

LEMMA PastSteps ==
  ASSUME LifeType, NEW d \in Deliveries, [SaleNext]_all
  PROVE  /\ Removes(d) => d \in DOMAIN mail /\ DropStock(d)
         /\ Reads(d) => d \in DOMAIN mail /\ ReadStock(d)
         /\ at'[d] \in Past => at[d] \in Past \/ Removes(d)
         /\ at'[d] = "read" => at[d] = "read" \/ Reads(d)
         /\ ~Reads(d) => seen'[d].count = seen[d].count
<1>0. /\ at = [y \in Actors |-> at[y]] /\ d \in Actors
      /\ seen \in [Visits \cup Deliveries -> [count : Int, shelf : Nat]]
  BY DEF LifeType, BodiesOK, Actors
<1>1. CASE Handled(d)
  <2>1. CASE ReadStock(d) \/ DropStock(d)
    BY <1>0, <1>1, <2>1 DEF Handled, ReadStock, DropStock, Move, Reads, Removes, Past
  <2>2. CASE LoadSync(d) \/ LoadProduct(d)
    BY <1>0, <2>2 DEF LoadSync, LoadProduct, Move, Reads, Removes, Past
  <2>3. CASE FlushProduct(d) \/ FlushSync(d) \/ CommitSync(d)
    BY <1>0, <2>3 DEF FlushProduct, FlushSync, CommitSync, Move, Reads, Removes, Past
  <2>4. CASE Retry(d) \/ WorkerDies(d)
    BY <1>0, <2>4 DEF Retry, WorkerDies, Reads, Removes, Past
  <2> QED
    BY <1>1, <2>1, <2>2, <2>3, <2>4 DEF Handled, Sync, SyncGone
<1>2. CASE at'[d] = at[d] /\ seen'[d] = seen[d]
  BY <1>2 DEF Reads, Removes, Past
<1> QED
  BY <1>1, <1>2, DeliverySteps

LEMMA VisitRemoves ==
  ASSUME LifeType, NEW v \in Visits, [SaleNext]_all, Removes(v)
  PROVE  DropKey(v)
<1> USE DEF vars, lifecycle, all
<1>0. /\ at = [y \in Actors |-> at[y]]
      /\ v \in Actors /\ v \notin Sales \cup Deliveries
      /\ DOMAIN mail \subseteq Deliveries
      /\ at'[v] # at[v] /\ at'[v] = "dropped"
  BY MailType, LifecycleAssumption DEF LifeType, BodiesOK, Actors, Removes
<1>1. ASSUME NEW s \in Sales, Create(s) PROVE FALSE
  BY <1>0, <1>1
  DEF Create, CheckProduct, CheckOverlap, SeedStock, ScheduleSync, CommitCreation, Move
<1>2. ASSUME NEW w \in Visits, Visit(w) PROVE DropKey(v)
  BY <1>0, <1>2
  DEF Visit, LoadVisit, FlushPatch, Reschedule, CommitPatch, ReadCounter, CommitRead, DropKey,
      CommitDelete, Move
<1>3. ASSUME NEW d \in DOMAIN mail, Sync(d) \/ Retry(d) \/ WorkerDies(d) PROVE FALSE
  BY <1>0, <1>3
  DEF Sync, ReadStock, DropStock, LoadSync, LoadProduct, FlushProduct, FlushSync, CommitSync,
      SyncGone, Retry, WorkerDies, Move
<1>4. ASSUME NEW x \in Sales \cup Visits, Break(x) PROVE FALSE
  BY <1>0, <1>4 DEF Break
<1>5. ASSUME NEW r \in Buys, FlushGone(r) PROVE FALSE
  BY <1>0, <1>5 DEF FlushGone
<1> QED
  BY <1>0, <1>1, <1>2, <1>3, <1>4, <1>5 DEF SaleNext, Over, Redeliver, Restock, DropProduct

(* A counter that was removed holds nothing until a purchase is            *)
(* compensated; who is past the removal has removed it; and two that carry *)
(* units of one sale have read it together, or late.                       *)
TwiceInv ==
  /\ \A d \in DOMAIN mail : ~Early(mail[d].sale)
  /\ \A s \in cleared : s \in Sales /\ ~Early(s) /\ (s \in late \/ StockOf(s) <= 0)
  /\ \A d \in DOMAIN mail : at[d] \in Past => mail[d].sale \in cleared
  /\ \A d, e \in DOMAIN mail :
       at[d] \in Past \cup {"read"} /\ at[e] \in Past \cup {"read"} /\ GivenTwice(d, e)
         => Explained(d, e)

LEMMA ClearedSteps ==
  ASSUME LifeType, CreatedFirst, TwiceInv, [SaleNext]_all, NEW s \in Cleared
  PROVE  s \in Sales /\ ~Early(s) /\ StockOf(s)' = 0
<1>1. ASSUME NEW t, DropCounter(t) PROVE StockOf(t)' = 0
  BY <1>1 DEF DropCounter, StockOf
<1>2. ASSUME NEW d \in DOMAIN mail, Removes(d), s = mail[d].sale
      PROVE  s \in Sales /\ ~Early(s) /\ StockOf(s)' = 0
  BY <1>1, <1>2, MailType, PastSteps DEF TwiceInv, DropStock
<1>3. ASSUME NEW v \in Visits, Removes(v), s = visit[v].sale
      PROVE  s \in Sales /\ ~Early(s) /\ StockOf(s)' = 0
  <2>1. DropKey(v) /\ at[v] = "loaded"
    BY <1>3, VisitRemoves DEF DropKey, Move
  <2>2. at[s] = "created"
    BY <1>3, <2>1 DEF CreatedFirst
  <2> QED
    BY <1>1, <1>3, <2>1, <2>2, VisitBody DEF DropKey, Early
<1> QED
  BY <1>2, <1>3 DEF Cleared

(* What a step adds to the history, the stuttering one included. *)
LEMMA HistorySteps ==
  ASSUME [HistoryNext]_<<all, history>>
  PROVE  /\ cleared' = cleared \cup Cleared
         /\ late \subseteq late'
         /\ \A r \in Buys : GivesBack(r) /\ ask[r].sale \in cleared => ask[r].sale \in late'
         /\ \A d \in Deliveries :
              raced'[d] = IF Reads(d) THEN Reading(mail[d].sale)
                          ELSE {e \in raced[d] : ~Reads(e)}
<1>1. CASE HistoryNext
  BY <1>1 DEF HistoryNext
<1>2. CASE UNCHANGED <<all, history>>
  <2>1. UNCHANGED <<at, pc, cleared, late, raced>>
    BY <1>2 DEF all, vars, postgres, redis, lifecycle, history, locals
  <2>2. /\ \A x : ~Reads(x) /\ ~Removes(x)
        /\ \A r : ~GivesBack(r)
    BY <2>1 DEF Reads, Removes, GivesBack
  <2>3. Cleared = {}
    BY <2>2 DEF Cleared
  <2>4. \A d : raced[d] = {e \in raced[d] : ~Reads(e)}
    BY <2>2
  <2> QED
    BY <2>1, <2>2, <2>3, <2>4
<1> QED
  BY <1>1, <1>2

LEMMA TwiceStep ==
  ASSUME LifeType, CreatedFirst, ShelfInv, TwiceInv, [HistoryNext]_<<all, history>>
  PROVE  TwiceInv'
<1>0. [SaleNext]_all
  BY DEF HistoryNext
<1>m. DOMAIN mail \subseteq Deliveries /\ \A d \in DOMAIN mail : mail[d].sale \in Sales
  BY MailType
<1>n. at = [y \in Actors |-> at[y]] /\ Deliveries \subseteq Actors
  BY DEF LifeType, BodiesOK, Actors
<1>t. DOMAIN mail' \subseteq Deliveries
  BY <1>0, LifeStep DEF LifeType, SaleTypeOK
(* A message that is new is waiting. *)
<1>w. ASSUME NEW d \in DOMAIN mail', at'[d] \in Past \cup {"read"} PROVE d \in DOMAIN mail
  BY <1>0, <1>t, <1>w, DeliverySteps DEF ShelfInv, Handled, Past
<1>1. (\A d \in DOMAIN mail : ~Early(mail[d].sale))'
  <2> SUFFICES ASSUME NEW d \in DOMAIN mail', NEW s, s = mail'[d].sale PROVE ~Early(s)'
    BY DEF Early
  <2>1. CASE d \in DOMAIN mail
    <3>1. s \in Sales /\ ~Early(s)
      BY <1>0, <1>m, <2>1, MailKept DEF TwiceInv
    <3> QED
      BY <1>0, <3>1, EarlyKept
  <2>2. CASE s \in Sales /\ ScheduleSync(s)
    BY <1>n, <2>2 DEF ScheduleSync, Move, Early, Actors
  <2>3. ASSUME NEW v \in Visits, Reschedule(v), s = visit[v].sale PROVE ~Early(s)'
    <3>1. s \in Sales /\ at[s] = "created"
      BY <2>3, VisitBody DEF Reschedule, Move, CreatedFirst
    <3> QED
      BY <1>0, <3>1, CreatedSteps DEF Early
  <2>4. ASSUME NEW j \in DOMAIN mail, s = mail[j].sale PROVE ~Early(s)'
    <3>1. s \in Sales /\ ~Early(s)
      BY <1>m, <2>4 DEF TwiceInv
    <3> QED
      BY <1>0, <3>1, EarlyKept
  <2> QED
    BY <1>0, <2>1, <2>2, <2>3, <2>4, MailMade
<1>2. ASSUME NEW s \in cleared'
      PROVE  s \in Sales /\ ~Early(s)' /\ (s \in late' \/ StockOf(s)' <= 0)
  <2>1. CASE s \in Cleared
    BY <1>0, <2>1, ClearedSteps, EarlyKept
  <2>2. CASE s \in cleared
    <3>1. s \in Sales /\ ~Early(s) /\ (s \in late \/ StockOf(s) <= 0)
      BY <2>2 DEF TwiceInv
    <3>2. ASSUME NEW r \in Buys, ask[r].sale = s, GiveBack(r) PROVE s \in late'
      <4>1. GivesBack(r)
        BY <3>2, AskSale DEF GiveBack, Go, GivesBack, LifeType, HandlersOK
      <4> QED
        BY <2>2, <3>2, <4>1, HistorySteps
    <3>3. ~SeedStock(s)
      BY <3>1 DEF SeedStock, Move, Early
    <3>4. StockOf(s) \in Int
      BY <3>1, StockType
    <3> QED
      BY <1>0, <3>1, <3>2, <3>3, <3>4, CounterSteps, EarlyKept, HistorySteps
  <2> QED
    BY <2>1, <2>2, HistorySteps
<1>3. ASSUME NEW d \in DOMAIN mail', at'[d] \in Past PROVE mail'[d].sale \in cleared'
  <2>1. d \in DOMAIN mail /\ mail'[d].sale = mail[d].sale
    BY <1>0, <1>3, <1>w, MailKept
  <2>2. CASE at[d] \in Past
    BY <2>1, <2>2, HistorySteps DEF TwiceInv
  <2>3. CASE Removes(d)
    BY <2>1, <2>3, HistorySteps DEF Cleared
  <2> QED
    BY <1>0, <1>3, <1>m, <2>1, <2>2, <2>3, PastSteps
(* The reader finds units only in a counter nobody has removed, so that    *)
(* the other one is still between GET and DEL.                             *)
<1>4. ASSUME NEW d \in DOMAIN mail, NEW e \in DOMAIN mail, Reads(d),
             at'[e] \in Past \cup {"read"}, GivenTwice(d, e)'
      PROVE  e \in raced'[d] \/ mail[d].sale \in late
  <2>1. ReadStock(d) /\ mail[d].sale \in Sales /\ e # d /\ mail[e].sale = mail[d].sale
    BY <1>0, <1>4, <1>m, MailKept, PastSteps DEF GivenTwice
  <2>2. StockOf(mail[d].sale) > 0
    <3>1. seen \in [Visits \cup Deliveries -> [count : Int, shelf : Nat]]
      BY DEF LifeType, BodiesOK
    <3>2. seen'[d].count = IF StockOf(mail[d].sale) < 0 THEN 0 ELSE StockOf(mail[d].sale)
      BY <1>m, <2>1, <3>1 DEF ReadStock
    <3>3. seen'[d].count > 0 /\ StockOf(mail[d].sale) \in Int
      BY <1>4, <2>1, StockType DEF GivenTwice
    <3> QED
      BY <3>2, <3>3
  <2>3. mail[d].sale \notin cleared \/ mail[d].sale \in late
    BY <2>1, <2>2, StockType DEF TwiceInv
  <2>4. at'[e] = at[e]
    BY <1>n, <1>m, <2>1 DEF ReadStock, Move
  <2>5. CASE at[e] = "read"
    BY <1>4, <1>m, <2>1, <2>5, HistorySteps DEF Reading
  <2>6. CASE at[e] \in Past
    BY <2>1, <2>3, <2>6 DEF TwiceInv
  <2> QED
    BY <1>4, <2>4, <2>5, <2>6
<1>5. ASSUME NEW d \in DOMAIN mail', NEW e \in DOMAIN mail',
             at'[d] \in Past \cup {"read"}, at'[e] \in Past \cup {"read"}, GivenTwice(d, e)'
      PROVE  Explained(d, e)'
  <2>1. /\ d \in DOMAIN mail /\ mail'[d].sale = mail[d].sale
        /\ e \in DOMAIN mail /\ mail'[e].sale = mail[e].sale
        /\ d \in Deliveries /\ e \in Deliveries
    BY <1>0, <1>5, <1>m, <1>w, MailKept
  <2>2. CASE Reads(d)
    BY <1>4, <1>5, <2>1, <2>2, HistorySteps DEF Explained
  <2>3. CASE Reads(e)
    <3>1. GivenTwice(e, d)'
      BY <1>5 DEF GivenTwice
    <3>2. d \in raced'[e] \/ mail[e].sale \in late
      BY <1>4, <1>5, <2>1, <2>3, <3>1
    <3>3. mail[e].sale = mail'[d].sale
      BY <1>5, <2>1 DEF GivenTwice
    <3> QED
      BY <3>2, <3>3, HistorySteps DEF Explained
  <2>4. CASE ~Reads(d) /\ ~Reads(e)
    <3>1. at[d] \in Past \cup {"read"} /\ at[e] \in Past \cup {"read"}
      BY <1>0, <1>5, <2>1, <2>4, PastSteps DEF Removes, Past
    <3>2. GivenTwice(d, e)
      BY <1>0, <1>5, <2>1, <2>4, PastSteps DEF GivenTwice
    <3>3. Explained(d, e)
      BY <2>1, <3>1, <3>2 DEF TwiceInv
    <3> QED
      BY <2>1, <2>4, <3>3, HistorySteps DEF Explained
  <2> QED
    BY <2>2, <2>3, <2>4
<1>6. (\A s \in cleared : s \in Sales /\ ~Early(s) /\ (s \in late \/ StockOf(s) <= 0))'
  BY <1>2
<1>7. (\A d \in DOMAIN mail : at[d] \in Past => mail[d].sale \in cleared)'
  BY <1>3 DEF Past
<1>8. (\A d, e \in DOMAIN mail :
         at[d] \in Past \cup {"read"} /\ at[e] \in Past \cup {"read"} /\ GivenTwice(d, e)
           => Explained(d, e))'
  BY <1>5 DEF Past
<1> QED
  BY <1>1, <1>6, <1>7, <1>8 DEF TwiceInv

(* The stock of a product is a value it was set to and the units of some   *)
(* finished tasks, each once.  Two tasks of one sale are both among them   *)
(* only if one read the counter between the GET and the DEL of the other,  *)
(* or if a purchase in flight was compensated after the counter was gone:  *)
(* tasks that were retried, rescheduled or delivered again and run one     *)
(* after the other give no unit back twice.                                *)
THEOREM ShelfIsAccounted == HistorySpec => []ShelfAccounts
<1>1. HistoryInit => TwiceInv
  BY DEF HistoryInit, SaleInit, TwiceInv
<1>2. ShelfInv /\ TwiceInv => ShelfAccounts
  <2> SUFFICES ASSUME ShelfInv, TwiceInv, NEW p \in Products
               PROVE  \E n \in {Stocked[p]} \cup Restocks, D \in SUBSET GivenBack(p) :
                        /\ shelf[p] = n + Returned(D)
                        /\ \A d, e \in D : GivenTwice(d, e) => Explained(d, e)
    BY DEF ShelfAccounts
  <2>1. PICK n \in {Stocked[p]} \cup Restocks, D \in SUBSET GivenBack(p) :
          shelf[p] = n + Returned(D)
    BY DEF ShelfInv, ShelfSums, Reached
  <2>2. \A d, e \in D : GivenTwice(d, e) => Explained(d, e)
    BY DEF TwiceInv, GivenBack, Past
  <2> QED
    BY <2>1, <2>2
<1> QED
  BY <1>1, <1>2, WatchOnly, LifeCorrect, CreatedFirstCorrect, ShelfCorrect, TwiceStep, PTL
  DEF HistorySpec
=============================================================================
