---------------------------- MODULE SaleLifecycle ----------------------------
(***************************************************************************)
(* The life of flash sales around the purchases: POST, PATCH, GET and      *)
(* DELETE on /flash-sales, PATCH of a product's stock and its DELETE, and  *)
(* the Celery task sync_product_stock_after_sale, which empties the        *)
(* counter of a sale back into its product.                                *)
(*                                                                         *)
(* Every sale of Sales is created by one POST; its body is Price, Total,   *)
(* Opens, Closes and ProductOf.  Purchases run as in module Purchase.      *)
(***************************************************************************)
EXTENDS Purchase

CONSTANTS
  Products,
  ProductOf,    \* the product a sale is for
  Stocked,      \* products.stock at the start
  Restocks,     \* the values an admin may set products.stock to
  Droppable,    \* the products an admin may delete
  Visits,       \* identities of PATCH, GET and DELETE requests
  Methods,      \* the methods among them: "patch", "get", "delete"
  Patches,      \* the bodies of PATCH: records of the fields they set
  Jobs,         \* identities of the task messages the API may send
  Echoes,       \* identities of the messages the broker may deliver again
  MaxRetries,   \* max_retries of the task
  MayBreak      \* creations, visits and deliveries that may fail half way

Deliveries == Jobs \cup Echoes
NoChange == [f \in {} |-> 0]
NoRow == [live |-> FALSE, active |-> FALSE, price |-> 0, remaining |-> 0,
          opens |-> 0, closes |-> 0]

ASSUME LifecycleAssumption ==
  /\ ProductOf \in [Sales -> Products]
  /\ Stocked \in [Products -> Nat]
  /\ Restocks \subseteq Nat
  /\ Droppable \subseteq Products
  /\ Methods \subseteq {"patch", "get", "delete"}
  /\ Jobs \cap Echoes = {}
  /\ MaxRetries \in Nat
  /\ MayBreak \subseteq Sales \cup Visits \cup Deliveries
  /\ NoOne \notin Visits \cup Deliveries
  /\ Sales \cap (Visits \cup Deliveries) = {} /\ Visits \cap Deliveries = {}
  /\ Requests \cap (Visits \cup Deliveries) = {}
  /\ \A s \in Sales : Opens[s] < Closes[s]

(* The columns FlashSaleUpdate has, among those of SaleRow. *)
ASSUME PatchesAssumption ==
  \A c \in Patches :
    /\ DOMAIN c \subseteq {"active", "price", "opens", "closes"}
    /\ "active" \in DOMAIN c => c.active \in BOOLEAN
    /\ "price" \in DOMAIN c => c.price \in Int
    /\ "opens" \in DOMAIN c => c.opens \in Nat
    /\ "closes" \in DOMAIN c => c.closes \in Nat

VARIABLES
  offered,    \* the products on record
  shelf,      \* products.stock
  shelfLock,  \* the delivery whose flush holds the row of a product
  visit,      \* the requests: method, sale and body
  mail,       \* the task messages sent: sale, eta and retries so far
  at,         \* where each creation, visit and delivery is
  row,        \* the FlashSale object in the session of a visit or delivery
  seen        \* of a visit the counter it read, of a delivery the counter
              \* it read and the product's stock

catalogue == <<offered, shelf, shelfLock>>
lifecycle == <<catalogue, visit, mail, at, row, seen>>
buyers    == <<rate, expiring, daily, balance, userLock, ask, fund, pc, locals>>
all       == <<vars, lifecycle>>

-----------------------------------------------------------------------------
Settled == {"created", "refused", "done", "skipped", "failed", "dead"}

Move(x, from, to) == at[x] = from /\ at' = [at EXCEPT ![x] = to]
Unlock(x) == /\ saleLock' = FreeFrom(saleLock, x)
             /\ shelfLock' = FreeFrom(shelfLock, x)

(* apply_async: a message nobody used yet, to be run at eta at the earliest. *)
Send(s, eta) ==
  LET j == CHOOSE j \in Jobs : j \notin DOMAIN mail
  IN /\ Jobs \ DOMAIN mail # {}
     /\ mail' = With(mail, j, [sale |-> s, eta |-> eta, tries |-> 0])

DropCounter(s) == stock' = [t \in DOMAIN stock \ {s} |-> stock[t]]

SaleInit ==
  /\ Opening([s \in {} |-> 0], FALSE)
  /\ offered = Products
  /\ shelf = Stocked
  /\ shelfLock = [p \in Products |-> NoOne]
  /\ visit \in [Visits ->
       {b \in [op : Methods, sale : Sales, change : Patches \cup {NoChange}] :
          b.op = "patch" <=> b.change # NoChange}]
  /\ mail = [j \in {} |-> 0]
  /\ at = [x \in Sales \cup Visits \cup Deliveries |->
             IF x \in Deliveries THEN "waiting" ELSE "new"]
  /\ row = [x \in Visits \cup Deliveries |-> NoRow]
  /\ seen = [x \in Visits \cup Deliveries |-> [count |-> 0, shelf |-> 0]]

-----------------------------------------------------------------------------
(* POST /flash-sales *)

CheckProduct(s) ==
  LET p == ProductOf[s]
  IN /\ \/ p \in offered /\ Total[s] <= shelf[p]    /\ Move(s, "new", "priced")
        \/ (p \notin offered \/ Total[s] > shelf[p]) /\ Move(s, "new", "refused")
     /\ UNCHANGED <<vars, catalogue, visit, mail, row, seen>>

(* Mutant: only sales that are on when the new one opens. *)
Clashes_AtStart(s) == {t \in Sales : /\ sale[t].live /\ ProductOf[t] = ProductOf[s]
                                     /\ sale[t].opens <= Opens[s]
                                     /\ sale[t].closes > Opens[s]}

(* Sales of the same product whose window meets the one of the body; one   *)
(* is answered 409, several make scalar_one_or_none raise.                 *)
Clashes(s) == {t \in Sales : /\ sale[t].live /\ ProductOf[t] = ProductOf[s]
                             /\ sale[t].opens < Closes[s]
                             /\ sale[t].closes > Opens[s]}

CheckOverlap(s) ==
  /\ \/ Clashes(s) = {} /\ Move(s, "priced", "clear")
     \/ Clashes(s) # {} /\ Move(s, "priced", "refused")
  /\ UNCHANGED <<vars, catalogue, visit, mail, row, seen>>

(* The flush inserts the row, which needs its product, and the counter is  *)
(* set.                                                                    *)
SeedStock(s) ==
  /\ \/ /\ ProductOf[s] \in offered
        /\ Move(s, "clear", "seeded")
        /\ SetStock(s, Total[s])
     \/ /\ ProductOf[s] \notin offered
        /\ Move(s, "clear", "failed")
        /\ UNCHANGED stock
  /\ UNCHANGED <<now, buyers, sale, bought, saleLock, catalogue, visit, mail, row, seen>>

ScheduleSync(s) ==
  /\ Move(s, "seeded", "queued")
  /\ Send(s, Closes[s])
  /\ UNCHANGED <<vars, catalogue, visit, row, seen>>

CommitCreation(s) ==
  /\ Move(s, "queued", "created")
  /\ sale' = [sale EXCEPT ![s].live = TRUE]
  /\ UNCHANGED <<now, buyers, stock, bought, saleLock, catalogue, visit, mail, row, seen>>

Create(s) == CheckProduct(s) \/ CheckOverlap(s) \/ SeedStock(s) \/ ScheduleSync(s)
               \/ CommitCreation(s)

-----------------------------------------------------------------------------
(* PATCH, GET and DELETE /flash-sales/{id} *)

LoadVisit(v) ==
  LET s == visit[v].sale
  IN /\ \/ sale[s].live  /\ Move(v, "new", "loaded") /\ row' = [row EXCEPT ![v] = sale[s]]
        \/ ~sale[s].live /\ Move(v, "new", "refused") /\ UNCHANGED row
     /\ UNCHANGED <<vars, catalogue, visit, mail, seen>>

(* The fields a PATCH changes: those it sets to another value than loaded. *)
Dirty(v) == {f \in DOMAIN visit[v].change : visit[v].change[f] # row[v][f]}

FlushPatch(v) ==
  LET s == visit[v].sale
  IN /\ visit[v].op = "patch"
     /\ \/ /\ sale[s].live
           /\ Move(v, "loaded", "flushed")
           /\ Dirty(v) # {} => saleLock[s] = NoOne
           /\ saleLock' = IF Dirty(v) # {} THEN [saleLock EXCEPT ![s] = v] ELSE saleLock
        \/ /\ ~sale[s].live
           /\ Move(v, "loaded", "failed")
           /\ UNCHANGED saleLock
     /\ UNCHANGED <<now, buyers, stock, sale, bought, catalogue, visit, mail, row, seen>>

(* A new task for a moved end_time; the one already sent stays. *)
Reschedule(v) ==
  /\ Move(v, "flushed", "queued")
  /\ "closes" \in Dirty(v)
  /\ Send(visit[v].sale, visit[v].change.closes)
  /\ UNCHANGED <<vars, catalogue, visit, row, seen>>

(* The columns a PATCH writes. *)
Patched(w, v) ==
  [w EXCEPT !.active = IF "active" \in Dirty(v) THEN visit[v].change.active ELSE @,
            !.price  = IF "price" \in Dirty(v) THEN visit[v].change.price ELSE @,
            !.opens  = IF "opens" \in Dirty(v) THEN visit[v].change.opens ELSE @,
            !.closes = IF "closes" \in Dirty(v) THEN visit[v].change.closes ELSE @]

CommitPatch(v) ==
  LET s == visit[v].sale
  IN /\ Move(v, IF "closes" \in Dirty(v) THEN "queued" ELSE "flushed", "done")
     /\ sale' = [sale EXCEPT ![s] = Patched(@, v)]
     /\ Unlock(v)
     /\ UNCHANGED <<now, buyers, stock, bought, offered, shelf, visit, mail, row, seen>>

(* The counter a GET finds becomes remaining_stock of its FlashSale object ... *)
ReadCounter(v) ==
  LET s == visit[v].sale
      n == IF s \in DOMAIN stock THEN stock[s] ELSE row[v].remaining
  IN /\ Move(v, "loaded", "counted")
     /\ visit[v].op = "get"
     /\ seen' = [seen EXCEPT ![v].count = n]
     /\ UNCHANGED <<vars, catalogue, visit, mail, row>>

(* Mutant: GET repairs the counter from what it read. *)
CommitRead_Pushes(v) ==
  /\ Move(v, "counted", "done")
  /\ SetStock(visit[v].sale, seen[v].count)
  /\ UNCHANGED <<now, buyers, sale, bought, saleLock, catalogue, visit, mail, row, seen>>

(* ... which get_db commits like any other change. *)
CommitRead(v) ==
  LET s == visit[v].sale
      wrote == seen[v].count # row[v].remaining
  IN /\ \/ ~wrote /\ Move(v, "counted", "done") /\ UNCHANGED sale
        \/ /\ wrote /\ sale[s].live /\ saleLock[s] = NoOne
           /\ Move(v, "counted", "done")
           /\ sale' = [sale EXCEPT ![s].remaining = seen[v].count]
        \/ wrote /\ ~sale[s].live /\ Move(v, "counted", "failed") /\ UNCHANGED sale
     /\ UNCHANGED <<now, buyers, stock, bought, saleLock, catalogue, visit, mail, row, seen>>

(* DELETE removes the counter before the row. *)
DropKey(v) ==
  /\ Move(v, "loaded", "dropped")
  /\ visit[v].op = "delete"
  /\ DropCounter(visit[v].sale)
  /\ UNCHANGED <<now, buyers, sale, bought, saleLock, catalogue, visit, mail, row, seen>>

(* A purchase of a sale that was deleted meanwhile: no row to update, none *)
(* to refer to; its transaction is rolled back.                            *)
FlushGone(r) ==
  /\ Go(r, "charged", "lost")
  /\ ~sale[ask[r].sale].live
  /\ Release(r)
  /\ UNCHANGED <<now, redis, balance, sale, bought, ask, fund, locals, lifecycle>>

(* The row goes with its purchases; the DELETE waits for a transaction     *)
(* that updated the row or inserted a purchase that refers to it.          *)
Referred(s) == \E r \in Buys : ask[r].sale = s /\ pc[r] \in {"written", "marked"}

(* Mutant: the DELETE overtakes transactions that inserted purchases. *)
CommitDelete_Overtakes(v) ==
  LET s == visit[v].sale
  IN /\ Move(v, "dropped", "done")
     /\ sale' = [sale EXCEPT ![s].live = FALSE]
     /\ bought' = bought \ {r \in Buys : ask[r].sale = s}
     /\ UNCHANGED <<now, buyers, stock, saleLock, catalogue, visit, mail, row, seen>>

CommitDelete(v) ==
  LET s == visit[v].sale
  IN /\ Move(v, "dropped", "done")
     /\ saleLock[s] = NoOne /\ ~Referred(s)
     /\ sale' = [sale EXCEPT ![s].live = FALSE]
     /\ bought' = bought \ {r \in Buys : ask[r].sale = s}
     /\ UNCHANGED <<now, buyers, stock, saleLock, catalogue, visit, mail, row, seen>>

Visit(v) == LoadVisit(v) \/ FlushPatch(v) \/ Reschedule(v) \/ CommitPatch(v)
              \/ ReadCounter(v) \/ CommitRead(v) \/ DropKey(v) \/ CommitDelete(v)

-----------------------------------------------------------------------------
(* One delivery of sync_product_stock_after_sale. *)

(* Mutant: a negative count is not guarded against. *)
ReadStock_Unguarded(d) ==
  /\ now >= mail[d].eta
  /\ Move(d, "waiting", "read")
  /\ seen' = [seen EXCEPT ![d].count = StockOf(mail[d].sale)]
  /\ UNCHANGED <<vars, catalogue, visit, mail, row>>

(* GET stock_key, no earlier than the eta; a negative count is taken as 0. *)
ReadStock(d) ==
  LET n == StockOf(mail[d].sale)
  IN /\ now >= mail[d].eta
     /\ Move(d, "waiting", "read")
     /\ seen' = [seen EXCEPT ![d].count = IF n < 0 THEN 0 ELSE n]
     /\ UNCHANGED <<vars, catalogue, visit, mail, row>>

(* Mutant: the counter is left to expire. *)
DropStock_Kept(d) ==
  /\ Move(d, "read", "dropped")
  /\ UNCHANGED <<vars, catalogue, visit, mail, row, seen>>

(* DEL stock_key *)
DropStock(d) ==
  /\ Move(d, "read", "dropped")
  /\ DropCounter(mail[d].sale)
  /\ UNCHANGED <<now, buyers, sale, bought, saleLock, catalogue, visit, mail, row, seen>>

(* Mutant: a missing sale is waited for. *)
LoadSync_Waits(d) ==
  LET s == mail[d].sale
  IN /\ \/ sale[s].live  /\ Move(d, "dropped", "found") /\ row' = [row EXCEPT ![d] = sale[s]]
        \/ ~sale[s].live /\ Move(d, "dropped", "waiting") /\ UNCHANGED row
     /\ UNCHANGED <<vars, catalogue, visit, mail, seen>>

(* SELECT the sale; one that is not there ends the task. *)
LoadSync(d) ==
  LET s == mail[d].sale
  IN /\ \/ sale[s].live  /\ Move(d, "dropped", "found") /\ row' = [row EXCEPT ![d] = sale[s]]
        \/ ~sale[s].live /\ Move(d, "dropped", "skipped") /\ UNCHANGED row
     /\ UNCHANGED <<vars, catalogue, visit, mail, seen>>

(* SELECT its product, which a DELETE may have removed with the sale since; *)
(* that ends the task too.                                                  *)
LoadProduct(d) ==
  LET p == ProductOf[mail[d].sale]
  IN /\ \/ /\ p \in offered
           /\ Move(d, "found", "loaded")
           /\ seen' = [seen EXCEPT ![d].shelf = shelf[p]]
        \/ p \notin offered /\ Move(d, "found", "skipped") /\ UNCHANGED seen
     /\ UNCHANGED <<vars, catalogue, visit, mail, row>>

(* The commit flushes the product, if it gets anything back ... *)
FlushProduct(d) ==
  LET p == ProductOf[mail[d].sale]
  IN /\ Move(d, "loaded", "shelved")
     /\ seen[d].count # 0 => p \in offered /\ shelfLock[p] = NoOne
     /\ shelfLock' = IF seen[d].count # 0 THEN [shelfLock EXCEPT ![p] = d] ELSE shelfLock
     /\ UNCHANGED <<vars, offered, shelf, visit, mail, row, seen>>

(* ... then the sale, if the loaded row says anything else. *)
Differs(d) == row[d].active \/ row[d].remaining # seen[d].count

FlushSync(d) ==
  LET s == mail[d].sale
  IN /\ Move(d, "shelved", "flushed")
     /\ Differs(d) => sale[s].live /\ saleLock[s] = NoOne
     /\ saleLock' = IF Differs(d) THEN [saleLock EXCEPT ![s] = d] ELSE saleLock
     /\ UNCHANGED <<now, buyers, stock, sale, bought, catalogue, visit, mail, row, seen>>

(* Mutant: is_active is left alone. *)
Synced_StaysActive(w, d) == [w EXCEPT !.remaining = seen[d].count]

(* The columns that differ from the loaded row are written. *)
Synced(w, d) ==
  [w EXCEPT !.active = IF row[d].active THEN FALSE ELSE @,
            !.remaining = IF row[d].remaining # seen[d].count THEN seen[d].count ELSE @]

CommitSync(d) ==
  LET s == mail[d].sale
  IN /\ Move(d, "flushed", "done")
     /\ shelf' = IF seen[d].count # 0
                 THEN [shelf EXCEPT ![ProductOf[s]] = seen[d].shelf + seen[d].count]
                 ELSE shelf
     /\ sale' = [sale EXCEPT ![s] = Synced(@, d)]
     /\ Unlock(d)
     /\ UNCHANGED <<now, buyers, stock, bought, offered, visit, mail, row, seen>>

(* An exception rolls the session back; Celery runs the message again, at  *)
(* most max_retries times.                                                 *)
Retry(d) ==
  /\ at[d] \notin Settled \cup {"waiting"}
  /\ \/ /\ mail[d].tries < MaxRetries
        /\ at' = [at EXCEPT ![d] = "waiting"]
        /\ mail' = [mail EXCEPT ![d].tries = @ + 1]
     \/ /\ mail[d].tries >= MaxRetries
        /\ at' = [at EXCEPT ![d] = "dead"]
        /\ UNCHANGED mail
  /\ Unlock(d)
  /\ UNCHANGED <<now, buyers, stock, sale, bought, offered, shelf, visit, row, seen>>

(* The product or the sale was deleted since it was loaded: the UPDATE     *)
(* finds no row.                                                           *)
SyncGone(d) ==
  LET s == mail[d].sale
  IN /\ \/ at[d] = "loaded" /\ seen[d].count # 0 /\ ProductOf[s] \notin offered
        \/ at[d] = "shelved" /\ Differs(d) /\ ~sale[s].live
     /\ Retry(d)

Sync(d) == ReadStock(d) \/ DropStock(d) \/ LoadSync(d) \/ LoadProduct(d)
             \/ FlushProduct(d) \/ FlushSync(d) \/ CommitSync(d) \/ SyncGone(d)

-----------------------------------------------------------------------------
(* Mutant: the session is not rolled back. *)
Break_KeepsLocks(x) ==
  /\ at[x] \notin Settled \cup {"new"}
  /\ at' = [at EXCEPT ![x] = "failed"]
  /\ UNCHANGED <<vars, catalogue, visit, mail, row, seen>>

(* A creation or a visit raises, or its process dies. *)
Break(x) ==
  /\ at[x] \notin Settled \cup {"new"}
  /\ at' = [at EXCEPT ![x] = "failed"]
  /\ Unlock(x)
  /\ UNCHANGED <<now, buyers, stock, sale, bought, offered, shelf, visit, mail, row, seen>>

(* The worker dies: it acknowledged the message when it began. *)
WorkerDies(d) ==
  /\ at[d] \notin Settled \cup {"waiting"}
  /\ at' = [at EXCEPT ![d] = "dead"]
  /\ Unlock(d)
  /\ UNCHANGED <<now, buyers, stock, sale, bought, offered, shelf, visit, mail, row, seen>>

(* A message that waits for its eta longer than the broker's visibility    *)
(* timeout is delivered once more.                                         *)
Redeliver(e) ==
  /\ e \notin DOMAIN mail
  /\ \E j \in Jobs \cap DOMAIN mail : at[j] = "waiting" /\ mail' = With(mail, e, mail[j])
  /\ UNCHANGED <<vars, catalogue, visit, at, row, seen>>

(* PATCH /products/{id} sets the stock to the value in its body. *)
Restock(p, n) ==
  /\ p \in offered /\ shelfLock[p] = NoOne
  /\ shelf' = [shelf EXCEPT ![p] = n]
  /\ UNCHANGED <<vars, offered, shelfLock, visit, mail, at, row, seen>>

(* Mutant: the DELETE does not see a sale whose creation is not committed. *)
DropProduct_Overtakes(p) ==
  /\ p \in offered /\ shelfLock[p] = NoOne
  /\ \A s \in Sales : ProductOf[s] = p => ~sale[s].live
  /\ offered' = offered \ {p}
  /\ UNCHANGED <<vars, shelf, shelfLock, visit, mail, at, row, seen>>

(* DELETE /products/{id} fails while a sale refers to the product; it      *)
(* waits for a transaction that inserted such a sale or writes the stock.  *)
DropProduct(p) ==
  /\ p \in offered /\ shelfLock[p] = NoOne
  /\ \A s \in Sales :
       ProductOf[s] = p => ~sale[s].live /\ at[s] \notin {"seeded", "queued"}
  /\ offered' = offered \ {p}
  /\ UNCHANGED <<vars, shelf, shelfLock, visit, mail, at, row, seen>>

Over ==
  /\ \A s \in Sales : at[s] \in Settled
  /\ \A v \in Visits : at[v] \in Settled
  /\ \A d \in DOMAIN mail : at[d] \in Settled \/ mail[d].eta > MaxClock
  /\ \A r \in Requests : pc[r] \in Ended
  /\ UNCHANGED all

SaleNext ==
  \/ Step /\ UNCHANGED lifecycle
  \/ \E r \in Buys : FlushGone(r)
  \/ \E s \in Sales : Create(s)
  \/ \E v \in Visits : Visit(v)
  \/ \E d \in DOMAIN mail : Sync(d)
  \/ \E x \in MayBreak \cap (Sales \cup Visits) : Break(x)
  \/ \E d \in MayBreak \cap DOMAIN mail : Retry(d) \/ WorkerDies(d)
  \/ \E e \in Echoes : Redeliver(e)
  \/ \E p \in Products, n \in Restocks : Restock(p, n)
  \/ \E p \in Droppable : DropProduct(p)
  \/ Over

SaleSpec == SaleInit /\ [][SaleNext]_all

(* The API answers, the worker consumes its queue and time passes. *)
FairSaleSpec ==
  /\ SaleSpec
  /\ WF_all(Tick /\ UNCHANGED lifecycle)
  /\ \A r \in Buys : WF_all((BuyStep(r) /\ UNCHANGED lifecycle) \/ FlushGone(r))
  /\ \A s \in Sales : WF_all(at[s] # "new" /\ Create(s))
  /\ \A v \in Visits : WF_all(at[v] # "new" /\ Visit(v))
  /\ \A d \in Deliveries : WF_all(d \in DOMAIN mail /\ Sync(d))

-----------------------------------------------------------------------------
SaleTypeOK ==
  /\ now \in 0..MaxClock
  /\ DOMAIN stock \subseteq Sales /\ stock \in [DOMAIN stock -> Int]
  /\ sale \in [Sales -> SaleRow]
  /\ saleLock \in [Sales -> Requests \cup Visits \cup Deliveries \cup {NoOne}]
  /\ offered \subseteq Products
  /\ shelf \in [Products -> Nat]
  /\ shelfLock \in [Products -> Deliveries \cup {NoOne}]
  /\ DOMAIN mail \subseteq Deliveries
  /\ \A d \in DOMAIN mail : mail[d] \in [sale : Sales, eta : Nat, tries : 0..MaxRetries]
  /\ \A x \in Visits \cup Deliveries : row[x] \in SaleRow
  /\ \A d \in Deliveries : seen[d].count \in Nat

(* A purchase on record always has its sale: a DELETE that overtakes a     *)
(* purchase makes it fail, one that comes after takes its row along.       *)
RowHasSale == \A r \in bought : sale[ask[r].sale].live

(* A sale on record always has its product: one deleted between the check  *)
(* of a creation and its INSERT makes that fail.                           *)
SaleHasProduct == \A s \in Sales : sale[s].live => ProductOf[s] \in offered

(* Until a task or a DELETE removes it, the counter of a sale accounts for *)
(* every unit, whatever GETs and PATCHes are in progress.                  *)
CounterStands(s) ==
  /\ at[s] \in {"seeded", "queued", "created"}
  /\ \A d \in DOMAIN mail :
       mail[d].sale = s => at[d] \in {"waiting", "read"} /\ mail[d].tries = 0
  /\ \A v \in Visits :
       visit[v].op = "delete" /\ visit[v].sale = s => at[v] \in {"new", "loaded", "refused"}

ConservedWhileOpen ==
  \A s \in Sales : CounterStands(s) => StockOf(s) = Total[s] - UnitCount(Taken(s))

(* While it stands no sale is oversold: more units than it had are sold    *)
(* only by requests that still ran when its counter was taken away.        *)
FitsWhileOpen == \A s \in Sales : CounterStands(s) => UnitCount(Recorded(s)) <= Total[s]

(* The tasks that gave units back to a product, and the units.             *)
GivenBack(p) == {d \in DOMAIN mail : at[d] = "done" /\ ProductOf[mail[d].sale] = p}
Returned(D) == Tally([d \in Deliveries |-> seen[d].count], D)

(* The rows x is about to write or delete, and for whom it waits: who      *)
(* holds such a row, or has inserted a purchase of the sale x deletes.     *)
WritesUser(x, u) ==
  \/ x \in Buys /\ pc[x] = "taken" /\ UserOf(x) = u
  \/ x \in TopUps /\ pc[x] = "authed" /\ UserOf(x) = u
WritesSale(x, s) ==
  \/ x \in Buys /\ pc[x] = "charged" /\ ask[x].sale = s /\ WritesRow(x)
  \/ /\ x \in Visits /\ visit[x].sale = s
     /\ \/ at[x] = "loaded" /\ visit[x].op = "patch" /\ Dirty(x) # {}
        \/ at[x] = "counted" /\ seen[x].count # row[x].remaining
        \/ at[x] = "dropped"
  \/ x \in DOMAIN mail /\ at[x] = "shelved" /\ mail[x].sale = s /\ Differs(x)
WritesProduct(x, p) ==
  x \in DOMAIN mail /\ at[x] = "loaded" /\ seen[x].count # 0 /\ ProductOf[mail[x].sale] = p
Awaited(x) ==
  ({userLock[u] : u \in {v \in Users : WritesUser(x, v)}}
     \cup {saleLock[s] : s \in {t \in Sales : WritesSale(x, t)}}
     \cup {shelfLock[p] : p \in {q \in Products : WritesProduct(x, q)}}
     \cup {r \in Buys : /\ x \in Visits /\ at[x] = "dropped"
                        /\ ask[r].sale = visit[x].sale /\ pc[r] \in {"written", "marked"}})
  \ {NoOne}

(* Every row lock is held by a transaction that took it and is under way.  *)
HoldsUser(r) == \/ r \in Buys /\ pc[r] \in {"charged", "written", "marked"}
                \/ r \in TopUps /\ pc[r] = "written"
HoldsSale(x) == \/ x \in Buys /\ pc[x] \in {"written", "marked"}
                \/ x \in Visits /\ at[x] \in {"flushed", "queued"}
                \/ x \in Deliveries /\ at[x] = "flushed"
HoldsProduct(d) == d \in Deliveries /\ at[d] \in {"shelved", "flushed"}
LocksInUse ==
  /\ \A u \in Users : userLock[u] = NoOne \/ HoldsUser(userLock[u])
  /\ \A s \in Sales : saleLock[s] = NoOne \/ HoldsSale(saleLock[s])
  /\ \A p \in Products : shelfLock[p] = NoOne \/ HoldsProduct(shelfLock[p])

(* No deadlock on the rows of users, products and sales, however many      *)
(* requests and tasks there are: locks are given back, and who waits for   *)
(* somebody that waits for somebody waits for one that waits for nobody.   *)
LocksOrdered ==
  /\ LocksInUse
  /\ \A x \in Requests \cup Visits \cup Deliveries :
       \A y \in Awaited(x) : \A z \in Awaited(y) : Awaited(z) = {}

(* A sale that was closed is not opened again but by a PATCH that says so: *)
(* no purchase or GET that loaded it before writes is_active back.         *)
StaysClosed ==
  [][\A s \in Sales :
       sale[s].live /\ sale[s].live' /\ ~sale[s].active /\ sale[s].active'
         => \E v \in Visits : /\ at[v] # "done" /\ at'[v] = "done"
                              /\ visit[v].sale = s /\ "active" \in Dirty(v)]_all

(* Creations, PATCHes, DELETEs, tasks and purchases together implement the *)
(* sales as a buyer sees them.                                             *)
Stage == [s \in Sales |->
            IF sale[s].live THEN IF sale[s].active THEN "on" ELSE "off"
            ELSE IF at[s] = "created" THEN "gone" ELSE "none"]
Wanted == [r \in Buys |-> ask[r].sale]
Pending == {r \in Buys : pc[r] \in InFlight \ {"authed"}}
Book == INSTANCE SaleBook
          WITH stage <- Stage, wants <- Wanted, pending <- Pending, recorded <- bought
ImplementsSaleBook == Book!Spec

(* A sale whose creation was committed before its end is closed or deleted *)
(* in the end.                                                             *)
SaleCloses ==
  \A s \in Sales :
    (sale[s].live /\ now < Closes[s]) ~> (~sale[s].live \/ ~sale[s].active)

(* Every request and task that began comes to an end: no cycle of row      *)
(* locks among purchases, PATCHes, DELETEs and tasks.                      *)
AllSettle ==
  /\ \A x \in Sales \cup Visits : at[x] # "new" ~> at[x] \in Settled
  /\ \A d \in Deliveries : at[d] # "waiting" ~> at[d] \in Settled
  /\ \A r \in Buys : pc[r] # "idle" ~> pc[r] \in Ended

-----------------------------------------------------------------------------
(* What the repository says of a sale's life, and the code does not keep;  *)
(* one more is NoOversell.                                                 *)

(* README: PATCH "reschedules Celery task if `end_time` changes", and the  *)
(* task fires "at end_time": no sale is closed before its end.             *)
ClosedOnTime ==
  [][\A s \in Sales :
       sale[s].active /\ ~sale[s].active' => now >= sale[s].closes]_all
=============================================================================
