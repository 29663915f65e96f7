------------------------------ MODULE Purchase ------------------------------
(***************************************************************************)
(* POST /flash-sales/{id}/purchase and POST /users/me/balance/top-up, as   *)
(* run by any number of API processes against one Redis and one Postgres.  *)
(*                                                                         *)
(* A handler is a coroutine: it gives way at every await, so each step     *)
(* below is the code between two awaits together with the call it ends in. *)
(* Redis executes one command at a time.  A handler's session is one       *)
(* READ COMMITTED transaction, committed by the get_db dependency after    *)
(* the endpoint returns and rolled back when anything raises.              *)
(***************************************************************************)
EXTENDS Integers, FiniteSets

CONSTANTS
  Users, Sales,
  Buys,         \* identities of the purchase requests
  TopUps,       \* identities of the top-up requests
  MaxQuantity,  \* bound: the largest quantity a request asks for
  Amounts,      \* the amounts a top-up may add
  Price, Total, Opens, Closes,  \* of each sale, as created
  Funds,        \* of each user, the balance at the start
  MaxRate,      \* RATE_LIMIT_MAX_PURCHASES
  MaxClock,     \* bound: the last instant of the clock
  DayOf,        \* the UTC day an instant falls in
  MayFail,      \* the requests whose handler may raise or die half way
  NoOne         \* holder of a row lock that is free

Requests == Buys \cup TopUps

ASSUME RequestsAssumption ==
  /\ IsFiniteSet(Buys)
  /\ Buys \cap TopUps = {}
  /\ NoOne \notin Requests
  /\ MayFail \subseteq Requests

ASSUME ValuesAssumption ==
  /\ MaxQuantity \in Nat
  /\ Amounts \subseteq Nat \ {0}
  /\ Price \in [Sales -> Nat \ {0}]
  /\ Total \in [Sales -> Nat \ {0}]
  /\ Opens \in [Sales -> Nat]
  /\ Closes \in [Sales -> Nat]
  /\ Funds \in [Users -> Nat]
  /\ MaxRate \in Nat \ {0}

ASSUME ClockAssumption ==
  /\ MaxClock \in Nat
  /\ DayOf \in [0..(MaxClock + 1) -> Nat]
  /\ \A t \in 0..MaxClock : DayOf[t] <= DayOf[t + 1]

VARIABLES
  now,       \* the clock the API processes share
  (* Redis *)
  stock,     \* flash_sale:{s}:stock; a sale outside the domain has no key
  daily,     \* daily_purchase:{s}:user:{u}:{day} keys that exist
  rate,      \* rate_limit:purchase:{s}:user:{u}; 0 when there is no key
  expiring,  \* the rate keys that have a TTL
  (* Postgres, committed *)
  balance,   \* users.balance
  sale,      \* rows of flash_sales
  bought,    \* rows of flash_sale_purchases, by the request that made them
  userLock,  \* the request whose flush holds the row of a user
  saleLock,  \* the request whose flush holds the row of a sale
  (* handlers *)
  ask, fund, \* the bodies of the requests, known once a request arrives
  pc,        \* where each handler is
  bal,       \* balance of the User object in the handler's session
  copy,      \* the FlashSale object in the handler's session
  day,       \* date_str
  left       \* remaining, the answer to DECRBY

redis    == <<stock, daily, rate, expiring>>
postgres == <<balance, sale, bought, userLock, saleLock>>
locals   == <<bal, copy, day, left>>
vars     == <<now, redis, postgres, ask, fund, pc, locals>>

-----------------------------------------------------------------------------
(* The stages of a handler. *)

Ended    == {"done", "refused", "failed", "lost"}
(* After DECRBY took units that no INCRBY has given back; "lost" is a      *)
(* handler that failed there.                                              *)
Holding  == {"short", "taken", "charged", "written", "marked"}
InFlight == {"authed", "loaded", "unmarked", "first", "counted"} \cup Holding
Stages   == {"idle"} \cup InFlight \cup Ended

SaleRow == [live : BOOLEAN, active : BOOLEAN, price : Int, remaining : Int,
            opens : Nat, closes : Nat]

UserOf(r) == IF r \in Buys THEN ask[r].user ELSE fund[r].user
Cost(r)   == copy[r].price * ask[r].quantity
(* Mutant: a key without the date. *)
DailyKey_Undated(r) == <<ask[r].user, ask[r].sale>>
DailyKey(r) == <<ask[r].user, ask[r].sale, day[r]>>
RateKey(r)  == <<ask[r].user, ask[r].sale>>

StockOf(s)  == IF s \in DOMAIN stock THEN stock[s] ELSE 0
With(f, x, v) == [y \in DOMAIN f \cup {x} |-> IF y = x THEN v ELSE f[y]]
SetStock(s, n) == stock' = With(stock, s, n)

(* The window check: neither before start_time nor after end_time. *)
OnSale(row) == row.live /\ row.active /\ row.opens <= now /\ now <= row.closes

FreeFrom(lock, r) == [x \in DOMAIN lock |-> IF lock[x] = r THEN NoOne ELSE lock[x]]
Release(r) == /\ userLock' = FreeFrom(userLock, r)
              /\ saleLock' = FreeFrom(saleLock, r)

Go(r, from, to) == pc[r] = from /\ pc' = [pc EXCEPT ![r] = to]

-----------------------------------------------------------------------------
Opening(counters, onSale) ==
  /\ now = 0
  /\ stock = counters
  /\ daily = {}
  /\ rate = [k \in Users \X Sales |-> 0]
  /\ expiring = {}
  /\ balance = Funds
  /\ sale = [s \in Sales |->
               [live |-> onSale, active |-> TRUE, price |-> Price[s],
                remaining |-> Total[s], opens |-> Opens[s], closes |-> Closes[s]]]
  /\ bought = {}
  /\ userLock = [u \in Users |-> NoOne]
  /\ saleLock = [s \in Sales |-> NoOne]
  /\ ask \in [Buys -> [user : Users, sale : Sales, quantity : 1..MaxQuantity]]
  /\ fund \in [TopUps -> [user : Users, amount : Amounts]]
  /\ pc = [r \in Requests |-> "idle"]
  /\ bal = [r \in Requests |-> 0]
  /\ copy = [r \in Buys |-> sale[ask[r].sale]]
  /\ day = [r \in Buys |-> 0]
  /\ left = [r \in Buys |-> 0]

(* The sales have been created and their counters seeded. *)
Init == Opening(Total, TRUE)

(* The bearer token is good; its user is loaded into the session.  Every   *)
(* later SELECT of the row returns this object as it is.                   *)
Authenticate(r) ==
  /\ Go(r, "idle", "authed")
  /\ bal' = [bal EXCEPT ![r] = balance[UserOf(r)]]
  /\ UNCHANGED <<now, redis, postgres, ask, fund, copy, day, left>>

LoadSale(r) ==
  /\ Go(r, "authed", "loaded")
  /\ OnSale(sale[ask[r].sale])
  /\ copy' = [copy EXCEPT ![r] = sale[ask[r].sale]]
  /\ day' = [day EXCEPT ![r] = DayOf[now]]
  /\ UNCHANGED <<now, redis, postgres, ask, fund, bal, left>>

(* 404, or 400 outside the sale's window. *)
TurnAway(r) ==
  /\ Go(r, "authed", "refused")
  /\ ~OnSale(sale[ask[r].sale])
  /\ UNCHANGED <<now, redis, postgres, ask, fund, locals>>

(* Mutant: the check claims the key at once, SET NX in place of EXISTS. *)
CheckDaily_Claims(r) ==
  /\ \/ DailyKey(r) \in daily /\ Go(r, "loaded", "refused")
     \/ DailyKey(r) \notin daily /\ Go(r, "loaded", "unmarked")
  /\ daily' = daily \cup {DailyKey(r)}
  /\ UNCHANGED <<now, stock, rate, expiring, postgres, ask, fund, locals>>

(* EXISTS daily_key *)
CheckDaily(r) ==
  /\ \/ DailyKey(r) \in daily /\ Go(r, "loaded", "refused")
     \/ DailyKey(r) \notin daily /\ Go(r, "loaded", "unmarked")
  /\ UNCHANGED <<now, redis, postgres, ask, fund, locals>>

(* INCR rate_key *)
CountRequest(r) ==
  LET n == rate[RateKey(r)] + 1
  IN /\ rate' = [rate EXCEPT ![RateKey(r)] = n]
     /\ \/ n = 1                 /\ Go(r, "unmarked", "first")
        \/ 1 < n /\ n <= MaxRate /\ Go(r, "unmarked", "counted")
        \/ MaxRate < n           /\ Go(r, "unmarked", "refused")
     /\ UNCHANGED <<now, stock, daily, expiring, postgres, ask, fund, locals>>

(* Mutant: the key is left without a TTL. *)
SetRateWindow_Skipped(r) ==
  Go(r, "first", "counted") /\ UNCHANGED <<now, redis, postgres, ask, fund, locals>>

(* EXPIRE rate_key, by the request that created the key. *)
SetRateWindow(r) ==
  /\ Go(r, "first", "counted")
  /\ expiring' = expiring \cup {RateKey(r)}
  /\ UNCHANGED <<now, stock, daily, rate, postgres, ask, fund, locals>>

(* 402 *)
TurnAwayPoor(r) ==
  /\ Go(r, "counted", "refused")
  /\ bal[r] < Cost(r)
  /\ UNCHANGED <<now, redis, postgres, ask, fund, locals>>

(* Mutant: off by one. *)
InStock_OffByOne(n) == n >= -1

(* Mutant: the last unit cannot be bought. *)
InStock_Strict(n) == n > 0

(* The answer to DECRBY says whether the units were there. *)
InStock(n) == n >= 0

(* DECRBY stock_key; when the answer is not negative the price leaves the  *)
(* balance of the User object before the next await.                       *)
DecrStock(r) ==
  LET s == ask[r].sale
      n == StockOf(s) - ask[r].quantity
  IN /\ bal[r] >= Cost(r)
     /\ SetStock(s, n)
     /\ left' = [left EXCEPT ![r] = n]
     /\ \/ ~InStock(n) /\ Go(r, "counted", "short") /\ UNCHANGED bal
        \/ InStock(n)  /\ Go(r, "counted", "taken")
                       /\ bal' = [bal EXCEPT ![r] = @ - Cost(r)]
     /\ UNCHANGED <<now, daily, rate, expiring, postgres, ask, fund, copy, day>>

(* Mutant: 400 without the compensation. *)
GiveBack_Forgotten(r) ==
  Go(r, "short", "refused") /\ UNCHANGED <<now, redis, postgres, ask, fund, locals>>

(* Mutant: give back and try once more instead of refusing. *)
GiveBack_Retries(r) ==
  /\ Go(r, "short", "counted")
  /\ SetStock(ask[r].sale, StockOf(ask[r].sale) + ask[r].quantity)
  /\ UNCHANGED <<now, daily, rate, expiring, postgres, ask, fund, locals>>

(* INCRBY stock_key, then 400 "Insufficient stock". *)
GiveBack(r) ==
  /\ Go(r, "short", "refused")
  /\ SetStock(ask[r].sale, StockOf(ask[r].sale) + ask[r].quantity)
  /\ UNCHANGED <<now, daily, rate, expiring, postgres, ask, fund, locals>>

(* The flush writes the rows of users first; the row stays locked until    *)
(* the transaction ends.                                                   *)
FlushUser(r) ==
  /\ Go(r, "taken", "charged")
  /\ userLock[UserOf(r)] = NoOne
  /\ userLock' = [userLock EXCEPT ![UserOf(r)] = r]
  /\ UNCHANGED <<now, redis, balance, sale, bought, saleLock, ask, fund, locals>>

(* remaining_stock is written only if it differs from the value loaded. *)
WritesRow(r) == left[r] # copy[r].remaining

(* Then the row of flash_sales, and the new row of flash_sale_purchases. *)
FlushSale(r) ==
  LET s == ask[r].sale
  IN /\ Go(r, "charged", "written")
     /\ sale[s].live
     /\ WritesRow(r) => saleLock[s] = NoOne
     /\ saleLock' = IF WritesRow(r) THEN [saleLock EXCEPT ![s] = r] ELSE saleLock
     /\ UNCHANGED <<now, redis, balance, sale, bought, userLock, ask, fund, locals>>

(* Mutant: the purchase is not marked. *)
MarkDaily_Skipped(r) ==
  Go(r, "written", "marked") /\ UNCHANGED <<now, redis, postgres, ask, fund, locals>>

(* SETEX daily_key *)
MarkDaily(r) ==
  /\ Go(r, "written", "marked")
  /\ daily' = daily \cup {DailyKey(r)}
  /\ UNCHANGED <<now, stock, rate, expiring, postgres, ask, fund, locals>>

(* Mutant: the UPDATE subtracts the price from the stored balance. *)
NewBalance_Relative(r) == balance[UserOf(r)] - Cost(r)

(* The UPDATE of users sets the balance the session computed. *)
NewBalance(r) == bal[r]

(* Mutant: the whole row is written back, not only the changed column. *)
Commit_WholeRow(r) ==
  /\ Go(r, "marked", "done")
  /\ balance' = [balance EXCEPT ![UserOf(r)] = NewBalance(r)]
  /\ sale' = [sale EXCEPT ![ask[r].sale] = [copy[r] EXCEPT !.remaining = left[r]]]
  /\ bought' = bought \cup {r}
  /\ Release(r)
  /\ UNCHANGED <<now, redis, ask, fund, locals>>

(* get_db commits; remaining_stock becomes this request's answer to DECRBY. *)
Commit(r) ==
  LET s == ask[r].sale
  IN /\ Go(r, "marked", "done")
     /\ balance' = [balance EXCEPT ![UserOf(r)] = NewBalance(r)]
     /\ sale' = IF WritesRow(r) THEN [sale EXCEPT ![s].remaining = left[r]] ELSE sale
     /\ bought' = bought \cup {r}
     /\ Release(r)
     /\ UNCHANGED <<now, redis, ask, fund, locals>>

(* top_up_balance: add to the User object and flush ... *)
FlushTopUp(r) ==
  /\ Go(r, "authed", "written")
  /\ userLock[UserOf(r)] = NoOne
  /\ userLock' = [userLock EXCEPT ![UserOf(r)] = r]
  /\ bal' = [bal EXCEPT ![r] = @ + fund[r].amount]
  /\ UNCHANGED <<now, redis, balance, sale, bought, saleLock, ask, fund, copy, day, left>>

(* ... and commit. *)
CommitTopUp(r) ==
  /\ Go(r, "written", "done")
  /\ balance' = [balance EXCEPT ![UserOf(r)] = NewBalance(r)]
  /\ Release(r)
  /\ UNCHANGED <<now, redis, sale, bought, ask, fund, locals>>

(* Mutant: the session is committed, not rolled back, after an exception. *)
Fail_Commits(r) ==
  /\ pc[r] \in InFlight
  /\ pc' = [pc EXCEPT ![r] = IF r \in Buys /\ pc[r] \in Holding THEN "lost" ELSE "failed"]
  /\ balance' = [balance EXCEPT ![UserOf(r)] = bal[r]]
  /\ Release(r)
  /\ UNCHANGED <<now, redis, sale, bought, ask, fund, locals>>

(* A call to Redis or Postgres raises, or the process dies: the session is *)
(* rolled back, what was done in Redis stays.                              *)
Fail(r) ==
  /\ pc[r] \in InFlight
  /\ pc' = [pc EXCEPT ![r] = IF r \in Buys /\ pc[r] \in Holding THEN "lost" ELSE "failed"]
  /\ Release(r)
  /\ UNCHANGED <<now, redis, balance, sale, bought, ask, fund, locals>>

-----------------------------------------------------------------------------
(* What happens without a handler. *)

Tick ==
  /\ now < MaxClock
  /\ now' = now + 1
  /\ UNCHANGED <<redis, postgres, ask, fund, pc, locals>>

(* Redis drops a rate key whose 60 seconds are over. *)
RateWindowEnds(k) ==
  /\ k \in expiring
  /\ expiring' = expiring \ {k}
  /\ rate' = [rate EXCEPT ![k] = 0]
  /\ UNCHANGED <<now, stock, daily, postgres, ask, fund, pc, locals>>

(* The last instant of a day: the TTL of a daily key is cut to whole       *)
(* seconds, so the key may go up to a second before the day is over.       *)
DayIsOver(d) == d < DayOf[now + 1]

(* Mutant: the key lives for less than what is left of the day. *)
DailyKeyExpires_Early(k) ==
  /\ k \in daily
  /\ daily' = daily \ {k}
  /\ UNCHANGED <<now, stock, rate, expiring, postgres, ask, fund, pc, locals>>

DailyKeyExpires(k) ==
  /\ k \in daily
  /\ DayIsOver(k[3])
  /\ daily' = daily \ {k}
  /\ UNCHANGED <<now, stock, rate, expiring, postgres, ask, fund, pc, locals>>

-----------------------------------------------------------------------------
BuyStep(r) ==
  \/ LoadSale(r)      \/ TurnAway(r)      \/ CheckDaily(r)
  \/ CountRequest(r)  \/ SetRateWindow(r) \/ TurnAwayPoor(r)
  \/ DecrStock(r)     \/ GiveBack(r)      \/ FlushUser(r)
  \/ FlushSale(r)     \/ MarkDaily(r)     \/ Commit(r)

TopUpStep(r) == FlushTopUp(r) \/ CommitTopUp(r)

Environment ==
  \/ Tick
  \/ \E k \in expiring : RateWindowEnds(k)
  \/ \E k \in daily : DailyKeyExpires(k)

(* Nothing is left to do once every request has its answer. *)
Terminated == (\A r \in Requests : pc[r] \in Ended) /\ UNCHANGED vars

Step ==
  \/ \E r \in Requests : Authenticate(r)
  \/ \E r \in Buys : BuyStep(r)
  \/ \E r \in TopUps : TopUpStep(r)
  \/ \E r \in MayFail : Fail(r)
  \/ Environment

Next == Step \/ Terminated

Spec == Init /\ [][Next]_vars

(* The event loop resumes every coroutine whose call has been answered,    *)
(* and Postgres hands a freed row lock to a waiting session.               *)
FairSpec == /\ Spec
            /\ \A r \in Buys : WF_vars(BuyStep(r))
            /\ \A r \in TopUps : WF_vars(TopUpStep(r))

-----------------------------------------------------------------------------
(* The sum of f over a finite set: every x of R has f[x] shares in it, so  *)
(* that a sum is a cardinality.                                            *)
Shares(f, R) == UNION {{x} \X (1..f[x]) : x \in R}
Tally(f, R)  == Cardinality(Shares(f, R))

UnitCount(R) == Tally([r \in Buys |-> ask[r].quantity], R)

(* The requests for sale s whose DECRBY stands, those among them that took *)
(* units that were there, and those with a row.                            *)
Took == Holding \cup {"done", "lost"}
Taken(s) == {r \in Buys : ask[r].sale = s /\ pc[r] \in Took}
Accepted(s) == {r \in Taken(s) : InStock(left[r])}
Recorded(s) == {r \in bought : ask[r].sale = s}

TypeOK ==
  /\ now \in 0..MaxClock
  /\ stock \in [Sales -> Int]
  /\ daily \subseteq Users \X Sales \X Nat
  /\ rate \in [Users \X Sales -> Nat]
  /\ expiring \subseteq Users \X Sales
  /\ balance \in [Users -> Int]
  /\ sale \in [Sales -> SaleRow]
  /\ bought \subseteq Buys
  /\ userLock \in [Users -> Requests \cup {NoOne}]
  /\ saleLock \in [Sales -> Requests \cup {NoOne}]
  /\ ask \in [Buys -> [user : Users, sale : Sales, quantity : 1..MaxQuantity]]
  /\ fund \in [TopUps -> [user : Users, amount : Amounts]]
  /\ pc \in [Requests -> Stages]
  /\ bal \in [Requests -> Int]
  /\ copy \in [Buys -> SaleRow]
  /\ day \in [Buys -> Nat]
  /\ left \in [Buys -> Int]

(* The counter in Redis accounts for every unit: what is missing from it   *)
(* is held by a handler, recorded as a purchase, or was lost by a handler  *)
(* that failed after DECRBY; no path gives back too much or too little.    *)
StockConserved == \A s \in Sales : StockOf(s) = Total[s] - UnitCount(Taken(s))

(* Why no sale is oversold: the units of accepted requests fit in the      *)
(* stock, and only accepted requests get to a row.                         *)
StockInv ==
  /\ StockConserved
  /\ \A s \in Sales : UnitCount(Accepted(s)) <= Total[s]
  /\ \A r \in Buys : pc[r] \in Took \ {"short", "lost"} => InStock(left[r])
  /\ \A r \in bought : pc[r] = "done"

(* "Prevents overselling": whatever the interleaving and whatever fails,   *)
(* the recorded purchases of a sale fit in its stock.                      *)
NoOversell == \A s \in Sales : UnitCount(Recorded(s)) <= Total[s]

(* Overlapping purchases and top-ups of one user all compute from a        *)
(* balance read at authentication, yet none of them drives the balance     *)
(* below zero.                                                             *)
NeverInDebt == \A u \in Users : balance[u] >= 0

(* What the recorded purchases of a user cost, and what the top-ups that   *)
(* were committed added.                                                   *)
Spent(u) == Tally([r \in Buys |-> Cost(r)], {r \in bought : ask[r].user = u})
Added(u) == Tally([r \in TopUps |-> fund[r].amount],
                  {r \in TopUps : pc[r] = "done" /\ fund[r].user = u})

(* Whatever updates of a balance are lost to one another, no money appears *)
(* that was not put in and none disappears that was not charged or added.  *)
MoneyBounds ==
  \A u \in Users : /\ balance[u] <= Funds[u] + Added(u)
                   /\ balance[u] >= Funds[u] - Spent(u)

(* A purchase on record is covered by its daily key until the day is over: *)
(* the key is set before the commit that makes the row visible.            *)
RowHasMark == \A r \in bought : DailyKey(r) \in daily \/ DayIsOver(day[r])

(* A daily key stands for a purchase that is on record, is about to        *)
(* commit, or failed after it had taken its units: no request is told      *)
(* "already purchased" for one that was refused.                           *)
MarkHasBuyer ==
  \A k \in daily : \E r \in Buys : DailyKey(r) = k /\ pc[r] \in {"marked", "done", "lost"}

(* A rate key has its TTL unless the request that created it is about to   *)
(* set it, or a request of the same user and sale failed, perhaps before   *)
(* it did: without failures nobody is refused for longer than a window.    *)
WindowCloses ==
  \A k \in Users \X Sales :
    rate[k] > 0 =>
      k \in expiring \/ \E r \in Buys : pc[r] \in {"first", "failed"} /\ RateKey(r) = k

(* A buyer is told there is no stock only when fewer units are free than   *)
(* the buyer asks for, or while another refusal is still compensated for   *)
(* (or never will be: its handler failed).                                 *)
Short(s) == {q \in Buys : ask[q].sale = s /\ pc[q] \in {"short", "lost"} /\ ~InStock(left[q])}
RefusedForLack ==
  [][\A r \in Buys :
       pc[r] = "counted" /\ pc'[r] = "short"
         => \/ Total[ask[r].sale] - UnitCount(Accepted(ask[r].sale)) < ask[r].quantity
            \/ Short(ask[r].sale) # {}]_vars

(* Once a purchase is committed no request that reads the daily key later  *)
(* gets past it, except in the last instant of the day.                    *)
NoSecondPurchase ==
  [][\A r, q \in Buys :
       pc[r] = "loaded" /\ pc'[r] = "unmarked" /\ q \in bought /\ DailyKey(q) = DailyKey(r)
         => DayIsOver(day[r])]_vars

(* The counter, the compensation and the commit implement an inventory in  *)
(* which units are set aside once and sold once.                           *)
Inv == INSTANCE Inventory
         WITH available <- [s \in Sales |-> Total[s] - UnitCount(Accepted(s))],
              sold <- [s \in Sales |-> UnitCount(Recorded(s))]
ImplementsInventory == Inv!Spec

(* Every request that reaches the API is answered: the row locks are taken *)
(* in one order and always given back.                                     *)
Answered == \A r \in Requests : pc[r] # "idle" ~> pc[r] \in Ended

-----------------------------------------------------------------------------
(* What the repository says of a purchase, and the code does not keep.     *)

(* README: "each user may only purchase once per flash sale per UTC day". *)
OncePerDay == \A r, q \in bought : DailyKey(r) = DailyKey(q) => r = q
=============================================================================
