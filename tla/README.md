# Verification of the flash-sale API

TLA+ models of the FastAPI / PostgreSQL / Redis / Celery flash-sale service in
`src/`, TLC configurations that check them on small instances, and TLAPS proofs
for every value of their constants. Line numbers refer to files under `src/`.

## 1. The system

Any number of API processes serve requests as coroutines that give way at every
`await`. Each request has one SQLAlchemy session: one READ COMMITTED
transaction, committed by the `get_db` dependency (`app/core/database.py:24`)
after the endpoint returned, rolled back on an exception. Redis executes one
command at a time and keeps what a failed request did to it. Celery workers run
the tasks the API sends with an `eta`.

| Component | State | Operations | Interacts with |
|---|---|---|---|
| Purchase, `services/flash_sale.py:175` | counter `flash_sale:{s}:stock`, `daily_purchase:*` and `rate_limit:*` keys; rows of `users`, `flash_sales`, `flash_sale_purchases` | purchase; history | shares the user row with top-ups, the sale row and counter with everything about the sale |
| Top-up, `services/user.py:15` | `users.balance` | top up; read | Purchase |
| Sale administration, `services/flash_sale.py:49-169` | `flash_sales` rows, the counter | create, PATCH, DELETE, GET, list | sends the sync task; races purchases |
| Stock sync task, `tasks/flash_sale_tasks.py` | the counter, `flash_sales`, `products.stock` | one delivery, up to three retries | races purchases, visits, product PATCHes |
| Products, `services/product.py` | `products` | create, PATCH, DELETE, reads | stock is read at creation of a sale and written by the task |
| Sessions, `services/auth.py:90-195` | `refresh_token:{u}`, `blacklist:{token}` | login, refresh, logout | the gates read the blacklist |
| Gates, `core/middleware.py`, `core/deps.py` | none | check a bearer token, twice | every protected request |
| Registration and OTP, `services/auth.py:38`, `:201`, `:234` | `users` rows, `otp:*` keys | register, send, verify | unique indexes of `users` |
| Backup, `tasks/backup_tasks.py` | dump files in one directory, named by the second | dump, retry, prune | Celery beat sends one message a day; several workers may run |
| Seed and start, `scripts/seed.py`, `start.sh` | the schema, `users` and `products` rows | wait, migrate, seed, serve | several replicas may start at once; registrations and product edits of those that serve |
| Pools, `core/database.py:11`, `core/redis.py` | connections | check out, give back | every request |

**What is hard.** (a) Every rule of a purchase is a check in one call and its
effect in a later one: daily key, rate counter, balance, stock, window. (b) The
counter lives in Redis and the records in Postgres, with no common transaction:
each failure between DECRBY and COMMIT leaves them apart. (c) ORM objects are
snapshots: a handler writes back values it computed from a row loaded many
awaits earlier. (d) The sync task empties a counter that purchases in flight
still use, and its messages are sent before the commit, never revoked, retried
and possibly delivered twice. (e) Tokens and keys expire in whole seconds while
clocks do not. (f) OTP codes and refresh tokens are read and removed in two
calls, and an answer may be lost after the call. (g) Servers that start together
check the same database and then write to it. (h) Backup runs share a directory
with dumps that failed and with each other.

**What makes each part correct.** *Purchase*: no oversell; the counter accounts
for every unit; no negative balance and no money from nowhere; one daily key per
recorded purchase; everyone is answered. *Sale*: the counter stands as long as
the sale is open; no purchase without its sale; a closed sale stays closed; a
sale closes in the end; a sale has its product; overlapping sales have a cause, and
so do units of a sale that come back to its product twice. *Sessions*: a
logged-out token is refused; a refresh token works until a login, refresh or
logout takes its place, and not after that. *Accounts*: unique names and
identifiers; refusals only for accounts that exist; verification only by one's
own code. *Start*: nobody
serves without tables and an admin; the first seed adds nothing twice; every
start ends, and in a system in order it serves. *Backup*: there is something to
restore from; nothing goes too soon, nothing too old stays; every run ends.

## 2. Modules

| Module | Models |
|---|---|
| `Inventory` | abstract specification: units are set aside once and sold once |
| `Purchase` | purchases and top-ups, the clock, key expiry, failures |
| `MCPurchase` | constants for TLC |
| `Purchase_proofs` | theorems about `Purchase` |
| `Inventory_proofs` | `Purchase` implements `Inventory` |
| `SaleLifecycle` | EXTENDS `Purchase`: creation, PATCH, GET, DELETE, the sync task, messages, stock and deletion of products |
| `SaleLifecycle_proofs` | theorems about `SaleLifecycle` |
| `MCSaleLifecycle` | constants for TLC |
| `SaleBook` | abstract specification: sales as a buyer sees them, published, switched and withdrawn, and purchases recorded while they are there |
| `SaleHistory`, `SaleHistory_proofs` | EXTENDS `SaleLifecycle`: history variables, what the overlap check found and how reads and removals of a counter followed each other; theorems |
| `MCTwoSales` | `SaleHistory` with the constants of `MCSaleLifecycle`: two sales of one product |
| `Sessions` | login, refresh, logout, both gates |
| `Rotation` | EXTENDS `Sessions`: a history variable, the refresh tokens whose place was taken |
| `Sessions_proofs` | theorems about both |
| `Accounts`, `Accounts_proofs` | registration, OTP; theorems |
| `Startup`, `MCStartup`, `Startup_proofs` | start.sh, migration, seed, outages, registrations and product edits; constants; theorems |
| `Backup`, `Backup_proofs` | the backup task and its messages; theorems |

`Purchase` composes with the life of its sale in `SaleLifecycle`: its `Step` is
a disjunct of `SaleNext`, and the sale row, the counter and the row locks are
shared variables. `FlushGone`, a purchase whose sale was deleted before its
flush, is an action of `SaleLifecycle`: without a DELETE it cannot happen.
`Purchase` implements `Inventory` under a refinement mapping, and
`SaleLifecycle`, purchases and all, implements `SaleBook`: a sale is "on" or
"off" while its row is live, "none" before its creation is committed and "gone"
after its DELETE; a request is pending from the moment it found its sale on.

### Purchase

One action per stretch of code between two awaits, named for the call it ends
in. The path of a request (`pc`) is

    idle -Authenticate-> authed -LoadSale-> loaded -CheckDaily-> unmarked
      -CountRequest-> [first -SetRateWindow->] counted -DecrStock->
      short -GiveBack-> refused
      taken -FlushUser-> charged -FlushSale-> written -MarkDaily-> marked -Commit-> done

with the refusals `TurnAway`, `CheckDaily`, `CountRequest`, `TurnAwayPoor` on
the way. `bal` and `copy` are the ORM objects in the session: the User object is
loaded when the token is checked, and the later SELECT of the same row returns
that object unchanged (identity map), so the balance a purchase computes with is
the one at authentication. The flush writes `users` before `flash_sales` (the
sale row depends on the user by its foreign key), each UPDATE locks its row
until commit or rollback, and only changed columns are written, which is why
`FlushSale` needs the lock only if `remaining_stock` differs from the value
loaded. `Fail` is an exception or the death of the process at any await: the
transaction is rolled back, Redis keeps what was done to it. A handler that
fails after DECRBY ends "lost": nobody gives its units back.

Expiry: a rate key with a TTL may go at any time (`RateWindowEnds`); a daily key
may go in the last instant of its day or later (`DailyKeyExpires`), because its
TTL is cut to whole seconds (`flash_sale.py:43`).

### SaleLifecycle

`at` is the place of each creation, visit and delivery; `row` and `seen` what it
read. Creation: product check, overlap check, flush with SET of the counter,
message, commit, in this order (`flash_sale.py:49-111`). A PATCH writes the
fields that differ from the row it loaded. GET is not read-only: it assigns
`remaining_stock` from Redis and `get_db` commits it (`flash_sale.py:168`).
DELETE removes the counter before the row, and the row takes its purchases
along; it waits for transactions that updated the row or inserted a purchase
that refers to it (`Referred`). The task: GET, DEL, SELECT of the sale, SELECT
of its product, flush, commit; it skips a sale, and a product, that is not on
record any more, and a DELETE may come between the two SELECTs; an exception
retries the same message, at most `MaxRetries` times. A worker that dies has
acknowledged its message (`WorkerDies`), and a message that waits for its eta
beyond the visibility timeout of the Redis transport is delivered once more
(`Redeliver`).

Products: a PATCH of the stock writes the value of its body (`Restock`); a DELETE
(`DropProduct`) fails while a sale refers to the product, and waits for a
transaction that inserted such a sale or updated the product's row. A creation
whose product is gone fails at its flush (`SeedStock`), a task at its own
(`SyncGone`).

`LocksOrdered` is about who waits for whom: `Awaited(x)` are the holders of the
rows `x` is about to write, and, for a DELETE, the purchases that refer to its
sale.

`SaleHistory` adds variables that no action reads: `found`, the sales on record
when a creation passed its overlap check; `cleared`, the sales whose counter a
task or a DELETE removed, and `late`, those of them to which a refused purchase
gave units after that; `raced[d]`, the deliveries that had read the counter and
not yet removed it when `d` read it too. With them `ShelfAccounts` can say not
only that a product's stock is a value it was set to and what finished tasks gave
back, but also when two tasks of one sale may both have given back.

### Sessions

A JWT is the record of its claims with `exp` in whole seconds, so two tokens of
one user issued within one second are equal. `PerSecond` instants make a second.
`Enter` is `AuthMiddleware`, `Admit` is `get_current_user`: both decode the
token and ask for the blacklist. Clients present tokens they were answered.
That a token is still accepted within the second it expires in is how
python-jose compares `exp`.

A request of the issuers, login or refresh, has two ends: `StoreToken` is the
SETEX after which the stored token is the new one, `Answer` the arrival of the
answer. `Fail` between the two is an answer that is lost, or a handler that died
there; clients present only tokens they were answered.

`Rotation` adds `taken`: the tokens that stood in `refresh_token:{u}` when a
login or refresh of `u` stored another or a logout of `u` removed it.
`RefreshesUntilTaken` says that a token that was stored, hence every one that was
answered, is the stored one until it is in `taken` or its last second has come;
`TakenForGood` that no refresh that starts with a token in `taken` gets past the
comparison.

### Accounts

The INSERT of a registration waits for a transaction that inserted the same
username or identifier and is refused once such a row is committed: the unique
indexes of the migration. A code is named by the request that drew it, so two
equal draws are not modelled. `otp` holds a code with the instant it expires.

### Startup

`pc` of a server is where it is in `start.sh`:

    database -> cache -> broker -> migrate -> [altering ->] admin -> [insert ->] items -> serving

and `aborted` from each of them: after `MaxRetries` failed attempts for the first
two, at the first failure for the others. `alembic upgrade head` is one
transaction (`ReadVersion`, `Upgrade`); of servers that create the tables at once
one commits, the others fail on what is there. The seed is one transaction too.
Its session flushes before each SELECT (autoflush is on), so the INSERT of the
admin is sent ahead of the first lookup of a product and waits for another seed
that inserted the same email or username (`Blocked`); this ordering is what
keeps a second seed from adding the products again (`FirstSeedAddsOnce`).
`products[i]` counts the products that have the name of sample i, which no index
limits. `Kill`, `Outage` and `Return` may come at any moment; an outage of
Postgres takes the open transactions along. `Register`, `AddProduct`,
`RenameProduct` and `DropProduct` are what the API does to the same tables while
some server serves (`Answers`): a registration needs Postgres alone, the edits of
products also Redis, which the gate asks for the token.

### Backup

A run is known by the day of its message. `StartDump` opens the file named after
the current second, which may exist already; `FinishDump` is exit code 0 with the
cutoff and the glob that follow it; `FailDump` and `TimeOut` retry the message
`RetryDelay` later and leave the file where it is; `Inspect` reads the time of one
file of the glob, in any order, and `Remove` removes the one that was found too
old. Reading the time of a file another run removed raises outside the `try`
(`backup_tasks.py:114`) and breaks the run; a file that cannot be removed
(`Stuck`), or that another run has removed since the look at it, is logged and
the run goes on. `Die` is a worker that dies, or `pg_dump` that
is not there.

## 3. Runs

Every passing run also checks deadlock: each module has a disjunct for the
state in which all is answered, so a state in which handlers wait for each
other's row locks for ever would be reported.

| Run | Instance | Shows |
|---|---|---|
| `contention` | 3 purchases of up to 2 units, 2 users, 3 units, no failures, buyers symmetric | `TypeOK`, `NoOversell`, `NeverInDebt`, and `ImplementsInventory` (refinement) over all interleavings |
| `failures` | 2 purchases and a top-up of one user on 2 sales, any may fail anywhere; instants 0..3, sale open 1..2, day ends after 2; rate limit 1 | `StockInv`, `MoneyBounds`, `RowHasMark`, `MarkHasBuyer`, `WindowCloses`, `NoSecondPurchase`, `RefusedForLack`; under fairness `Answered` |
| `sale_lives` | 1 sale, 1 purchase, 1 visit of any method (PATCH moves the end or sets is_active), 2 messages, 1 redelivery, failures of all kinds, 1 retry | `SaleTypeOK`, `RowHasSale`, `ConservedWhileOpen`, `LocksOrdered`, `StaysClosed`, and `ImplementsSaleBook` (refinement) |
| `sale_settles` | 1 sale of 1 unit, 1 purchase of up to 2, PATCH or DELETE, 2 messages, an admin setting the product's stock | `FitsWhileOpen`; under fairness `SaleCloses`, `AllSettle` |
| `two_sales` | 2 sales of one product with windows that meet, nobody buys; 1 PATCH of the end or DELETE, 3 messages, a task that may fail and be retried, a PATCH of the stock, a DELETE of the product | `SaleHasProduct`, `ShelfAccounts`, `OverlapNeedsRace` |
| `sessions` | 1 user, 1 login, 2 refreshes, 1 logout, 1 other request, a refresh and the logout may fail or lose their answer; access tokens of 2 s, refresh tokens of 3 s, half-second clock up to 3 s | `BarredToTheEnd`, `RefreshesUntilTaken`, `StaysLoggedOut`, `TakenForGood` |
| `accounts` | 2 names, 2 identifiers, 2 registrations, 2 sends, 2 verifications; codes of 2 instants | `UniqueAccounts`, `RefusedForAnAccount`, `VerifiedByItsCode`, `UsedUp` |
| `startup` | 2 servers, one of which is given another admin email but the default username; 2 samples, 2 attempts, at most 2 products of a name | `ServesReady`, `FirstSeedAddsOnce`; under fairness `Decided`, `HealthyStart` |
| `backup` | 2 daily runs, days of 2 instants, dumps of 1, retention of 2, 1 retry, 1 file that cannot be removed, instants 0..7 | `Restorable`, `KeptForRetention`, `OldOnesGone`; under fairness `Ends` |

Each module has a type invariant; those of `Sessions`, `Accounts`, `Startup` and
`Backup` are proved (section 4) and not checked again.

**Why the bounds are enough.** What can go wrong needs two actors that overlap
and sometimes a third to be hurt: three purchases give two that disturb each
other and one that meets the result; two units per request and three units in
stock give requests that fit alone and not together. For the clock, one instant
inside the window, one at its end, one after it and one in the next day. For
tokens, a life of two seconds at half-second resolution meets every rounding
`int(exp - now)` can do; one user is enough to replace and remove a token, and
that other users have no part in it is what the theorems show, which hold for
any set of them. For a sale, one visit of any method against one purchase and up
to three deliveries gives each pair of writers of the row, the counter and the
shelf in every order; two sales give every pair of creations and of tasks.
Nobody buys in `two_sales`, so its two tasks of one sale give units back twice
only by their race; that besides it only a purchase compensated late can have
them do so is `ShelfIsAccounted`. `FitsWhileOpen` is checked with one purchase
in `sale_settles`; that any number of them fit is `NotOversoldWhileOpen`. Two
servers are what a check-then-insert needs, and each may start any number of
times, so that a third start meets what two left behind. Two backup runs overlap
when the first is retried or waits in the queue until the second day; the clock
runs on until both have ended with all their retries and the first file is past
its retention. Bounds named in the modules and configurations: `MaxClock`,
`MaxQuantity`, `MaxRetries` (which `Startup`, `Backup` and the task have in the
code, with larger values), `MaxRows`, `LastDay`, `LastStart` (no dump starts so
late that its timeout would lie beyond the clock), and the sets of requests,
messages and echoes, each of which a run gives in full.

**Fairness.** `FairSpec` and `FairSaleSpec` assume weak fairness of each
handler's next step (the event loop resumes a coroutine whose call was answered,
and Postgres hands a free row lock to a waiting session), of each delivery that
was sent (a worker consumes the queue) and of the clock. Nothing is assumed of
arrivals, failures, expiry or admins. Row locks are held for finitely many steps
of a handler that is itself fair, so weak fairness suffices on the instances
checked; a crowd of sessions that overtake a waiting one for ever is not
possible with finitely many requests. `FairSpec` of `Startup` assumes weak
fairness of each step of the script, and strong fairness of `InsertAdmin` alone:
other servers may restart and hold the index entry again and again, but Postgres
wakes the sessions that wait for a row in the order they came. Nothing is assumed
of launches, so `HealthyStart` speaks of a server that is started again whenever
it gave up (`[]<>(pc[s] # "aborted")`). `FairSpec` of `Backup` assumes that time
passes and workers work; `FinishDump` and `FailDump` are not fair, since
`pg_dump` may hang: that `Ends` holds is the merit of the timeout, without which
it fails (its mutant).

### Where the code departs from what the repository says

Each of these runs checks one statement and TLC answers with a behaviour of the
code that breaks it.

| Run | Statement | What happens |
|---|---|---|
| `once_per_day` | README: "Each user may only purchase once per flash sale per UTC day" | two requests pass EXISTS before either SETEX |
| `closed_on_time` | README:231: PATCH "reschedules Celery task if `end_time` changes"; README:279: "At end_time, Celery fires sync_product_stock_after_sale" | the task for the old end is not revoked; it empties the counter and closes the extended sale. The comment at `flash_sale.py:126`, "will become a no-op if it fires and finds the sale already inactive / stock already synced", names conditions the task never checks and that do not hold here |
| `sale_oversold` | README: "prevents overselling" | the task deletes the counter under purchases in flight; compensations for DECRBYs made before lift the new one above zero and a unit is sold twice |

The same models have further behaviours that depart from it and are no runs of
their own. Absolute balances computed from stale reads overwrite each other, so
a top-up or a charge is lost although README:238 says "deducted atomically":
`NeverInDebt` holds all the same, and `MoneyBounds` says how far it can go and
would not catch it. Two refreshes of one token that both read it before either
replaces it are both answered, against README:267 and :306, and one of the new
refresh tokens is dead on arrival; `TakenForGood` is about refreshes that come
later. If the answer of a refresh is lost the client is left with a token that
was taken, and has to log in again. Two verifications read one OTP before either
deletes it, and both succeed, against README:307; `UsedUp` is about those that
start after the DEL. A verification that fails after the DEL uses its code up
for nothing. Two deliveries for one sale, sent for its old and its new end or
one an echo, that both GET the counter before either DELs it both add the unsold
units to the product, against README:281; a purchase compensated after the DEL
gives the next delivery units to add again. `ShelfAccounts` admits these two
ways and no other. Units are lost when a handler fails between DECRBY and
commit, or a task after its DEL: the invariants about stock say that nothing
else goes missing, not that they come back. A request that dies between INCR and
EXPIRE leaves a rate key without a TTL, which `WindowCloses` exempts. The seed
is called idempotent and "safe to run on every startup", but it is not once two
products carry the name of a sample, or once SEED_ADMIN_EMAIL changes and the
default username is taken: then every start aborts, which is why `HealthyStart`
assumes neither. Two creations that pass the overlap check together, or a PATCH
that moves a window, leave overlapping sales; unsold units are added to
`products.stock` although creation never took them; `remaining_stock` keeps the
answer of an earlier DECRBY when commits come in another order; a refresh in
progress stores a token after a logout removed it; a login in the second of a
logout is answered a blacklisted token; a verification deletes a code sent after
the one it read.

## 4. Proofs

Assumptions: only the named ASSUMEs of the modules (sets of requests disjoint
and, for buyers, finite; prices, stocks, amounts, lifetimes positive; the
calendar monotone). TLC evaluates them in every run.

**Purchase_proofs.** `TypeCorrect`: `Spec => []TypeOK`. `StockCorrect`: the
inductive invariant `StockInv`. `NoOversell` is not inductive: that recorded
purchases fit says nothing about the counter. `StockInv` adds that the counter
is `Total` minus the units of all requests whose DECRBY stands
(`StockConserved`), that the units of *accepted* requests, whose answer was not
negative, fit in `Total`, and that only accepted requests go beyond DECRBY. In
`DecrStock` a non-negative answer means the units of all standing requests fit,
hence those of the accepted; `GiveBack` and `Fail` move a request out of or
within the set. Quantities are counted as pairs (request, number) so that a sum
is a cardinality, and `UnitsAdd`, `UnitsMonotone` and `UnitsFinite` are the
lemmas about them. From it follow `StockIsConserved`, `NeverOversold` and, as an
action property, `RefusalsNeedALack`: with no other refusal outstanding, accepted
and standing requests are the same, so a negative answer means a shortage.
The theorems hold for any set of requests that may fail. They are about
purchases of sales that stand: the life of the sale is in `SaleLifecycle`, where
`NoOversell` fails.

Sums. `Tally(f, R)` is the sum of `f` over `R`, as the number of pairs of an
element and one of its shares; `TallyAdd`, `TallyMonotone`, `TallySame` and
`TallyNone` are what the proofs know of it, for units, money and stock alike.

The type invariant comes in two parts: `BuyersOK`, what the handlers own, and
`StoreOK`, the counters and locks of sales. The steps of the other invariants
need only the first, so that they hold in `SaleLifecycle` too, where others
write the rest.

`NobodyInDebt`: every session computes from a balance that was not negative, and
a purchase subtracts no more than that (`MoneyInv`), so that updates which
overwrite each other are lost without harm to the sign. `MoneyIsBounded`
(`MoneyBounds`) is not inductive, because what a commit writes was computed from
a balance read long ago. `SessionInv` says that the balance of every session,
corrected by what the session itself added or took, lies between the same bounds:
they held when it was read and have only widened since, because prices do not
change and records stay. `RowsAreMarked` and
`MarksHaveBuyers` rest on `MarksInv`: from SETEX on a request is covered by its
key or its day is over, which the calendar being monotone keeps so
(`DaysGoOn`). `NoneGetsPastTheMark` follows, since only `CheckDaily` leads past
the key (`OnlyCheckDailyUnmarks`). `WindowsClose` is inductive as it stands.

**Inventory_proofs.** `Implements`: `Spec => ImplementsInventory`. The mapping
takes a unit to be available until an accepted request holds it and to be sold
once its request has a row. `MapReserves` shows that a DECRBY with a
non-negative answer is a `Reserve` that fits (from `StockConserved`: what is
available is at least the counter), `MapConfirms` that a commit is a `Confirm`
of units set aside (a committed request is accepted and was not recorded
before), `QuietSteps` and `MapStutters` that every other step, failures
included, is a stutter; a compensation is one because a request that waits for
it was never accepted (`ShortNotAccepted`, an invariant of its own).

**Sessions_proofs.** `TypeCorrect` needs that what was signed, and what a
request at work presents, are tokens (`TypeInv`). `BarredCorrectly`: a blacklist
entry reaches into the last second of its token. It is inductive with `TypeInv`:
`TimeLeftReach` shows that whole seconds rounded down end less than a second
early, and a later logout of the same token replaces the entry by one that also
reaches there. `LoggedOutForGood` (`StaysLoggedOut`) follows: whoever is let in
saw no live entry.

`RefreshesWhileKept` (`RefreshesUntilTaken`) and `TakenStaysTaken`
(`TakenForGood`) are about `RotationSpec` and rest on `RotationInv`: a token that
is stored or taken was signed by a request that stored it (`StoredOK`,
`TakenOK`), which keeps what it signed (`SentKeeps`); a taken token that is
stored again was signed twice (`TakenOK`); and a token that was stored and not
taken is still there, in a key that does not go before it (`KeptOK`). The last
needs that the key is set no earlier than the token was signed (`SignedOnTime`)
and that the entry of a user changes only when a login, refresh or logout of that
user takes what it holds (`WhoTakes`).

**Accounts_proofs.** `RowsInv`: committed and inserted rows are pairwise free of
clashes and every refusal has its account; the inserted rows are needed because
a commit makes them visible. `AccountsAreUnique` and `RefusalsHaveAReason`
follow. `CodesInv`: a stored code was drawn for its key, and a verification that
got past the comparison presents such a code; `VerifiedCorrectly` follows.
`UsedInv`: a code a verification deleted is not in Redis and its sender is done;
`UsedCodesAreGone` follows.

**Startup_proofs.** `SeedInv` is why `ServesWithAdmin` and `SeededOnce` hold for
any number of servers: until the first account is committed nobody serves, so
nobody registers or creates a product (`EmptyUntil`); a seed whose INSERT of the
admin went through is alone, since all admins have one name (`HolderAlone`, from
the assumption `AdminsClash`), and it can be only while there is no account
(`AdminFirst`, `NameTaken`). Without `AdminsClash` the second is false: servers
with different usernames and emails seed the products twice.

**Backup_proofs.** `AlwaysRestorable` (`Restorable`) says that no step leads from
a directory with a dump, or from a dump that succeeds, to one without. It rests
on `Witnessed`: for every run that is removing files there is a good one as young
as its cutoff plus the retention; when a run removes such a file of another it
has a younger one of its own, so the witness moves on. It needs that a
dump in progress is too young to be removed (`Dumping`, from the assumption
`SomeRetention`), that no file is from the future (`Past`), and that what a run
has found too old still is when it removes it (`Aimed`), because nobody dumps to
a name that old. `NothingTooSoon`
follows from `Cutoffs`, `NothingTooOldLeft` from `Looked`: what a run has looked
at is young enough or cannot be removed, and files only get younger.

**SaleLifecycle_proofs.** `LifeType` is the type invariant with the types of
what requests and deliveries hold. `RowSteps` lists what a step may do to
`live` and `active` of a row; `ClosedForGood` (`StaysClosed`) follows, since a
task only closes and a purchase or GET writes neither. `ProductStays` needs that
a sale has its product from its INSERT on (`ProductThere`), because the commit
makes the row visible without looking again. `SaleStays` (`RowHasSale`) needs
that a purchase has its sale from its INSERT on (`SaleThere`); it is preserved
because a DELETE waits for such purchases (`Referred`). `CounterIsConserved`
(`ConservedWhileOpen`): a counter that stands after a step stood before it or
was just set (`StandsSteps`), only DECRBY and INCRBY move units of it
(`CountSteps`), and nobody has taken any when it is set, because no purchase
gets past `LoadSale` before the creation is committed (`Unsold`). The counting
is that of `Purchase_proofs`. `NotOversoldWhileOpen` (`FitsWhileOpen`) is the
part of `NeverOversold` that survives the tasks: while the counter of a sale
stands, the units of the requests whose DECRBY was answered with enough fit in
it (`AcceptedFit`), and only those are recorded (`ServedHave`). It is silent
about a sale whose counter was taken away, of which `sale_oversold` shows that
it may be oversold.

`ShelfCorrect` is the part of `ShelfAccounts` that needs no history: the stock of
a product is `n` plus what the tasks of a set `D` gave back. The step of a commit
needs that what the task read was such a value too, and still is one although
others have finished since: `ShelfInv` says so of every task that carries a stock
it read. A message that was not sent yet is "waiting", so a retry or an echo
cannot be in `D` before it is done (`DeliverySteps`, `MailGrows`). It does not
say that two tasks of one sale never both give back; see `SaleHistory_proofs`.

*Purchases amid sales.* `PurchaseSteps`: every step of `SaleNext` is one of a
purchase or top-up, a `FlushGone`, or leaves all that handlers own alone but
`bought`, which may shrink (`Aside`). With it the invariants of `Purchase_proofs`
hold in the whole system (`BuyersInv`), with no assumption on the sales:
`NobodyInDebtAmidSales`, `RowsAreMarkedAmidSales`, `MarksHaveBuyersAmidSales`,
`WindowsCloseAmidSales`, `NoneGetsPastTheMarkAmidSales`. `MoneyBounds` is not
among them, for two reasons: a DELETE removes purchases from the record that
were paid for, and a PATCH may set a `sale_price` below zero (`FlashSaleUpdate`,
`schemas/flash_sale.py:39`, has none of the validators of `FlashSaleCreate`), at
which a purchase adds to the balance.

*Row locks.* `LocksAreOrdered`: `LocksInUse`, every lock is held by a transaction
that took it and has not ended, is inductive (`HandlerLocks`, `VisitLocks`,
`SyncLocks`; `EndsClean` for commits, rollbacks and deaths). Whoever holds the
row of a user or product waits for holders of rows of sales at most
(`UsersFirst`), and those wait for nobody, so that no chain of waits is longer
than two and none closes.

*The book of sales.* `SalesAreABook`: `SaleSpec => ImplementsSaleBook`. The
mapping needs that nothing is done to a sale before its creation is committed
(`CreatedFirst`): else a DELETE of a sale not yet published would be a
withdrawal the book does not know. `AdminBook` maps `CommitCreation` to
`Publish`, the commits of PATCHes and tasks to `Switch` or a stutter, and a
`CommitDelete` to `Withdraw`, or to a stutter if another came before it, for then
there is no purchase left to remove (`SaleThere`). `BuyBook` maps `LoadSale` to
`Admit`, `Commit` to `Record`, every refusal and failure after `LoadSale` to
`Dismiss`, the other steps to stutters. That a purchase may be recorded when its
sale was switched off meanwhile is in the book: the window and `is_active` are
checked once, at `LoadSale`.

**SaleHistory_proofs.** The history variables only watch (`WatchOnly`), so all
that is proved of `SaleSpec` holds. `OverlapsAreRaces` (`OverlapNeedsRace`): a sale
whose window no PATCH moved has the one of its creation (`WindowSteps`); a
creation that was let through found no sale on record that meets it.

`ShelfIsAccounted` (`ShelfAccounts`) adds to `ShelfInv` the invariant `TwiceInv`:
a counter that was removed holds no more than 0 unless a purchase was compensated
after that (`late`), since only its creation sets it and DECRBY makes it smaller
(`CounterSteps`); whoever is past the removal has removed it (`PastSteps`); so two
deliveries of one sale that both carry units have read the counter before either
removed it (`raced`), or late. A delivery that reads after the removal of another
reads nothing else, whether it is a retry, an echo or the task for another end.

**Only model-checked:** liveness (`Answered`, `SaleCloses`, `AllSettle`,
`Decided`, `HealthyStart`, `Ends`), which is beyond this prover: it needs
ENABLED under weak fairness. Every invariant, action property and refinement the
passing runs check is proved for all constants.

## 5. Abstractions

- Names, descriptions, images of rows that no rule reads, response formats,
  logging, password hashing and the syntax of identifiers are left out. Whether
  a password is right is an input.
- Money is integers; the width of `Numeric(10, 2)` is not modelled, a flush that
  fails for it is a `Fail`.
- Price and window may change only in `SaleLifecycle`, by PATCH.
- An UPDATE waits for its row as a whole; setting a flag in `verify_otp` and its
  commit are one step, since nothing else writes these columns.
- A PATCH or DELETE of a product is one step (`Restock`, `DropProduct`,
  `RenameProduct`): it writes the values of its body and depends on nothing it
  read but that the row exists. In `Startup`, products are counted by the sample
  whose name they have; others do not matter to the seed.
- `alembic upgrade head` creates all tables in one transaction; the ping of the
  Celery workers, which only warns, and the pauses between attempts are left out.
- A dump is whole or not; two `pg_dump`s that wrote one file leave either.
- A creation, visit or delivery is used once; an admin's second request is
  another identity.

## 6. Not modelled

Password hashing and response schemas have no state. Settings are constants.
`downgrade` of the migration is called by no code. The connection pools: a
request that waits for a connection holds none that others wait for, and an
exhausted pool raises, which is a `Fail`. The rate limit over 60 seconds of real
time: a window is a key that may go once it has a TTL. Reads that only read
(lists, purchase history, balance) change nothing. The widths of `Numeric`
columns, beyond which a flush fails.

## 7. Plan

1. *Done*: `Purchase` with `Inventory`; `SaleLifecycle` with one sale and two,
   and with `SaleBook`; `Sessions` with lost answers; `Accounts`; `Startup`;
   `Backup`; theorems about each, for every property that is not liveness.
2. To prove: abstract specifications of `Sessions` and of `Accounts`, with the
   refinements; that `SaleLifecycle` implements an inventory while a counter
   stands; how far balances can stray when sales are deleted or re-priced (what
   was paid counted over the requests answered, and prices of either sign).
3. To check: larger instances of `sale_settles` (two purchases against one task)
   and of `startup` (three servers), where time allows.
