------------------------------ MODULE Startup ------------------------------
(***************************************************************************)
(* start.sh: wait for Postgres and Redis, migrate, seed, serve; as run by  *)
(* any number of servers that share one database, over and over again.     *)
(* Meanwhile the servers that serve let people register and admins create, *)
(* rename and delete products.                                             *)
(*                                                                         *)
(* The seed is one transaction.  Its session flushes what it added before  *)
(* every SELECT, so the row of the admin is inserted, and holds the unique *)
(* indexes of users, before the first product is looked up.                *)
(***************************************************************************)
EXTENDS Integers

CONSTANTS
  Servers,
  Emails, Names,  \* of accounts
  AdminOf,        \* SEED_ADMIN_EMAIL and SEED_ADMIN_USERNAME of each server
  Samples,        \* how many products SEED_PRODUCTS lists
  MaxRetries,     \* MAX_RETRIES of start.sh
  MaxRows         \* bound: products the API lets have one name

Accounts == [email : Emails, name : Names]
Items    == 1..Samples
Services == {"postgres", "redis"}

ASSUME StartupAssumption ==
  /\ AdminOf \in [Servers -> Accounts]
  /\ Samples \in Nat \ {0}
  /\ MaxRetries \in Nat \ {0}
  /\ MaxRows \in Nat

(* The default username is the same everywhere.                            *)
ASSUME AdminsClash ==
  \A s, t \in Servers : AdminOf[s].name = AdminOf[t].name

VARIABLES
  up,        \* the services that answer
  schema,    \* the migration is committed
  users,     \* accounts on record
  admins,    \* those among them with is_admin
  products,  \* how many products have the name of each sample
  pc,        \* where each server is in start.sh
  tries,     \* failed attempts of its current check
  creates,   \* its seed adds the admin
  item,      \* the sample its seed looks up next
  fresh      \* the samples its seed adds

data  == <<users, admins, products>>
seeds == <<creates, item, fresh>>
vars  == <<up, schema, data, pc, tries, seeds>>

-----------------------------------------------------------------------------
Checks  == {"database", "cache", "broker", "migrate", "admin"}
InTransaction == {"altering", "insert", "items"}
Stages  == {"down", "aborted", "serving"} \cup Checks \cup InTransaction

Go(s, from, to) == pc[s] = from /\ pc' = [pc EXCEPT ![s] = to]

Clashes(a, b) == a.email = b.email \/ a.name = b.name
Taken(a)   == \E b \in users : Clashes(a, b)
(* Seeds whose INSERT of an admin is not committed yet. *)
Holds(s)   == pc[s] = "items" /\ creates[s]
Blocked(a) == \E s \in Servers : Holds(s) /\ Clashes(a, AdminOf[s])

Init ==
  /\ up \in SUBSET Services
  /\ schema = FALSE
  /\ users = {}
  /\ admins = {}
  /\ products = [i \in Items |-> 0]
  /\ pc = [s \in Servers |-> "down"]
  /\ tries = [s \in Servers |-> 0]
  /\ creates = [s \in Servers |-> FALSE]
  /\ item = [s \in Servers |-> 1]
  /\ fresh = [s \in Servers |-> {}]

-----------------------------------------------------------------------------
(* start.sh *)

Launch(s) ==
  /\ pc[s] \in {"down", "aborted"}
  /\ pc' = [pc EXCEPT ![s] = "database"]
  /\ tries' = [tries EXCEPT ![s] = 0]
  /\ UNCHANGED <<up, schema, data, seeds>>

(* Mutant: attempts are not counted. *)
Attempt_Uncounted(s, service, from, to) ==
  /\ \/ service \in up    /\ Go(s, from, to)
     \/ service \notin up /\ Go(s, from, from)
  /\ UNCHANGED <<up, schema, data, tries, seeds>>

(* One attempt of a check that is repeated; the last one that fails aborts. *)
Attempt(s, service, from, to) ==
  /\ \/ service \in up /\ Go(s, from, to) /\ tries' = [tries EXCEPT ![s] = 0]
     \/ /\ service \notin up
        /\ tries' = [tries EXCEPT ![s] = @ + 1]
        /\ \/ tries[s] + 1 < MaxRetries  /\ Go(s, from, from)
           \/ tries[s] + 1 >= MaxRetries /\ Go(s, from, "aborted")
  /\ UNCHANGED <<up, schema, data, seeds>>

CheckPostgres(s) == Attempt(s, "postgres", "database", "cache")
CheckRedis(s)    == Attempt(s, "redis", "cache", "broker")

(* The password and the broker are tried once. *)
CheckBroker(s) ==
  /\ \/ "redis" \in up    /\ Go(s, "broker", "migrate")
     \/ "redis" \notin up /\ Go(s, "broker", "aborted")
  /\ UNCHANGED <<up, schema, data, tries, seeds>>

(* alembic upgrade head: nothing to do, or a transaction that creates the  *)
(* tables.                                                                 *)
ReadVersion(s) ==
  /\ \/ "postgres" \in up /\ schema  /\ Go(s, "migrate", "admin")
     \/ "postgres" \in up /\ ~schema /\ Go(s, "migrate", "altering")
     \/ "postgres" \notin up /\ Go(s, "migrate", "aborted")
  /\ UNCHANGED <<up, schema, data, tries, seeds>>

(* Of several that create the tables one commits, the others find them.    *)
Upgrade(s) ==
  /\ \/ ~schema /\ Go(s, "altering", "admin") /\ schema' = TRUE
     \/ schema  /\ Go(s, "altering", "aborted") /\ UNCHANGED schema
  /\ UNCHANGED <<up, data, tries, seeds>>

-----------------------------------------------------------------------------
(* scripts/seed.py *)

(* The process of the seed ends, and with it what it remembers. *)
Forget(S) ==
  /\ creates' = [s \in Servers |-> s \notin S /\ creates[s]]
  /\ item' = [s \in Servers |-> IF s \in S THEN 1 ELSE item[s]]
  /\ fresh' = [s \in Servers |-> IF s \in S THEN {} ELSE fresh[s]]

(* Mutant: the admin is added without looking. *)
SelectAdmin_Blind(s) ==
  /\ "postgres" \in up
  /\ Go(s, "admin", "insert") /\ creates' = [creates EXCEPT ![s] = TRUE]
  /\ UNCHANGED <<up, schema, data, tries, item, fresh>>

(* Is there a user with the email of the admin? *)
SelectAdmin(s) ==
  /\ \/ /\ "postgres" \in up
        /\ \E a \in users : a.email = AdminOf[s].email
        /\ Go(s, "admin", "items") /\ UNCHANGED creates
     \/ /\ "postgres" \in up
        /\ \A a \in users : a.email # AdminOf[s].email
        /\ Go(s, "admin", "insert") /\ creates' = [creates EXCEPT ![s] = TRUE]
     \/ /\ "postgres" \notin up
        /\ Go(s, "admin", "aborted") /\ UNCHANGED creates
  /\ UNCHANGED <<up, schema, data, tries, item, fresh>>

(* Mutant: the columns of users have no unique index. *)
InsertAdmin_Anyhow(s) ==
  /\ Go(s, "insert", "items") /\ UNCHANGED seeds
  /\ UNCHANGED <<up, schema, data, tries>>

(* The flush before the first SELECT of a product.  The INSERT waits for a *)
(* transaction that inserted such a row, and fails if one is committed.    *)
InsertAdmin(s) ==
  /\ ~Blocked(AdminOf[s])
  /\ \/ ~Taken(AdminOf[s]) /\ Go(s, "insert", "items") /\ UNCHANGED seeds
     \/ Taken(AdminOf[s])  /\ Go(s, "insert", "aborted") /\ Forget({s})
  /\ UNCHANGED <<up, schema, data, tries>>

(* Look one sample up by its name: scalar_one_or_none raises if there are  *)
(* several.                                                                *)
SeedProduct(s) ==
  LET i == item[s]
  IN /\ i \in Items
     /\ \/ /\ products[i] > 1 /\ Go(s, "items", "aborted") /\ Forget({s})
        \/ /\ products[i] <= 1 /\ Go(s, "items", "items")
           /\ fresh' = IF products[i] = 0 THEN [fresh EXCEPT ![s] = @ \cup {i}] ELSE fresh
           /\ item' = [item EXCEPT ![s] = @ + 1]
           /\ UNCHANGED creates
     /\ UNCHANGED <<up, schema, data, tries>>

(* Mutant: the admin is not made one.                                      *)
CommitSeed_NoAdmin(s) ==
  /\ item[s] \notin Items
  /\ Go(s, "items", "serving")
  /\ users' = IF creates[s] THEN users \cup {AdminOf[s]} ELSE users
  /\ products' = [i \in Items |-> products[i] + IF i \in fresh[s] THEN 1 ELSE 0]
  /\ Forget({s})
  /\ UNCHANGED <<up, schema, admins, tries>>

(* session.begin() commits, and uvicorn starts. *)
CommitSeed(s) ==
  LET new == IF creates[s] THEN {AdminOf[s]} ELSE {}
  IN /\ item[s] \notin Items
     /\ Go(s, "items", "serving")
     /\ users' = users \cup new
     /\ admins' = admins \cup new
     /\ products' = [i \in Items |-> products[i] + IF i \in fresh[s] THEN 1 ELSE 0]
     /\ Forget({s})
     /\ UNCHANGED <<up, schema, tries>>

Start(s) == \/ CheckPostgres(s) \/ CheckRedis(s)  \/ CheckBroker(s) \/ ReadVersion(s)
            \/ Upgrade(s)       \/ SelectAdmin(s) \/ SeedProduct(s) \/ CommitSeed(s)

(* The process is killed, wherever it is. *)
Kill(s) ==
  /\ pc[s] # "down"
  /\ pc' = [pc EXCEPT ![s] = "down"]
  /\ Forget({s})
  /\ UNCHANGED <<up, schema, data, tries>>

(* A service goes away; Postgres takes open transactions along. *)
Outage(v) ==
  LET hit == IF v = "postgres" THEN {s \in Servers : pc[s] \in InTransaction} ELSE {}
  IN /\ v \in up
     /\ up' = up \ {v}
     /\ pc' = [s \in Servers |-> IF s \in hit THEN "aborted" ELSE pc[s]]
     /\ Forget(hit)
     /\ UNCHANGED <<schema, data, tries>>

Return(v) == /\ v \in Services \ up
             /\ up' = up \cup {v}
             /\ UNCHANGED <<schema, data, pc, tries, seeds>>

-----------------------------------------------------------------------------
(* What the API does to these tables, while a server serves. *)

(* uvicorn runs; a request needs the services its endpoint calls. *)
Answers(S) == S \subseteq up /\ \E s \in Servers : pc[s] = "serving"

(* POST /auth/register, which does without Redis. *)
Register(a) ==
  /\ Answers({"postgres"})
  /\ ~Blocked(a) /\ ~Taken(a)
  /\ users' = users \cup {a}
  /\ UNCHANGED <<up, schema, admins, products, pc, tries, seeds>>

(* What an admin makes of the products: the gate asks Redis for the token  *)
(* and Postgres for the user.                                              *)
SetRows(f) == /\ Answers(Services)
              /\ products' = f
              /\ UNCHANGED <<up, schema, users, admins, pc, tries, seeds>>

(* POST /products: no two products need to differ in their name. *)
AddProduct(i) ==
  products[i] < MaxRows /\ SetRows([products EXCEPT ![i] = @ + 1])

(* PATCH /products/{id} may change the name. *)
RenameProduct(i, j) ==
  /\ i # j /\ products[i] > 0 /\ products[j] < MaxRows
  /\ SetRows([products EXCEPT ![i] = @ - 1, ![j] = @ + 1])

(* DELETE /products/{id}, or a PATCH to the name of no sample; a product   *)
(* with flash sales is not deleted.                                        *)
DropProduct(i) ==
  products[i] > 0 /\ SetRows([products EXCEPT ![i] = @ - 1])

Next ==
  \/ \E s \in Servers : Launch(s) \/ Start(s) \/ InsertAdmin(s) \/ Kill(s)
  \/ \E v \in Services : Outage(v) \/ Return(v)
  \/ \E a \in Accounts : Register(a)
  \/ \E i \in Items : AddProduct(i) \/ DropProduct(i)
  \/ \E i, j \in Items : RenameProduct(i, j)

Spec == Init /\ [][Next]_vars

(* The script runs on; Postgres wakes the sessions that wait for a row in  *)
(* the order they came.                                                    *)
FairSpec == /\ Spec
            /\ \A s \in Servers : WF_vars(Start(s)) /\ SF_vars(InsertAdmin(s))

-----------------------------------------------------------------------------
TypeOK ==
  /\ up \subseteq Services
  /\ schema \in BOOLEAN
  /\ users \subseteq Accounts
  /\ admins \subseteq Accounts
  /\ products \in [Items -> Nat]
  /\ pc \in [Servers -> Stages]
  /\ tries \in [Servers -> 0..MaxRetries]
  /\ creates \in [Servers -> BOOLEAN]
  /\ item \in [Servers -> 1..(Samples + 1)]
  /\ fresh \in [Servers -> SUBSET Items]

(* No server serves before the tables are there and the database has an    *)
(* admin, whatever fails on the way: the first account is always the one   *)
(* the seed makes, since nobody can register before.                       *)
ServesReady ==
  (\E s \in Servers : pc[s] = "serving") => schema /\ admins \cap users # {}

(* However many servers start together, a seed that makes the admin does   *)
(* not repeat a product: the unique index of the admin, in the same        *)
(* transaction, lets one of them through.                                  *)
FirstSeedAddsOnce ==
  [][\A s \in Servers :
       pc[s] = "items" /\ pc'[s] = "serving" /\ creates[s]
         => \A i \in Items : products'[i] <= 1]_vars

(* Every start ends: it serves or gives up, however often services come    *)
(* and go and whoever else starts.                                         *)
Decided ==
  \A s \in Servers :
    pc[s] \in Checks \cup InTransaction ~> pc[s] \in {"serving", "aborted", "down"}

(* A system in order starts: when the services answer, nobody kills the    *)
(* server, the admin is there and no sample name is used twice, then a     *)
(* start that is repeated whenever it gave up serves in the end.           *)
InOrder(s) == /\ up = Services /\ schema /\ pc[s] # "down"
              /\ \E a \in users : a.email = AdminOf[s].email
              /\ \A i \in Items : products[i] <= 1
HealthyStart ==
  \A s \in Servers :
    <>[]InOrder(s) /\ []<>(pc[s] # "aborted") => <>[](pc[s] = "serving")
=============================================================================
