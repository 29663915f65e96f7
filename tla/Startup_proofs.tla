--------------------------- MODULE Startup_proofs ---------------------------
(***************************************************************************)
(* Proofs about Startup, for any number of servers, accounts and products: *)
(* types, that a server that serves finds its tables and an admin, and     *)
(* that the seed which makes the admin adds no product a second time.      *)
(***************************************************************************)
EXTENDS Startup, TLAPS

(* A check that goes on has attempts left.                                 *)
AttemptsLeft == \A s \in Servers : pc[s] \in {"database", "cache"} => tries[s] < MaxRetries
TypeInv == TypeOK /\ AttemptsLeft

LEMMA TypeInit == Init => TypeInv
<1> SUFFICES ASSUME Init PROVE TypeInv
  OBVIOUS
<1>1. MaxRetries \in Nat \ {0} /\ Samples \in Nat \ {0}
  BY StartupAssumption
<1>2. 1 \in 1..(Samples + 1) /\ 0 \in 0..MaxRetries
  BY <1>1
<1>3. TypeOK
  BY <1>2 DEF Init, TypeOK, Stages
<1>4. AttemptsLeft
  BY <1>1 DEF Init, AttemptsLeft
<1> QED
  BY <1>3, <1>4 DEF TypeInv

LEMMA AttemptStep ==
  ASSUME TypeInv, NEW s \in Servers, NEW service, NEW from \in {"database", "cache"},
         NEW to \in {"cache", "broker"}, Attempt(s, service, from, to)
  PROVE  TypeInv'
<1>0. UNCHANGED <<up, schema, data, seeds>>
  BY DEF Attempt
<1>1. /\ pc \in [Servers -> Stages] /\ tries \in [Servers -> 0..MaxRetries]
      /\ MaxRetries \in Nat \ {0}
  BY StartupAssumption DEF TypeInv, TypeOK
<1>2. CASE Go(s, from, to) /\ tries' = [tries EXCEPT ![s] = 0]
  <2>1. pc' \in [Servers -> Stages] /\ tries' \in [Servers -> 0..MaxRetries] /\ AttemptsLeft'
    BY <1>1, <1>2 DEF Go, Stages, Checks, TypeInv, AttemptsLeft
  <2> QED
    BY <1>0, <2>1 DEF TypeInv, TypeOK, data, seeds
<1>3. CASE Go(s, from, from) /\ tries' = [tries EXCEPT ![s] = @ + 1] /\ tries[s] + 1 < MaxRetries
  <2>1. pc' \in [Servers -> Stages] /\ tries' \in [Servers -> 0..MaxRetries] /\ AttemptsLeft'
    BY <1>1, <1>3 DEF Go, Stages, Checks, TypeInv, AttemptsLeft
  <2> QED
    BY <1>0, <2>1 DEF TypeInv, TypeOK, data, seeds
<1>4. CASE Go(s, from, "aborted") /\ tries' = [tries EXCEPT ![s] = @ + 1]
  <2>1. tries[s] < MaxRetries
    BY <1>4 DEF Go, TypeInv, AttemptsLeft
  <2>2. pc' \in [Servers -> Stages] /\ tries' \in [Servers -> 0..MaxRetries] /\ AttemptsLeft'
    BY <1>1, <1>4, <2>1 DEF Go, Stages, Checks, TypeInv, AttemptsLeft
  <2> QED
    BY <1>0, <2>2 DEF TypeInv, TypeOK, data, seeds
<1> QED
  BY <1>2, <1>3, <1>4 DEF Attempt

(* A step that moves one server on, past the checks that are repeated.     *)
LEMMA MoveStep ==
  ASSUME TypeInv, UNCHANGED <<up, tries>>,
         schema' \in BOOLEAN, users' \subseteq Accounts, admins' \subseteq Accounts,
         products' \in [Items -> Nat], creates' \in [Servers -> BOOLEAN],
         item' \in [Servers -> 1..(Samples + 1)], fresh' \in [Servers -> SUBSET Items],
         NEW S \in SUBSET Servers,
         NEW to \in Stages \ {"database", "cache"},
         pc' = [s \in Servers |-> IF s \in S THEN to ELSE pc[s]]
  PROVE  TypeInv'
<1>1. pc' \in [Servers -> Stages]
  BY DEF TypeInv, TypeOK
<1>2. AttemptsLeft'
  BY DEF TypeInv, AttemptsLeft
<1> QED
  BY <1>1, <1>2 DEF TypeInv, TypeOK

LEMMA GoMoves ==
  ASSUME TypeInv, NEW s \in Servers, NEW from, NEW to, Go(s, from, to)
  PROVE  pc' = [t \in Servers |-> IF t \in {s} THEN to ELSE pc[t]]
  BY DEF Go, TypeInv, TypeOK

LEMMA ForgetType ==
  ASSUME TypeInv, NEW S \in SUBSET Servers, Forget(S)
  PROVE  /\ creates' \in [Servers -> BOOLEAN]
         /\ item' \in [Servers -> 1..(Samples + 1)]
         /\ fresh' \in [Servers -> SUBSET Items]
<1>1. 1 \in 1..(Samples + 1)
  BY StartupAssumption
<1>2. /\ creates \in [Servers -> BOOLEAN] /\ item \in [Servers -> 1..(Samples + 1)]
      /\ fresh \in [Servers -> SUBSET Items]
  BY DEF TypeInv, TypeOK
<1> QED
  BY <1>1, <1>2 DEF Forget

LEMMA TypeStep == TypeInv /\ [Next]_vars => TypeInv'
<1> SUFFICES ASSUME TypeInv, [Next]_vars PROVE TypeInv'
  OBVIOUS
<1> USE DEF data, seeds
<1>0. /\ up \subseteq Services /\ schema \in BOOLEAN
      /\ users \subseteq Accounts /\ admins \subseteq Accounts /\ products \in [Items -> Nat]
      /\ creates \in [Servers -> BOOLEAN] /\ item \in [Servers -> 1..(Samples + 1)]
      /\ fresh \in [Servers -> SUBSET Items]
      /\ AdminOf \in [Servers -> Accounts] /\ Samples \in Nat \ {0}
      /\ MaxRetries \in Nat \ {0}
  BY StartupAssumption DEF TypeInv, TypeOK
<1>1. ASSUME NEW s \in Servers, Launch(s) PROVE TypeInv'
  BY <1>1, StartupAssumption DEF Launch, TypeInv, TypeOK, AttemptsLeft, Stages, Checks
<1>2. ASSUME NEW s \in Servers, CheckPostgres(s) \/ CheckRedis(s) PROVE TypeInv'
  BY <1>2, AttemptStep DEF CheckPostgres, CheckRedis
<1>3. ASSUME NEW s \in Servers, CheckBroker(s) \/ ReadVersion(s) PROVE TypeInv'
  <2>1. PICK from, to \in Stages \ {"database", "cache"} : Go(s, from, to)
    BY <1>3 DEF CheckBroker, ReadVersion, Stages, Checks, InTransaction
  <2>2. pc' = [t \in Servers |-> IF t \in {s} THEN to ELSE pc[t]]
    BY <2>1, GoMoves
  <2>3. UNCHANGED <<up, schema, data, tries, seeds>>
    BY <1>3 DEF CheckBroker, ReadVersion
  <2> QED
    BY <1>0, <2>2, <2>3, MoveStep
<1>4. ASSUME NEW s \in Servers, Upgrade(s) PROVE TypeInv'
  <2>1. PICK to \in Stages \ {"database", "cache"} : Go(s, "altering", to)
    BY <1>4 DEF Upgrade, Stages, Checks
  <2>2. pc' = [t \in Servers |-> IF t \in {s} THEN to ELSE pc[t]]
    BY <2>1, GoMoves
  <2>3. UNCHANGED <<up, data, tries, seeds>> /\ schema' \in BOOLEAN
    BY <1>0, <1>4 DEF Upgrade
  <2> QED
    BY <1>0, <2>2, <2>3, MoveStep
<1>5. ASSUME NEW s \in Servers, SelectAdmin(s) PROVE TypeInv'
  <2>1. PICK to \in Stages \ {"database", "cache"} : Go(s, "admin", to)
    BY <1>5 DEF SelectAdmin, Stages, InTransaction
  <2>2. pc' = [t \in Servers |-> IF t \in {s} THEN to ELSE pc[t]]
    BY <2>1, GoMoves
  <2>3. UNCHANGED <<up, schema, data, tries, item, fresh>> /\ creates' \in [Servers -> BOOLEAN]
    BY <1>0, <1>5 DEF SelectAdmin
  <2> QED
    BY <1>0, <2>2, <2>3, MoveStep
<1>6. ASSUME NEW s \in Servers, InsertAdmin(s) PROVE TypeInv'
  <2>1. PICK to \in Stages \ {"database", "cache"} : Go(s, "insert", to)
    BY <1>6 DEF InsertAdmin, Stages, InTransaction
  <2>2. pc' = [t \in Servers |-> IF t \in {s} THEN to ELSE pc[t]]
    BY <2>1, GoMoves
  <2>3. /\ creates' \in [Servers -> BOOLEAN] /\ item' \in [Servers -> 1..(Samples + 1)]
        /\ fresh' \in [Servers -> SUBSET Items] /\ UNCHANGED <<up, schema, data, tries>>
    BY <1>0, <1>6, ForgetType DEF InsertAdmin
  <2> QED
    BY <1>0, <2>2, <2>3, MoveStep
<1>7. ASSUME NEW s \in Servers, SeedProduct(s) PROVE TypeInv'
  <2>1. PICK to \in Stages \ {"database", "cache"} : Go(s, "items", to)
    BY <1>7 DEF SeedProduct, Stages, InTransaction
  <2>2. pc' = [t \in Servers |-> IF t \in {s} THEN to ELSE pc[t]]
    BY <2>1, GoMoves
  <2>3. item[s] \in Items /\ UNCHANGED <<up, schema, data, tries>>
    BY <1>7 DEF SeedProduct
  <2>4. /\ creates' \in [Servers -> BOOLEAN] /\ item' \in [Servers -> 1..(Samples + 1)]
        /\ fresh' \in [Servers -> SUBSET Items]
    <3>1. CASE Forget({s})
      BY <3>1, ForgetType
    <3>2. CASE /\ fresh' = IF products[item[s]] = 0
                           THEN [fresh EXCEPT ![s] = @ \cup {item[s]}] ELSE fresh
               /\ item' = [item EXCEPT ![s] = @ + 1]
               /\ UNCHANGED creates
      <4>1. item[s] + 1 \in 1..(Samples + 1)
        BY <1>0, <2>3 DEF Items
      <4> QED
        BY <1>0, <2>3, <3>2, <4>1
    <3> QED
      BY <1>7, <3>1, <3>2 DEF SeedProduct
  <2> QED
    BY <1>0, <2>2, <2>3, <2>4, MoveStep
<1>8. ASSUME NEW s \in Servers, CommitSeed(s) PROVE TypeInv'
  <2>1. pc' = [t \in Servers |-> IF t \in {s} THEN "serving" ELSE pc[t]]
    BY <1>8, GoMoves DEF CommitSeed
  <2>2. /\ creates' \in [Servers -> BOOLEAN] /\ item' \in [Servers -> 1..(Samples + 1)]
        /\ fresh' \in [Servers -> SUBSET Items]
    BY <1>8, ForgetType DEF CommitSeed
  <2>3. users' \subseteq Accounts /\ admins' \subseteq Accounts /\ UNCHANGED <<up, schema, tries>>
    BY <1>0, <1>8 DEF CommitSeed
  <2>4. products' \in [Items -> Nat]
    BY <1>0, <1>8 DEF CommitSeed
  <2>5. "serving" \in Stages \ {"database", "cache"}
    BY DEF Stages
  <2> QED
    BY <1>0, <2>1, <2>2, <2>3, <2>4, <2>5, MoveStep
<1>9. ASSUME NEW s \in Servers, Kill(s) PROVE TypeInv'
  <2>1. pc' = [t \in Servers |-> IF t \in {s} THEN "down" ELSE pc[t]]
    BY <1>9 DEF Kill, TypeInv, TypeOK
  <2>2. /\ creates' \in [Servers -> BOOLEAN] /\ item' \in [Servers -> 1..(Samples + 1)]
        /\ fresh' \in [Servers -> SUBSET Items] /\ UNCHANGED <<up, schema, data, tries>>
    BY <1>9, ForgetType DEF Kill
  <2>3. "down" \in Stages \ {"database", "cache"}
    BY DEF Stages
  <2> QED
    BY <1>0, <2>1, <2>2, <2>3, MoveStep
<1>10. ASSUME NEW v \in Services, Outage(v) PROVE TypeInv'
  <2> DEFINE hit == IF v = "postgres" THEN {s \in Servers : pc[s] \in InTransaction} ELSE {}
  <2>1. pc' = [s \in Servers |-> IF s \in hit THEN "aborted" ELSE pc[s]] /\ Forget(hit)
    BY <1>10 DEF Outage
  <2>2. hit \in SUBSET Servers
    OBVIOUS
  <2>3. /\ up' \subseteq Services /\ UNCHANGED <<schema, data, tries>>
    BY <1>0, <1>10 DEF Outage
  <2> HIDE DEF hit
  <2>4. /\ creates' \in [Servers -> BOOLEAN] /\ item' \in [Servers -> 1..(Samples + 1)]
        /\ fresh' \in [Servers -> SUBSET Items]
    BY <2>1, <2>2, ForgetType
  <2>5. pc' \in [Servers -> Stages] /\ AttemptsLeft'
    BY <2>1, <2>2, <2>3 DEF TypeInv, TypeOK, AttemptsLeft, Stages
  <2> QED
    BY <1>0, <2>3, <2>4, <2>5 DEF TypeInv, TypeOK
<1>11. ASSUME NEW v \in Services, Return(v) PROVE TypeInv'
  BY <1>11 DEF Return, TypeInv, TypeOK, AttemptsLeft
<1>12. ASSUME NEW a \in Accounts, Register(a) PROVE TypeInv'
  BY <1>12 DEF Register, TypeInv, TypeOK, AttemptsLeft
<1>13. ASSUME NEW i \in Items, NEW j \in Items, AddProduct(i) \/ DropProduct(i) \/ RenameProduct(i, j)
       PROVE TypeInv'
  <2>1. products' \in [Items -> Nat]
    BY <1>0, <1>13 DEF AddProduct, DropProduct, RenameProduct, SetRows
  <2> QED
    BY <1>13, <2>1 DEF AddProduct, DropProduct, RenameProduct, SetRows, TypeInv, TypeOK, AttemptsLeft
<1>14. CASE UNCHANGED vars
  BY <1>14 DEF vars, TypeInv, TypeOK, AttemptsLeft
<1> QED
  BY <1>1, <1>2, <1>3, <1>4, <1>5, <1>6, <1>7, <1>8, <1>9, <1>10, <1>11, <1>12, <1>13, <1>14
  DEF Next, Start

LEMMA TypeInvariant == Spec => []TypeInv
  BY TypeInit, TypeStep, PTL DEF Spec

(* Every reachable state of a start is well typed: no check is tried more  *)
(* than MAX_RETRIES times, and no product is removed twice.                *)
THEOREM TypeCorrect == Spec => []TypeOK
<1>1. TypeInv => TypeOK
  BY DEF TypeInv
<1> QED
  BY <1>1, TypeInvariant, PTL

-----------------------------------------------------------------------------
(* The seed that makes the admin works on an empty database, alone: nobody *)
(* can register or create a product before a server serves, the admins of  *)
(* all servers have one name, and the INSERT of the first holds it until   *)
(* it commits.                                                             *)

TablesThere == \A s \in Servers :
                 pc[s] \in {"admin", "insert", "items", "serving"} => schema
Creating    == \A s \in Servers : /\ pc[s] = "insert" => creates[s]
                                  /\ creates[s] => pc[s] \in {"insert", "items"}
AdminFirst  == users # {} => \E s \in Servers : AdminOf[s] \in admins \cap users
EmptyUntil  == users = {} => /\ \A i \in Items : products[i] = 0
                             /\ \A s \in Servers : pc[s] # "serving"
HolderAlone == \A s \in Servers : Holds(s) =>
                 users = {} /\ \A t \in Servers : Holds(t) => t = s
FoundAdmin  == \A s \in Servers : pc[s] = "items" /\ ~creates[s] => users # {}

SeedInv == TablesThere /\ Creating /\ AdminFirst /\ EmptyUntil /\ HolderAlone /\ FoundAdmin

LEMMA SeedInit == Init => SeedInv
  BY DEF Init, SeedInv, TablesThere, Creating, AdminFirst, EmptyUntil, HolderAlone,
     FoundAdmin, Holds

(* Once there is an account no seed can insert its admin.                  *)
LEMMA NameTaken ==
  ASSUME SeedInv, users # {}, NEW s \in Servers
  PROVE  Taken(AdminOf[s])
<1>1. PICK t \in Servers : AdminOf[t] \in users
  BY DEF SeedInv, AdminFirst
<1>2. AdminOf[s].name = AdminOf[t].name
  BY AdminsClash
<1> QED
  BY <1>1, <1>2 DEF Taken, Clashes

(* A step that leaves the data alone: each server stays where it is, or is *)
(* sent outside the seed, or gets on in it with what that needs.           *)
LEMMA DataStands ==
  ASSUME SeedInv, UNCHANGED data, schema => schema',
         \A s \in Servers :
           \/ pc'[s] = pc[s] /\ creates'[s] = creates[s]
           \/ pc'[s] \notin {"admin", "insert", "items", "serving"} /\ ~creates'[s]
           \/ pc'[s] = "admin" /\ schema' /\ ~creates'[s]
           \/ pc'[s] = "insert" /\ schema /\ creates'[s]
           \/ pc'[s] = "items" /\ schema /\ ~creates'[s] /\ users # {},
         \A s \in Servers : Holds(s)' => Holds(s)
  PROVE  SeedInv'
<1>1. TablesThere' /\ Creating'
  BY DEF SeedInv, TablesThere, Creating
<1>2. AdminFirst' /\ EmptyUntil'
  BY DEF SeedInv, AdminFirst, EmptyUntil, data
<1>3. HolderAlone'
  BY DEF SeedInv, HolderAlone, data
<1>4. FoundAdmin'
  BY DEF SeedInv, FoundAdmin, data
<1> QED
  BY <1>1, <1>2, <1>3, <1>4 DEF SeedInv

LEMMA InsertStep ==
  ASSUME TypeInv, SeedInv, NEW s \in Servers, InsertAdmin(s)
  PROVE  SeedInv'
<1>0. /\ pc \in [Servers -> Stages] /\ creates \in [Servers -> BOOLEAN]
      /\ UNCHANGED <<schema, data>> /\ pc[s] = "insert" /\ creates[s] /\ schema
  BY DEF TypeInv, TypeOK, InsertAdmin, Go, SeedInv, Creating, TablesThere
<1>1. CASE Taken(AdminOf[s])
  <2>1. \A t \in Servers : /\ t # s => pc'[t] = pc[t] /\ creates'[t] = creates[t]
                           /\ pc'[s] = "aborted" /\ ~creates'[s]
    BY <1>0, <1>1 DEF InsertAdmin, Go, Forget
  <2>2. \A t \in Servers : Holds(t)' => Holds(t)
    BY <2>1 DEF Holds
  <2> QED
    BY <1>0, <2>1, <2>2, DataStands
<1>2. CASE ~Taken(AdminOf[s])
  <2>1. /\ pc' = [pc EXCEPT ![s] = "items"] /\ UNCHANGED creates
        /\ ~Blocked(AdminOf[s])
    BY <1>2 DEF InsertAdmin, Go, seeds
  <2>2. users = {}
    BY <1>2, NameTaken
  <2>3. \A t \in Servers : ~Holds(t)
    BY <2>1, AdminsClash DEF Blocked, Clashes
  <2>4. \A t \in Servers : Holds(t)' => t = s
    BY <1>0, <2>1, <2>3 DEF Holds
  <2>5. HolderAlone' /\ AdminFirst'
    BY <1>0, <2>2, <2>4 DEF HolderAlone, AdminFirst, data
  <2>6. TablesThere' /\ Creating' /\ EmptyUntil' /\ FoundAdmin'
    BY <1>0, <2>1 DEF SeedInv, TablesThere, Creating, EmptyUntil, FoundAdmin, data
  <2> QED
    BY <2>5, <2>6 DEF SeedInv
<1> QED
  BY <1>1, <1>2

LEMMA CommitStep ==
  ASSUME TypeInv, SeedInv, NEW s \in Servers, CommitSeed(s)
  PROVE  SeedInv'
<1>0. /\ pc \in [Servers -> Stages] /\ creates \in [Servers -> BOOLEAN]
      /\ pc[s] = "items" /\ pc' = [pc EXCEPT ![s] = "serving"] /\ UNCHANGED schema /\ Forget({s})
      /\ users' = users \cup (IF creates[s] THEN {AdminOf[s]} ELSE {})
      /\ admins' = admins \cup (IF creates[s] THEN {AdminOf[s]} ELSE {})
  BY DEF TypeInv, TypeOK, CommitSeed, Go
<1>1. \A t \in Servers : /\ t # s => pc'[t] = pc[t] /\ creates'[t] = creates[t]
                         /\ pc'[s] = "serving" /\ ~creates'[s]
  BY <1>0 DEF Forget
<1>2. users' # {}
  BY <1>0 DEF SeedInv, FoundAdmin
<1>3. \A t \in Servers : ~Holds(t)'
  <2>1. ~Holds(s)'
    BY <1>1 DEF Holds
  <2>2. ASSUME NEW t \in Servers, t # s, Holds(t) PROVE FALSE
    <3>1. users = {} /\ ~Holds(s)
      BY <2>2 DEF SeedInv, HolderAlone
    <3> QED
      BY <1>0, <3>1 DEF Holds, SeedInv, FoundAdmin
  <2> QED
    BY <1>1, <2>1, <2>2 DEF Holds
<1>4. TablesThere' /\ Creating' /\ FoundAdmin'
  BY <1>0, <1>1, <1>2 DEF SeedInv, TablesThere, Creating, FoundAdmin
<1>5. AdminFirst'
  BY <1>0 DEF SeedInv, AdminFirst
<1>6. EmptyUntil' /\ HolderAlone'
  BY <1>2, <1>3 DEF EmptyUntil, HolderAlone
<1> QED
  BY <1>4, <1>5, <1>6 DEF SeedInv

(* What the API changes it changes while a server serves.                  *)
LEMMA EditStep ==
  ASSUME TypeInv, SeedInv, Answers({}), UNCHANGED <<schema, admins, pc, creates>>,
         users \subseteq users'
  PROVE  SeedInv'
<1>1. users # {}
  BY DEF SeedInv, EmptyUntil, Answers
<1>2. \A s \in Servers : ~Holds(s) /\ ~Holds(s)'
  BY <1>1 DEF SeedInv, HolderAlone, Holds
<1> QED
  BY <1>1, <1>2 DEF SeedInv, TablesThere, Creating, AdminFirst, EmptyUntil, HolderAlone, FoundAdmin

LEMMA SeedStep == TypeInv /\ SeedInv /\ [Next]_vars => SeedInv'
<1> SUFFICES ASSUME TypeInv, SeedInv, [Next]_vars PROVE SeedInv'
  OBVIOUS
<1>0. /\ pc \in [Servers -> Stages] /\ creates \in [Servers -> BOOLEAN]
      /\ \A s \in Servers : pc[s] \notin {"insert", "items"} => ~creates[s]
      /\ \A s \in Servers : pc[s] \in {"admin", "insert", "items", "serving"} => schema
  BY DEF TypeInv, TypeOK, SeedInv, Creating, TablesThere
<1>1. ASSUME NEW s \in Servers, Launch(s) \/ CheckPostgres(s) \/ CheckRedis(s) \/ CheckBroker(s)
      PROVE  SeedInv'
  <2>1. UNCHANGED <<schema, data, creates>>
    BY <1>1 DEF Launch, CheckPostgres, CheckRedis, Attempt, CheckBroker, seeds
  <2>2. /\ \A t \in Servers : t # s => pc'[t] = pc[t]
        /\ pc[s] \notin {"insert", "items"}
        /\ pc'[s] \notin {"admin", "insert", "items", "serving"}
    BY <1>0, <1>1 DEF Launch, CheckPostgres, CheckRedis, Attempt, CheckBroker, Go
  <2>3. \A t \in Servers : Holds(t)' => Holds(t)
    BY <2>1, <2>2 DEF Holds
  <2> QED
    BY <1>0, <2>1, <2>2, <2>3, DataStands
<1>2. ASSUME NEW s \in Servers, ReadVersion(s) \/ Upgrade(s) PROVE SeedInv'
  <2>1. UNCHANGED <<data, creates>> /\ (schema => schema')
    BY <1>2 DEF ReadVersion, Upgrade, seeds
  <2>2. /\ \A t \in Servers : t # s => pc'[t] = pc[t]
        /\ pc[s] \notin {"insert", "items"}
        /\ \/ pc'[s] \in {"altering", "aborted"}
           \/ pc'[s] = "admin" /\ schema'
    BY <1>0, <1>2 DEF ReadVersion, Upgrade, Go
  <2>3. \A t \in Servers : Holds(t)' => Holds(t)
    BY <2>1, <2>2 DEF Holds
  <2> QED
    BY <1>0, <2>1, <2>2, <2>3, DataStands
<1>3. ASSUME NEW s \in Servers, SelectAdmin(s) PROVE SeedInv'
  <2>1. /\ UNCHANGED <<schema, data>> /\ pc[s] = "admin"
        /\ \A t \in Servers : t # s => pc'[t] = pc[t] /\ creates'[t] = creates[t]
    BY <1>0, <1>3 DEF SelectAdmin, Go
  <2>2. \/ pc'[s] = "items" /\ users # {} /\ ~creates'[s]
        \/ pc'[s] = "insert" /\ creates'[s]
        \/ pc'[s] = "aborted" /\ ~creates'[s]
    BY <1>0, <1>3 DEF SelectAdmin, Go
  <2>3. \A t \in Servers : Holds(t)' => Holds(t)
    BY <2>1, <2>2 DEF Holds
  <2> QED
    BY <1>0, <2>1, <2>2, <2>3, DataStands
<1>4. ASSUME NEW s \in Servers, SeedProduct(s) PROVE SeedInv'
  <2>1. /\ UNCHANGED <<schema, data>> /\ pc[s] = "items"
        /\ \A t \in Servers : t # s => pc'[t] = pc[t] /\ creates'[t] = creates[t]
    BY <1>0, <1>4 DEF SeedProduct, Go, Forget
  <2>2. \/ pc'[s] = pc[s] /\ creates'[s] = creates[s]
        \/ pc'[s] = "aborted" /\ ~creates'[s]
    BY <1>0, <1>4 DEF SeedProduct, Go, Forget
  <2>3. \A t \in Servers : Holds(t)' => Holds(t)
    BY <2>1, <2>2 DEF Holds
  <2> QED
    BY <2>1, <2>2, <2>3, DataStands
<1>5. ASSUME NEW s \in Servers, Kill(s) PROVE SeedInv'
  <2>1. UNCHANGED <<schema, data>>
    BY <1>5 DEF Kill
  <2>2. \A t \in Servers : \/ t # s /\ pc'[t] = pc[t] /\ creates'[t] = creates[t]
                           \/ pc'[t] = "down" /\ ~creates'[t]
    BY <1>0, <1>5 DEF Kill, Forget
  <2>3. \A t \in Servers : Holds(t)' => Holds(t)
    BY <2>2 DEF Holds
  <2> QED
    BY <2>1, <2>2, <2>3, DataStands
<1>6. ASSUME NEW v \in Services, Outage(v) PROVE SeedInv'
  <2>1. UNCHANGED <<schema, data>>
    BY <1>6 DEF Outage
  <2>2. \A t \in Servers : \/ pc'[t] = pc[t] /\ creates'[t] = creates[t]
                           \/ pc'[t] = "aborted" /\ ~creates'[t]
    BY <1>0, <1>6 DEF Outage, Forget
  <2>3. \A t \in Servers : Holds(t)' => Holds(t)
    BY <2>2 DEF Holds
  <2> QED
    BY <2>1, <2>2, <2>3, DataStands
<1>7. ASSUME UNCHANGED <<schema, data, pc, creates>> PROVE SeedInv'
  BY <1>7 DEF data, SeedInv, TablesThere, Creating, AdminFirst, EmptyUntil, HolderAlone,
     FoundAdmin, Holds
<1>8. ASSUME NEW a \in Accounts, Register(a) PROVE SeedInv'
  <2>1. Answers({}) /\ UNCHANGED <<schema, admins, pc, creates>> /\ users \subseteq users'
    BY <1>8 DEF Register, Answers, seeds
  <2> QED
    BY <2>1, EditStep
<1>9. ASSUME NEW i \in Items, NEW j \in Items, AddProduct(i) \/ DropProduct(i) \/ RenameProduct(i, j)
      PROVE SeedInv'
  <2>1. Answers({}) /\ UNCHANGED <<schema, admins, pc, creates>> /\ users \subseteq users'
    BY <1>9 DEF AddProduct, DropProduct, RenameProduct, SetRows, Answers, seeds
  <2> QED
    BY <2>1, EditStep
<1>10. ASSUME NEW v \in Services, Return(v) PROVE SeedInv'
  <2>1. UNCHANGED <<schema, data, pc, creates>>
    BY <1>10 DEF Return, seeds
  <2> QED
    BY <2>1, <1>7
<1>11. CASE UNCHANGED vars
  <2>1. UNCHANGED <<schema, data, pc, creates>>
    BY <1>11 DEF vars, seeds
  <2> QED
    BY <2>1, <1>7
<1> QED
  BY <1>1, <1>2, <1>3, <1>4, <1>5, <1>6, <1>8, <1>9, <1>10, <1>11, InsertStep, CommitStep
  DEF Next, Start

LEMMA SeedInvariant == Spec => []SeedInv
  BY TypeInvariant, SeedInit, SeedStep, PTL DEF Spec

(* No server ever serves without tables or without an admin on record, for *)
(* any number of servers, kills and outages.                               *)
THEOREM ServesWithAdmin == Spec => []ServesReady
<1>1. SeedInv => ServesReady
  BY DEF SeedInv, TablesThere, AdminFirst, EmptyUntil, ServesReady
<1> QED
  BY <1>1, SeedInvariant, PTL

(* The seed that makes the admin adds every sample product once: no other  *)
(* seed and no admin added any before.                                     *)
THEOREM SeededOnce == Spec => FirstSeedAddsOnce
<1>1. ASSUME TypeInv, SeedInv, [Next]_vars
      PROVE  [\A s \in Servers :
                pc[s] = "items" /\ pc'[s] = "serving" /\ creates[s]
                  => \A i \in Items : products'[i] <= 1]_vars
  <2> SUFFICES ASSUME Next, NEW s \in Servers,
                      pc[s] = "items", pc'[s] = "serving", creates[s], NEW i \in Items
               PROVE  products'[i] <= 1
    BY <1>1
  <2>1. products[i] = 0
    BY <1>1 DEF SeedInv, HolderAlone, EmptyUntil, Holds
  <2>2. pc \in [Servers -> Stages]
    BY <1>1 DEF TypeInv, TypeOK
  <2>3. PICK t \in Servers : CommitSeed(t)
    BY <2>2 DEF Next, Start, Launch, CheckPostgres, CheckRedis, Attempt, CheckBroker,
       ReadVersion, Upgrade, SelectAdmin, InsertAdmin, SeedProduct, Kill, Outage, Return,
       Register, AddProduct, DropProduct, RenameProduct, SetRows, Go
  <2>4. products'[i] = products[i] + IF i \in fresh[t] THEN 1 ELSE 0
    BY <2>3 DEF CommitSeed
  <2> QED
    BY <2>1, <2>4
<1> QED
  BY <1>1, TypeInvariant, SeedInvariant, PTL DEF Spec, FirstSeedAddsOnce
=============================================================================
