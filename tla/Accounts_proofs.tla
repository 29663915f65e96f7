-------------------------- MODULE Accounts_proofs --------------------------
(***************************************************************************)
(* Proofs about Accounts: no two accounts share a username or identifier,  *)
(* and an account is verified by a code sent to its own identifier.        *)
(***************************************************************************)
EXTENDS Accounts, TLAPS

LEMMA TypeInit == Init => TypeOK
  BY RequestsAssumption, ClockAssumption
  DEF Init, TypeOK, NoOtp, Stages, Ended, Requests

(* The type invariant is kept by every step; "verified" are rows because   *)
(* only rows of users are marked.                                          *)
LEMMA TypeStep == TypeOK /\ [Next]_vars => TypeOK'
<1> SUFFICES ASSUME TypeOK, [Next]_vars PROVE TypeOK'
  OBVIOUS
<1> USE DEF requests, vars, Stages, Ended, Requests, Go, TypeOK
<1>1. ASSUME NEW r \in Registers, Register(r) PROVE TypeOK'
  BY <1>1 DEF Register, CheckName, CheckId, InsertUser, CommitUser
<1>2. ASSUME NEW r \in Sends, FindAccount(r) PROVE TypeOK'
  BY <1>2 DEF FindAccount
<1>3. ASSUME NEW r \in Sends, StoreCode(r) PROVE TypeOK'
  <2>1. now + CodeLife \in Nat /\ target[r] \in Ids
    BY ClockAssumption
  <2>2. otp' \in [Ids -> [code : Sends \cup {NoCode}, until : Nat]]
    BY <1>3, <2>1 DEF StoreCode
  <2> QED
    BY <1>3, <2>2 DEF StoreCode
<1>4. ASSUME NEW v \in Verifies, ReadCode(v) \/ MarkVerified(v) PROVE TypeOK'
  BY <1>4 DEF ReadCode, MarkVerified, AccountsOf
<1>5. ASSUME NEW v \in Verifies, DropCode(v) PROVE TypeOK'
  <2>1. otp' \in [Ids -> [code : Sends \cup {NoCode}, until : Nat]]
    BY <1>5 DEF DropCode, NoOtp
  <2> QED
    BY <1>5, <2>1 DEF DropCode
<1>6. ASSUME NEW r \in MayFail, Fail(r) PROVE TypeOK'
  BY <1>6, RequestsAssumption DEF Fail
<1>7. ASSUME Tick PROVE TypeOK'
  BY <1>7, ClockAssumption DEF Tick
<1>8. ASSUME UNCHANGED vars PROVE TypeOK'
  BY <1>8
<1> QED
  BY <1>1, <1>2, <1>3, <1>4, <1>5, <1>6, <1>7, <1>8 DEF Next, Send, Verify, Over

(* Every reachable state of registration and verification is well typed.   *)
THEOREM TypeCorrect == Spec => []TypeOK
  BY TypeInit, TypeStep, PTL DEF Spec

-----------------------------------------------------------------------------
(* Rows that are only inserted count as well: two of them that clash never *)
(* exist at the same time, so none of them can be committed into a clash.  *)
RowsInv ==
  /\ \A r \in users : pc[r] = "done"
  /\ \A r \in Registers : pc[r] = "inserted" <=> r \in inserted
  /\ \A r, q \in users \cup inserted : Clash(r, q) => r = q
  /\ RefusedForAnAccount

LEMMA RowsInit == Init => RowsInv
  BY RequestsAssumption DEF Init, RowsInv, RefusedForAnAccount, Requests

(* What registrations ask for never changes, and clashing is symmetric. *)
LEMMA ClashKept ==
  ASSUME UNCHANGED form
  PROVE  \A p, q : /\ Clash(p, q)' <=> Clash(p, q)
                   /\ Clash(p, q) <=> Clash(q, p)
  BY DEF Clash, SameName, SameId

LEMMA RowsStep == TypeOK /\ RowsInv /\ [Next]_vars => RowsInv'
<1> SUFFICES ASSUME TypeOK, RowsInv, [Next]_vars PROVE RowsInv'
  OBVIOUS
<1> USE DEF requests, vars, Go, TypeOK, Requests
<1> DEFINE TurnedAway == {"refused", "conflict"}
           Quiet == /\ form' = form /\ users' = users /\ inserted' \subseteq inserted
                    /\ \A q \in users : pc'[q] = "done"
                    /\ \A q \in Registers : pc'[q] = "inserted" <=> q \in inserted'
                    /\ \A q \in Registers : pc'[q] \in TurnedAway => pc[q] \in TurnedAway
<1>0. ASSUME Quiet PROVE RowsInv'
  BY <1>0, ClashKept DEF RowsInv, RefusedForAnAccount
<1>1. ASSUME NEW r \in Registers, CheckName(r) PROVE RowsInv'
  <2>1. pc'[r] = "refused" => \E q \in users : Clash(r, q)
    BY <1>1 DEF CheckName, Clash
  <2>2. /\ form' = form /\ users' = users /\ inserted' = inserted
        /\ pc[r] = "idle" /\ pc' = [pc EXCEPT ![r] = pc'[r]]
        /\ pc'[r] \in {"named", "refused"}
    BY <1>1 DEF CheckName
  <2> QED
    BY <2>1, <2>2, ClashKept DEF RowsInv, RefusedForAnAccount
<1>2. ASSUME NEW r \in Registers, CheckId(r) PROVE RowsInv'
  <2>1. pc'[r] = "refused" => \E q \in users : Clash(r, q)
    BY <1>2 DEF CheckId, AccountsOf, Clash, SameId
  <2>2. /\ form' = form /\ users' = users /\ inserted' = inserted
        /\ pc[r] = "named" /\ pc' = [pc EXCEPT ![r] = pc'[r]]
        /\ pc'[r] \in {"clear", "refused"}
    BY <1>2 DEF CheckId
  <2> QED
    BY <2>1, <2>2, ClashKept DEF RowsInv, RefusedForAnAccount
<1>3. ASSUME NEW r \in Registers, InsertUser(r) PROVE RowsInv'
  <2>1. form' = form
    BY <1>3 DEF InsertUser
  <2>2. CASE pc'[r] = "inserted"
    <3>1. inserted' = inserted \cup {r} /\ users' = users /\ pc' = [pc EXCEPT ![r] = "inserted"]
      BY <1>3, <2>2 DEF InsertUser
    <3>2. (\A q \in users \cup inserted : ~Clash(r, q)) /\ pc[r] = "clear"
      BY <1>3, <2>2 DEF InsertUser
    <3> QED
      BY <2>1, <3>1, <3>2, ClashKept DEF RowsInv, RefusedForAnAccount
  <2>3. CASE pc'[r] = "conflict"
    <3>1. inserted' = inserted /\ users' = users /\ pc' = [pc EXCEPT ![r] = "conflict"]
      BY <1>3, <2>3 DEF InsertUser
    <3>2. (\E q \in users : Clash(r, q)) /\ pc[r] = "clear"
      BY <1>3, <2>3 DEF InsertUser
    <3> QED
      BY <2>1, <3>1, <3>2, ClashKept DEF RowsInv, RefusedForAnAccount
  <2> QED
    BY <1>3, <2>2, <2>3 DEF InsertUser
<1>4. ASSUME NEW r \in Registers, CommitUser(r) PROVE RowsInv'
  <2>1. /\ form' = form /\ users' = users \cup {r} /\ inserted' = inserted \ {r}
        /\ pc[r] = "inserted" /\ pc' = [pc EXCEPT ![r] = "done"]
    BY <1>4 DEF CommitUser
  <2>2. \A q \in users \cup {r} : pc'[q] = "done"
    BY <2>1 DEF RowsInv
  <2>3. \A q \in users \cup inserted : ~Clash(r, q) \/ r = q
    BY <2>1 DEF RowsInv
  <2> QED
    BY <2>1, <2>2, <2>3, ClashKept DEF RowsInv, RefusedForAnAccount
<1>5. ASSUME NEW r \in Sends, Send(r) PROVE Quiet
  BY <1>5, RequestsAssumption DEF Send, FindAccount, StoreCode, RowsInv
<1>6. ASSUME NEW v \in Verifies, Verify(v) PROVE Quiet
  BY <1>6, RequestsAssumption DEF Verify, ReadCode, DropCode, MarkVerified, RowsInv
<1>7. ASSUME NEW r \in MayFail, Fail(r) PROVE Quiet
  BY <1>7, RequestsAssumption DEF Fail, Ended, RowsInv
<1>8. ASSUME Tick \/ UNCHANGED vars PROVE Quiet
  BY <1>8 DEF Tick, RowsInv
<1> HIDE DEF Quiet
<1> QED
  BY <1>0, <1>1, <1>2, <1>3, <1>4, <1>5, <1>6, <1>7, <1>8 DEF Next, Register, Over

LEMMA RowsCorrect == Spec => []RowsInv
  BY TypeCorrect, RowsInit, RowsStep, PTL DEF Spec

(* Whatever registrations run at once, a username or identifier has one    *)
(* account: the check may be stale, the unique index is not.               *)
THEOREM AccountsAreUnique == Spec => []UniqueAccounts
<1>1. RowsInv => UniqueAccounts
  BY DEF RowsInv, UniqueAccounts
<1> QED
  BY <1>1, RowsCorrect, PTL

(* A registration that is turned away clashes with an account on record.   *)
THEOREM RefusalsHaveAReason == Spec => []RefusedForAnAccount
<1>1. RowsInv => RefusedForAnAccount
  BY DEF RowsInv
<1> QED
  BY <1>1, RowsCorrect, PTL

-----------------------------------------------------------------------------
(* A code in Redis, and one a verification has matched, was sent to the    *)
(* identifier it is kept or matched under.                                 *)
CodesInv ==
  /\ \A i \in Ids :
       otp[i].code # NoCode => pc[otp[i].code] = "done" /\ target[otp[i].code] = i
  /\ \A v \in Verifies :
       pc[v] \in {"matched", "used"} =>
         pc[guess[v]] = "done" /\ target[guess[v]] = target[v]
  /\ VerifiedByItsCode

LEMMA CodesInit == Init => CodesInv
  BY RequestsAssumption DEF Init, CodesInv, VerifiedByItsCode, NoOtp, Requests

LEMMA CodesStep == TypeOK /\ CodesInv /\ [Next]_vars => CodesInv'
<1> SUFFICES ASSUME TypeOK, CodesInv, [Next]_vars PROVE CodesInv'
  OBVIOUS
<1> USE DEF requests, vars, Go, TypeOK, CodesInv, VerifiedByItsCode, Requests
<1>1. ASSUME NEW r \in Registers, Register(r) PROVE CodesInv'
  BY <1>1, RequestsAssumption DEF Register, CheckName, CheckId, InsertUser, CommitUser
<1>2. ASSUME NEW r \in Sends, FindAccount(r) PROVE CodesInv'
  BY <1>2, RequestsAssumption DEF FindAccount
<1>3. ASSUME NEW r \in Sends, StoreCode(r) PROVE CodesInv'
  BY <1>3, RequestsAssumption DEF StoreCode
<1>4. ASSUME NEW v \in Verifies, ReadCode(v) PROVE CodesInv'
  BY <1>4, RequestsAssumption DEF ReadCode, IsCode, InRedis
<1>5. ASSUME NEW v \in Verifies, DropCode(v) PROVE CodesInv'
  BY <1>5, RequestsAssumption DEF DropCode, NoOtp
<1>6. ASSUME NEW v \in Verifies, MarkVerified(v) PROVE CodesInv'
  BY <1>6, RequestsAssumption DEF MarkVerified, AccountsOf
<1>7. ASSUME NEW r \in MayFail, Fail(r) PROVE CodesInv'
  BY <1>7, RequestsAssumption DEF Fail, Ended
<1>8. ASSUME Tick \/ UNCHANGED vars PROVE CodesInv'
  BY <1>8 DEF Tick
<1> QED
  BY <1>1, <1>2, <1>3, <1>4, <1>5, <1>6, <1>7, <1>8 DEF Next, Send, Verify, Over

(* An account is never marked verified by a code of another identifier,    *)
(* nor by one that was not sent.                                           *)
THEOREM VerifiedCorrectly == Spec => []VerifiedByItsCode
<1>1. Spec => []CodesInv
  BY TypeCorrect, CodesInit, CodesStep, PTL DEF Spec
<1>2. CodesInv => VerifiedByItsCode
  BY DEF CodesInv
<1> QED
  BY <1>1, <1>2, PTL

-----------------------------------------------------------------------------
(* A code that a verification has deleted is no longer in Redis under the  *)
(* identifier, and the request that sent it is over and does not send it   *)
(* again.                                                                  *)
UsedInv ==
  \A w \in Verifies :
    pc[w] \in {"used", "done"} =>
      pc[guess[w]] = "done" /\ otp[target[w]].code # guess[w]

LEMMA UsedStep == TypeOK /\ CodesInv /\ UsedInv /\ [Next]_vars => UsedInv'
<1> SUFFICES ASSUME TypeOK, CodesInv, UsedInv, [Next]_vars PROVE UsedInv'
  OBVIOUS
<1> USE DEF requests, vars, Go, TypeOK, UsedInv, Requests
<1>1. ASSUME NEW r \in Registers, Register(r) PROVE UsedInv'
  BY <1>1, RequestsAssumption DEF Register, CheckName, CheckId, InsertUser, CommitUser
<1>2. ASSUME NEW r \in Sends, FindAccount(r) PROVE UsedInv'
  BY <1>2, RequestsAssumption DEF FindAccount
<1>3. ASSUME NEW r \in Sends, StoreCode(r) PROVE UsedInv'
  BY <1>3, RequestsAssumption DEF StoreCode
<1>4. ASSUME NEW v \in Verifies, ReadCode(v) PROVE UsedInv'
  BY <1>4, RequestsAssumption DEF ReadCode
<1>5. ASSUME NEW v \in Verifies, DropCode(v) PROVE UsedInv'
  BY <1>5, RequestsAssumption DEF DropCode, NoOtp, CodesInv
<1>6. ASSUME NEW v \in Verifies, MarkVerified(v) PROVE UsedInv'
  BY <1>6, RequestsAssumption DEF MarkVerified
<1>7. ASSUME NEW r \in MayFail, Fail(r) PROVE UsedInv'
  BY <1>7, RequestsAssumption DEF Fail, Ended
<1>8. ASSUME Tick \/ UNCHANGED vars PROVE UsedInv'
  BY <1>8 DEF Tick
<1> QED
  BY <1>1, <1>2, <1>3, <1>4, <1>5, <1>6, <1>7, <1>8 DEF Next, Send, Verify, Over

LEMMA OnlyReadCodeMatches ==
  ASSUME TypeOK, [Next]_vars, NEW v \in Verifies, pc[v] = "idle", pc'[v] = "matched"
  PROVE  IsCode(v)
<1> USE RequestsAssumption DEF requests, vars, Go, TypeOK, Requests
<1>1. ASSUME NEW r \in Registers, Register(r) PROVE FALSE
  BY <1>1 DEF Register, CheckName, CheckId, InsertUser, CommitUser
<1>2. ASSUME NEW r \in Sends, Send(r) PROVE FALSE
  BY <1>2 DEF Send, FindAccount, StoreCode
<1>3. ASSUME NEW w \in Verifies, ReadCode(w) PROVE IsCode(v)
  BY <1>3 DEF ReadCode
<1>4. ASSUME NEW w \in Verifies, DropCode(w) \/ MarkVerified(w) PROVE FALSE
  BY <1>4 DEF DropCode, MarkVerified
<1>5. ASSUME (\E r \in MayFail : Fail(r)) \/ Tick \/ UNCHANGED vars PROVE FALSE
  BY <1>5 DEF Fail, Tick
<1> QED
  BY <1>1, <1>2, <1>3, <1>4, <1>5 DEF Next, Verify, Over

(* A code that was deleted matches for nobody who asks later: it is never  *)
(* stored a second time, whatever sends and verifications overlap.         *)
THEOREM UsedCodesAreGone == Spec => UsedUp
<1>1. ASSUME TypeOK, UsedInv, [Next]_vars
      PROVE  [\A v, w \in Verifies :
               /\ pc[v] = "idle" /\ pc'[v] = "matched"
               /\ guess[w] = guess[v] /\ target[w] = target[v]
               => pc[w] \notin {"used", "done"}]_vars
  BY <1>1, OnlyReadCodeMatches DEF IsCode, UsedInv
<1>2. Spec => []CodesInv
  BY TypeCorrect, CodesInit, CodesStep, PTL DEF Spec
<1>3. Init => UsedInv
  BY RequestsAssumption DEF Init, UsedInv, Requests
<1> QED
  BY <1>1, <1>2, <1>3, TypeCorrect, UsedStep, PTL DEF Spec, UsedUp
=============================================================================
