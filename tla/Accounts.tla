------------------------------ MODULE Accounts ------------------------------
(***************************************************************************)
(* Registration and the verification of an email address or phone number:  *)
(* POST /auth/register, /auth/otp/send and /auth/otp/verify.  Usernames    *)
(* and identifiers are unique in the users table; one code per identifier  *)
(* is kept in Redis.                                                       *)
(*                                                                         *)
(* An account is named by the registration that made it, a code by the     *)
(* request to send it that drew it: two draws of the same six digits are   *)
(* not modelled.                                                           *)
(***************************************************************************)
EXTENDS Integers

CONSTANTS
  Names, Ids,   \* usernames, and identifiers
  Registers, Sends, Verifies,  \* identities of the requests
  CodeLife,     \* OTP_TTL_SECONDS
  MaxClock,     \* bound: the last instant of the clock
  MayFail,      \* the requests whose handler may raise or die half way
  NoCode

Requests == Registers \cup Sends \cup Verifies

ASSUME RequestsAssumption ==
  /\ Registers \cap Sends = {}
  /\ Registers \cap Verifies = {}
  /\ Sends \cap Verifies = {}
  /\ MayFail \subseteq Requests
  /\ NoCode \notin Sends

ASSUME ClockAssumption == CodeLife \in Nat \ {0} /\ MaxClock \in Nat

VARIABLES
  now,
  form,      \* the body of a registration: username and identifier
  target,    \* the identifier a request to send or verify is about
  guess,     \* the code a request to verify presents
  users,     \* rows of users, committed
  inserted,  \* rows of transactions that have not ended
  verified,  \* the rows whose identifier is verified
  otp,       \* otp:{type}:{identifier}: the code and when the key expires
  pc         \* where each handler is

requests == <<form, target, guess>>
vars == <<now, requests, users, inserted, verified, otp, pc>>

-----------------------------------------------------------------------------
Ended  == {"done", "refused", "conflict", "failed"}
Stages == {"idle", "named", "clear", "inserted", "found", "matched", "used"} \cup Ended

Go(r, from, to) == pc[r] = from /\ pc' = [pc EXCEPT ![r] = to]

SameName(r, q) == form[r].name = form[q].name
SameId(r, q)   == form[r].id = form[q].id
Clash(r, q)    == SameName(r, q) \/ SameId(r, q)

AccountsOf(i) == {q \in users : form[q].id = i}
NoOtp == [code |-> NoCode, until |-> 0]
InRedis(i) == otp[i].code # NoCode /\ now < otp[i].until

Init ==
  /\ now = 0
  /\ form \in [Registers -> [name : Names, id : Ids]]
  /\ target \in [Sends \cup Verifies -> Ids]
  /\ guess \in [Verifies -> Sends]
  /\ users = {}
  /\ inserted = {}
  /\ verified = {}
  /\ otp = [i \in Ids |-> NoOtp]
  /\ pc = [r \in Requests |-> "idle"]

-----------------------------------------------------------------------------
(* POST /auth/register *)

CheckName(r) ==
  /\ \/ Go(r, "idle", "named")   /\ \A q \in users : ~SameName(r, q)
     \/ Go(r, "idle", "refused") /\ \E q \in users : SameName(r, q)
  /\ UNCHANGED <<now, requests, users, inserted, verified, otp>>

CheckId(r) ==
  /\ \/ Go(r, "named", "clear")   /\ AccountsOf(form[r].id) = {}
     \/ Go(r, "named", "refused") /\ AccountsOf(form[r].id) # {}
  /\ UNCHANGED <<now, requests, users, inserted, verified, otp>>

(* Mutant: no unique constraint on the columns. *)
InsertUser_Unchecked(r) ==
  /\ Go(r, "clear", "inserted")
  /\ inserted' = inserted \cup {r}
  /\ UNCHANGED <<now, requests, users, verified, otp>>

(* Mutant: the INSERT does not wait for a transaction that may roll back. *)
InsertUser_NoWait(r) ==
  /\ \/ /\ Go(r, "clear", "inserted")
        /\ \A q \in users \cup inserted : ~Clash(r, q)
        /\ inserted' = inserted \cup {r}
     \/ /\ Go(r, "clear", "conflict")
        /\ \E q \in users \cup inserted : Clash(r, q)
        /\ UNCHANGED inserted
  /\ UNCHANGED <<now, requests, users, verified, otp>>

(* The flush: Postgres lets the INSERT wait for a transaction that has     *)
(* inserted the same username or identifier, and refuses it (IntegrityError,*)
(* 500) once such a row is committed.                                      *)
InsertUser(r) ==
  /\ \A q \in inserted : ~Clash(r, q)
  /\ \/ /\ Go(r, "clear", "inserted")
        /\ \A q \in users : ~Clash(r, q)
        /\ inserted' = inserted \cup {r}
     \/ /\ Go(r, "clear", "conflict")
        /\ \E q \in users : Clash(r, q)
        /\ UNCHANGED inserted
  /\ UNCHANGED <<now, requests, users, verified, otp>>

CommitUser(r) ==
  /\ Go(r, "inserted", "done")
  /\ users' = users \cup {r}
  /\ inserted' = inserted \ {r}
  /\ UNCHANGED <<now, requests, verified, otp>>

-----------------------------------------------------------------------------
(* POST /auth/otp/send *)

FindAccount(r) ==
  /\ \/ Go(r, "idle", "found")   /\ AccountsOf(target[r]) # {}
     \/ Go(r, "idle", "refused") /\ AccountsOf(target[r]) = {}
  /\ UNCHANGED <<now, requests, users, inserted, verified, otp>>

(* SETEX otp_key, with a code just drawn. *)
StoreCode(r) ==
  /\ Go(r, "found", "done")
  /\ otp' = [otp EXCEPT ![target[r]] = [code |-> r, until |-> now + CodeLife]]
  /\ UNCHANGED <<now, requests, users, inserted, verified>>

(* POST /auth/otp/verify *)

(* Mutant: a code is looked for under any identifier. *)
IsCode_Anywhere(v) == \E i \in Ids : InRedis(i) /\ otp[i].code = guess[v]

IsCode(v) == InRedis(target[v]) /\ otp[target[v]].code = guess[v]

(* GET otp_key *)
ReadCode(v) ==
  /\ \/ Go(v, "idle", "matched") /\ IsCode(v)
     \/ Go(v, "idle", "refused") /\ ~IsCode(v)
  /\ UNCHANGED <<now, requests, users, inserted, verified, otp>>

(* Mutant: the code is left to its TTL. *)
DropCode_Kept(v) ==
  Go(v, "matched", "used") /\ UNCHANGED <<now, requests, users, inserted, verified, otp>>

(* DEL otp_key *)
DropCode(v) ==
  /\ Go(v, "matched", "used")
  /\ otp' = [otp EXCEPT ![target[v]] = NoOtp]
  /\ UNCHANGED <<now, requests, users, inserted, verified>>

(* Load the account, which nothing deletes; set its flag, flush, commit. *)
MarkVerified(v) ==
  /\ Go(v, "used", "done")
  /\ AccountsOf(target[v]) # {}
  /\ verified' = verified \cup AccountsOf(target[v])
  /\ UNCHANGED <<now, requests, users, inserted, otp>>

-----------------------------------------------------------------------------
(* A call raises or the process dies: the session is rolled back. *)
Fail(r) ==
  /\ pc[r] \notin Ended \cup {"idle"}
  /\ pc' = [pc EXCEPT ![r] = "failed"]
  /\ inserted' = inserted \ {r}
  /\ UNCHANGED <<now, requests, users, verified, otp>>

Tick ==
  /\ now < MaxClock
  /\ now' = now + 1
  /\ UNCHANGED <<requests, users, inserted, verified, otp, pc>>

Over == (\A r \in Requests : pc[r] \in Ended) /\ UNCHANGED vars

Register(r) == CheckName(r) \/ CheckId(r) \/ InsertUser(r) \/ CommitUser(r)
Send(r)     == FindAccount(r) \/ StoreCode(r)
Verify(v)   == ReadCode(v) \/ DropCode(v) \/ MarkVerified(v)

Next ==
  \/ \E r \in Registers : Register(r)
  \/ \E r \in Sends : Send(r)
  \/ \E v \in Verifies : Verify(v)
  \/ \E r \in MayFail : Fail(r)
  \/ Tick
  \/ Over

Spec == Init /\ [][Next]_vars

-----------------------------------------------------------------------------
TypeOK ==
  /\ now \in 0..MaxClock
  /\ form \in [Registers -> [name : Names, id : Ids]]
  /\ target \in [Sends \cup Verifies -> Ids]
  /\ guess \in [Verifies -> Sends]
  /\ users \subseteq Registers
  /\ inserted \subseteq Registers
  /\ verified \subseteq users
  /\ otp \in [Ids -> [code : Sends \cup {NoCode}, until : Nat]]
  /\ pc \in [Requests -> Stages]

(* Registrations that check the same username or identifier before either  *)
(* is committed do not make two accounts of it.                            *)
UniqueAccounts == \A r, q \in users : Clash(r, q) => r = q

(* A registration is turned away, by its checks or by the database, only   *)
(* for an account that is there: never for one that was rolled back.       *)
RefusedForAnAccount ==
  \A r \in Registers :
    pc[r] \in {"refused", "conflict"} => \E q \in users : r # q /\ Clash(r, q)

(* A verified account proved a code that was sent to its own identifier.   *)
VerifiedByItsCode ==
  \A q \in verified : \E v \in Verifies :
    /\ target[v] = form[q].id
    /\ pc[guess[v]] = "done" /\ target[guess[v]] = form[q].id

(* A code that a verification has deleted is never good again.             *)
UsedUp ==
  [][\A v, w \in Verifies :
       /\ pc[v] = "idle" /\ pc'[v] = "matched"
       /\ guess[w] = guess[v] /\ target[w] = target[v]
       => pc[w] \notin {"used", "done"}]_vars
=============================================================================
