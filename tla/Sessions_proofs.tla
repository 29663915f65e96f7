-------------------------- MODULE Sessions_proofs --------------------------
(***************************************************************************)
(* Proofs about Sessions and Rotation: for every lifetime of tokens and    *)
(* every resolution of the clock, a token that was logged out stays out up *)
(* to the last seconds of its life, and a refresh token refreshes until it *)
(* is taken away and not after that.                                       *)
(***************************************************************************)
EXTENDS Rotation, TLAPS

-----------------------------------------------------------------------------
(* Whole seconds. *)

LEMMA DivBounds ==
  ASSUME NEW n \in Int, NEW d \in Nat \ {0}
  PROVE  n \div d \in Int /\ d * (n \div d) <= n /\ n < d * (n \div d) + d
  BY SMTT(20)

LEMMA DivNat ==
  ASSUME NEW n \in Nat, NEW d \in Nat \ {0}
  PROVE  n \div d \in Nat
  BY SMTT(20)

LEMMA DivGrows ==
  ASSUME NEW n \in Nat, NEW d \in Nat \ {0}
  PROVE  n \div d <= (n + 1) \div d
  BY SMTT(20)

LEMMA DivAtLeast ==
  ASSUME NEW n \in Nat, NEW d \in Nat \ {0}, NEW m \in Int, m * d <= n
  PROVE  m <= n \div d
  BY SMTT(20)

LEMMA LaterInstant ==
  ASSUME NEW n \in Nat, NEW w \in Nat, NEW d \in Nat
  PROVE  n + w * d \in Nat
<1>1. w * d \in Nat
  OBVIOUS
<1> QED
  BY <1>1

(* The whole seconds left until second e, counted from instant n, reach    *)
(* past second e - 1.                                                      *)
LEMMA WholeSecondsReach ==
  ASSUME NEW n \in Int, NEW d \in Nat \ {0}, NEW e \in Int,
         NEW w \in Int, (e * d - n) \div d <= w
  PROVE  (e - 1) * d < n + w * d
<1> DEFINE q == (e * d - n) \div d
<1>1. q \in Int /\ e * d - n < d * q + d
  BY DivBounds
<1>2. q <= w
  OBVIOUS
<1> HIDE DEF q
<1>3. d * q <= d * w
  BY <1>1, <1>2
<1> QED
  BY <1>1, <1>3

LEMMA TimeLeftReach ==
  ASSUME NEW k \in Tokens, now \in Nat
  PROVE  /\ TimeLeft(k) \in Nat
         /\ (k.exp - 1) * PerSecond < now + TimeLeft(k) * PerSecond
<1> DEFINE q == (k.exp * PerSecond - now) \div PerSecond
<1>1. PerSecond \in Nat \ {0} /\ k.exp \in Nat
  BY ClockAssumption DEF Tokens
<1>2. k.exp * PerSecond - now \in Int
  BY <1>1
<1>3. q \in Int
  BY <1>1, <1>2, DivBounds
<1>4. TimeLeft(k) = IF q < 1 THEN 1 ELSE q
  BY DEF TimeLeft
<1> HIDE DEF q
<1>5. TimeLeft(k) \in Nat /\ q <= TimeLeft(k)
  BY <1>3, <1>4
<1>6. (k.exp * PerSecond - now) \div PerSecond <= TimeLeft(k)
  BY <1>5 DEF q
<1>7. PICK w \in Nat : w = TimeLeft(k)
  BY <1>5
<1>8. PICK e \in Nat : e = k.exp
  BY <1>1
<1>9. (e * PerSecond - now) \div PerSecond <= w
  BY <1>6, <1>7, <1>8
<1>10. now \in Int /\ w \in Int /\ e \in Int
  OBVIOUS
<1>11. (e - 1) * PerSecond < now + w * PerSecond
  BY <1>1, <1>9, <1>10, WholeSecondsReach
<1> QED
  BY <1>7, <1>8, <1>11

-----------------------------------------------------------------------------
(* Types, together with what handlers know once they got somewhere.        *)
SignedOK ==
  \A r \in Issuers :
    pc[r] \in {"signed", "stored", "done"} => issued[r] \in [access : Tokens, refresh : Tokens]
UsesOK ==
  \A r \in Requests :
    pc[r] \in {"matched", "entered", "admitted", "barred"} \/ (r \in Logouts /\ pc[r] = "done")
      => uses[r] \in Tokens
TypeInv == TypeOK /\ SignedOK /\ UsesOK

LEMMA TypeInit == Init => TypeInv
<1> SUFFICES ASSUME Init PROVE TypeInv
  OBVIOUS
<1>1. NoEntry \in [token : Tokens \cup {NoToken}, until : Nat]
  BY DEF NoEntry
<1>2. NoPair \in [access : Tokens \cup {NoToken}, refresh : Tokens \cup {NoToken}]
  BY DEF NoPair
<1>3. TypeOK
  BY <1>1, <1>2, ClockAssumption DEF Init, TypeOK, Stages, Ended
<1>4. SignedOK /\ UsesOK
  BY DEF Init, SignedOK, UsesOK, Requests, Gated
<1> QED
  BY <1>3, <1>4 DEF TypeInv

LEMMA PairType ==
  ASSUME now \in Nat, NEW u \in Users
  PROVE  Pair(u) \in [access : Tokens, refresh : Tokens]
<1>1. Second \in Nat
  BY ClockAssumption, DivNat DEF Second
<1> QED
  BY <1>1, ClockAssumption DEF Pair, Token, Tokens

LEMMA HandedType == SignedOK => Handed \subseteq Tokens
  BY DEF SignedOK, Handed, Answered

LEMMA TypeStep == TypeInv /\ [Next]_vars => TypeInv'
<1> SUFFICES ASSUME TypeInv, [Next]_vars PROVE TypeInv'
  OBVIOUS
<1> USE DEF vars, Go, TypeInv, TypeOK, SignedOK, UsesOK, Requests, Stages, Ended
<1>0. now \in Nat /\ Handed \subseteq Tokens
  BY ClockAssumption, HandedType
<1>1. ASSUME NEW r \in Logins, SignIn(r) PROVE TypeInv'
  <2>1. CASE Go(r, "idle", "signed")
    <3>1. PICK u \in Users : issued' = [issued EXCEPT ![r] = Pair(u)]
      BY <1>1, <2>1 DEF SignIn, Issuers
    <3>2. Pair(u) \in [access : Tokens, refresh : Tokens]
      BY <1>0, PairType
    <3>3. issued'[r] = Pair(u) /\ r \in Issuers
      BY <3>1 DEF Issuers
    <3>4. TypeOK'
      BY <1>1, <2>1, <3>1, <3>2 DEF SignIn
    <3>5. SignedOK'
      BY <1>1, <2>1, <3>1, <3>2, <3>3 DEF SignIn
    <3>6. UsesOK'
      BY <1>1, <2>1, RequestsAssumption DEF SignIn, Issuers, Gated
    <3> QED
      BY <3>4, <3>5, <3>6
  <2>2. CASE Go(r, "idle", "refused")
    BY <1>1, <2>2, RequestsAssumption DEF SignIn, Issuers, Gated
  <2> QED
    BY <1>1, <2>1, <2>2 DEF SignIn
<1>2. ASSUME NEW r \in Issuers, StoreToken(r) PROVE TypeInv'
  <2> DEFINE k == issued[r].refresh
             e == [token |-> k, until |-> now + RefreshLife * PerSecond]
  <2>1. k \in Tokens
    BY <1>2 DEF StoreToken
  <2>2. now + RefreshLife * PerSecond \in Nat
    BY <1>0, ClockAssumption, LaterInstant
  <2>3. e \in [token : Tokens \cup {NoToken}, until : Nat] /\ k.user \in Users
    BY <2>1, <2>2 DEF Tokens
  <2>4. stored' = [stored EXCEPT ![k.user] = e]
    BY <1>2 DEF StoreToken
  <2> HIDE DEF e, k
  <2>5. stored' \in [Users -> [token : Tokens \cup {NoToken}, until : Nat]]
    BY <2>3, <2>4
  <2>6. UNCHANGED <<now, black, uses, issued>> /\ pc[r] = "signed" /\ pc' = [pc EXCEPT ![r] = "stored"]
    BY <1>2 DEF StoreToken
  <2>7. SignedOK' /\ UsesOK'
    BY <2>6, RequestsAssumption DEF Issuers, Gated
  <2> QED
    BY <2>5, <2>6, <2>7
<1>3. ASSUME NEW r \in Refreshes, MatchToken(r) PROVE TypeInv'
  BY <1>0, <1>3, RequestsAssumption DEF MatchToken, Issuers, Gated
<1>4. ASSUME NEW r \in Refreshes, Reissue(r) PROVE TypeInv'
  <2>1. uses[r].user \in Users
    BY <1>4 DEF Reissue, Tokens, Issuers
  <2>2. Pair(uses[r].user) \in [access : Tokens, refresh : Tokens]
    BY <1>0, <2>1, PairType
  <2> QED
    BY <1>4, <2>2, RequestsAssumption DEF Reissue, Issuers, Gated
<1>5. ASSUME NEW r \in Gated, Enter(r) PROVE TypeInv'
  BY <1>0, <1>5, RequestsAssumption DEF Enter, Gated
<1>6. ASSUME NEW r \in Gated, Admit(r) PROVE TypeInv'
  BY <1>6, RequestsAssumption DEF Admit, Gated
<1>7. ASSUME NEW r \in Logouts, Blacklist(r) PROVE TypeInv'
  <2>1. uses[r] \in Tokens /\ r \in Gated
    BY <1>7 DEF Blacklist, Gated
  <2>2. now + TimeLeft(uses[r]) * PerSecond \in Nat
    BY <1>0, <2>1, TimeLeftReach, ClockAssumption, LaterInstant
  <2>3. black' \subseteq [token : Tokens, until : Nat]
    BY <1>7, <2>1, <2>2 DEF Blacklist
  <2>4. UNCHANGED <<now, stored, uses, issued>> /\ pc[r] = "admitted" /\ pc' = [pc EXCEPT ![r] = "barred"]
    BY <1>7 DEF Blacklist
  <2> QED
    BY <2>1, <2>3, <2>4, RequestsAssumption DEF Gated
<1>8. ASSUME NEW r \in Logouts, DropToken(r) PROVE TypeInv'
  <2>1. uses[r] \in Tokens /\ uses[r].user \in Users /\ r \in Gated
    BY <1>8 DEF DropToken, Gated, Tokens
  <2>2. NoEntry \in [token : Tokens \cup {NoToken}, until : Nat]
    BY DEF NoEntry
  <2> QED
    BY <1>8, <2>1, <2>2, RequestsAssumption DEF DropToken
<1>9. ASSUME NEW r \in MayFail, Fail(r) PROVE TypeInv'
  BY <1>9, RequestsAssumption DEF Fail
<1>10. ASSUME Tick PROVE TypeInv'
  BY <1>10, ClockAssumption DEF Tick
<1>11. ASSUME NEW r \in Issuers, Answer(r) PROVE TypeInv'
  BY <1>11, RequestsAssumption DEF Answer, Issuers, Gated
<1>12. ASSUME UNCHANGED vars PROVE TypeInv'
  BY <1>12
<1> QED
  BY <1>1, <1>2, <1>3, <1>4, <1>5, <1>6, <1>7, <1>8, <1>9, <1>10, <1>11, <1>12 DEF Next, Over

LEMMA TypeInvariant == Spec => []TypeInv
  BY TypeInit, TypeStep, PTL DEF Spec

(* Every reachable state of the sessions is well typed: in particular what *)
(* a refresh or logout works with is always a token.                       *)
THEOREM TypeCorrect == Spec => []TypeOK
<1>1. TypeInv => TypeOK
  BY DEF TypeInv
<1> QED
  BY <1>1, TypeInvariant, PTL

-----------------------------------------------------------------------------
(* A token does not come back to life, and an entry once written for it is *)
(* only replaced by one that reaches as far.                               *)

LEMMA BarredInit == Init => BarredToTheEnd
  BY DEF Init, BarredToTheEnd, Requests, Gated

Covered(k) == \/ ~Decodes(k)
              \/ \E b \in black : b.token = k /\ (k.exp - 1) * PerSecond < b.until

LEMMA StaysCovered ==
  ASSUME TypeInv, now' = now \/ now' = now + 1, black \subseteq black',
         NEW k \in Tokens, Covered(k)
  PROVE  Covered(k)'
<1>1. PICK n \in Nat : n = now
  BY ClockAssumption DEF TypeInv, TypeOK
<1>2. PICK m \in {n, n + 1} : m = now'
  BY <1>1
<1>3. n \div PerSecond \in Nat /\ m \div PerSecond \in Nat
  BY ClockAssumption, DivNat
<1>4. n \div PerSecond <= m \div PerSecond
  BY <1>3, ClockAssumption, DivGrows
<1>5. Second \in Nat /\ Second' \in Nat /\ Second <= Second'
  BY <1>1, <1>2, <1>3, <1>4 DEF Second
<1>6. k.exp \in Nat
  BY DEF Tokens
<1> QED
  BY <1>5, <1>6 DEF Covered, Decodes

LEMMA BarredStep == TypeInv /\ BarredToTheEnd /\ [Next]_vars => BarredToTheEnd'
<1> SUFFICES ASSUME TypeInv, BarredToTheEnd, [Next]_vars,
                    NEW q \in Logouts, pc'[q] \in {"barred", "done"}
             PROVE  Covered(uses[q])'
  BY DEF BarredToTheEnd, Covered
<1> USE DEF Go, Requests
<1>1. pc \in [Requests -> Stages] /\ uses \in [Requests -> Tokens \cup {NoToken}] /\ now \in Nat
  BY ClockAssumption DEF TypeInv, TypeOK
<1>2. ASSUME pc[q] \in {"barred", "done"} PROVE uses[q] \in Tokens /\ Covered(uses[q])
  BY <1>2 DEF TypeInv, UsesOK, BarredToTheEnd, Covered, Gated
<1>3. ASSUME pc[q] \in {"barred", "done"}, uses'[q] = uses[q],
             now' = now \/ now' = now + 1, black \subseteq black'
      PROVE  Covered(uses[q])'
  <2>1. PICK k \in Tokens : k = uses[q] /\ Covered(k)
    BY <1>2, <1>3
  <2>2. Covered(k)'
    BY <1>3, <2>1, StaysCovered
  <2> QED
    BY <1>3, <2>1, <2>2 DEF Covered, Decodes
<1>4. ASSUME NEW r \in Issuers, pc' = [pc EXCEPT ![r] = pc'[r]],
             \/ UNCHANGED <<now, black, uses>>
             \/ UNCHANGED <<now, black>> /\ \E k : uses' = [uses EXCEPT ![r] = k]
      PROVE  Covered(uses[q])'
  BY <1>1, <1>3, <1>4, RequestsAssumption DEF Gated
<1>5. ASSUME NEW r \in Gated, Enter(r) PROVE Covered(uses[q])'
  BY <1>1, <1>3, <1>5 DEF Enter, Gated
<1>6. ASSUME NEW r \in Gated, Admit(r) PROVE Covered(uses[q])'
  BY <1>1, <1>3, <1>6, RequestsAssumption DEF Admit, Gated
<1>7. ASSUME NEW r \in Logouts, Blacklist(r) PROVE Covered(uses[q])'
  <2>1. PICK k \in Tokens : k = uses[r]
    BY <1>7 DEF Blacklist, TypeInv, UsesOK, Gated
  <2>2. PICK e : e = [token |-> k, until |-> now + TimeLeft(k) * PerSecond]
    OBVIOUS
  <2>3. /\ UNCHANGED <<now, uses>> /\ pc[r] = "admitted" /\ pc' = [pc EXCEPT ![r] = "barred"]
        /\ black' = IF Decodes(k) THEN {b \in black : b.token # k} \cup {e} ELSE black
    BY <1>7, <2>1, <2>2 DEF Blacklist
  <2>4. (k.exp - 1) * PerSecond < e.until /\ e.token = k
    BY <1>1, <2>1, <2>2, TimeLeftReach
  <2>5. \A t : Decodes(t)' <=> Decodes(t)
    BY <2>3 DEF Decodes, Second
  <2>6. CASE uses[q] = k
    <3>1. ~Decodes(k) \/ e \in black'
      BY <2>3
    <3> QED
      BY <2>3, <2>4, <2>5, <2>6, <3>1 DEF Covered
  <2>7. CASE uses[q] # k
    <3>1. pc[q] \in {"barred", "done"}
      BY <1>1, <2>1, <2>3, <2>7 DEF Gated
    <3>2. PICK t : t = uses[q] /\ t # k /\ Covered(t)
      BY <1>2, <2>7, <3>1
    <3>3. \A b \in black : b.token = t => b \in black'
      BY <2>3, <3>2
    <3>4. ~Decodes(t)' \/ \E b \in black' : b.token = t /\ (t.exp - 1) * PerSecond < b.until
      BY <2>5, <3>2, <3>3 DEF Covered
    <3> QED
      BY <2>3, <2>5, <3>2, <3>4 DEF Covered
  <2> QED
    BY <2>6, <2>7
<1>8. ASSUME NEW r \in Logouts, DropToken(r) PROVE Covered(uses[q])'
  BY <1>1, <1>3, <1>8 DEF DropToken, Gated
<1>9. ASSUME NEW r \in MayFail, Fail(r) PROVE Covered(uses[q])'
  BY <1>1, <1>3, <1>9, RequestsAssumption DEF Fail, Gated
<1>10. ASSUME Tick \/ UNCHANGED vars PROVE Covered(uses[q])'
  BY <1>3, <1>10 DEF Tick, vars
<1>11. ASSUME NEW r \in Logins, SignIn(r) PROVE Covered(uses[q])'
  BY <1>1, <1>4, <1>11 DEF SignIn, Issuers
<1>12. ASSUME NEW r \in Issuers, StoreToken(r) \/ Answer(r) PROVE Covered(uses[q])'
  BY <1>1, <1>4, <1>12 DEF StoreToken, Answer
<1>13. ASSUME NEW r \in Refreshes, MatchToken(r) \/ Reissue(r) PROVE Covered(uses[q])'
  BY <1>1, <1>4, <1>13 DEF MatchToken, Reissue, Issuers
<1> QED
  BY <1>5, <1>6, <1>7, <1>8, <1>9, <1>10, <1>11, <1>12, <1>13 DEF Next, Over

(* The blacklist entry of a logged-out token reaches into the last second  *)
(* of its life, for every lifetime, clock and number of logouts.           *)
THEOREM BarredCorrectly == Spec => []BarredToTheEnd
  BY TypeInvariant, BarredInit, BarredStep, PTL DEF Spec

LEMMA AcceptedOnlyIfPasses ==
  ASSUME TypeInv, [Next]_vars, NEW r \in Gated, Accepted(r)
  PROVE  Passes(uses'[r]) /\ uses'[r] \in Tokens
<1> USE DEF Go, Requests, Accepted
<1>1. /\ pc \in [Requests -> Stages] /\ r \in Requests
      /\ uses \in [Requests -> Tokens \cup {NoToken}] /\ Handed \subseteq Tokens
  BY HandedType DEF TypeInv, TypeOK
<1>2. ASSUME NEW q \in Gated, Enter(q) PROVE Passes(uses'[r]) /\ uses'[r] \in Tokens
  BY <1>1, <1>2 DEF Enter
<1>3. ASSUME NEW q \in Gated, Admit(q) PROVE Passes(uses'[r]) /\ uses'[r] \in Tokens
  <2>1. q = r /\ Passes(uses[r]) /\ uses' = uses /\ pc[r] = "entered"
    BY <1>1, <1>3 DEF Admit
  <2> QED
    BY <1>1, <2>1 DEF TypeInv, UsesOK
<1>4. ASSUME NEW q \in Issuers, pc' = [pc EXCEPT ![q] = pc'[q]] PROVE FALSE
  BY <1>1, <1>4, RequestsAssumption
<1>5. ASSUME NEW q \in Logouts, Blacklist(q) \/ DropToken(q) PROVE FALSE
  BY <1>1, <1>5 DEF Blacklist, DropToken, Gated
<1>6. ASSUME NEW q \in MayFail, Fail(q) PROVE FALSE
  BY <1>1, <1>6, RequestsAssumption DEF Fail
<1>7. ASSUME Tick \/ UNCHANGED vars PROVE FALSE
  BY <1>7 DEF Tick, vars
<1>8. ASSUME NEW q \in Logins, SignIn(q) PROVE FALSE
  BY <1>1, <1>4, <1>8 DEF SignIn, Issuers
<1>9. ASSUME NEW q \in Issuers, StoreToken(q) \/ Answer(q) PROVE FALSE
  BY <1>1, <1>4, <1>9 DEF StoreToken, Answer
<1>10. ASSUME NEW q \in Refreshes, MatchToken(q) \/ Reissue(q) PROVE FALSE
  BY <1>1, <1>4, <1>10 DEF MatchToken, Reissue, Issuers
<1> QED
  BY <1>2, <1>3, <1>5, <1>6, <1>7, <1>8, <1>9, <1>10 DEF Next, Over

(* Neither gate lets a logged-out token pass, but in the second before the *)
(* one it expires in and in that one.                                      *)
THEOREM LoggedOutForGood == Spec => StaysLoggedOut
<1>1. ASSUME TypeInv, BarredToTheEnd, [Next]_vars
      PROVE  [\A r \in Gated : Accepted(r) /\ LoggedOut(uses'[r])
                => uses'[r].exp - 1 <= Second]_vars
  <2> SUFFICES ASSUME NEW r \in Gated, Accepted(r), LoggedOut(uses'[r])
               PROVE  uses'[r].exp - 1 <= Second
    OBVIOUS
  <2>1. PICK k \in Tokens : k = uses'[r] /\ Passes(k)
    BY <1>1, AcceptedOnlyIfPasses
  <2>2. PICK b \in black : b.token = k /\ (k.exp - 1) * PerSecond < b.until
    BY <1>1, <2>1 DEF LoggedOut, BarredToTheEnd, Passes
  <2>3. now >= b.until
    BY <1>1, <2>1, <2>2 DEF Passes, Revoked, TypeInv, TypeOK
  <2>4. k.exp - 1 \in Int /\ now \in Nat /\ b.until \in Nat /\ PerSecond \in Nat \ {0}
    BY <1>1, <2>1, <2>2, ClockAssumption DEF Tokens, TypeInv, TypeOK
  <2>5. PICK m \in Int : m = k.exp - 1
    BY <2>4
  <2>6. m * PerSecond < now
    BY <2>2, <2>3, <2>4, <2>5
  <2> QED
    BY <2>1, <2>4, <2>5, <2>6, DivAtLeast DEF Second
<1> QED
  BY <1>1, TypeInvariant, BarredCorrectly, PTL DEF Spec, StaysLoggedOut

-----------------------------------------------------------------------------
(* Rotation: the history variable is only watching. *)

LEMMA WatchOnly ==
  /\ RotationInit => Init
  /\ [RotationNext]_<<vars, taken>> => [Next]_vars
  BY DEF RotationInit, RotationNext, vars

(* A request that stored its token keeps what it signed.                   *)
Sent(r) == pc[r] \in {"stored", "done"} \/ (r \in MayFail /\ pc[r] = "failed")

LEMMA SentKeeps ==
  ASSUME TypeInv, [Next]_vars, NEW r \in Issuers, Sent(r)
  PROVE  Sent(r)' /\ issued'[r] = issued[r]
<1> USE DEF Go, Sent, Ended
<1>1. pc \in [Requests -> Stages] /\ issued \in [Issuers -> [access : Tokens \cup {NoToken}, refresh : Tokens \cup {NoToken}]] /\ r \in Requests
  BY DEF TypeInv, TypeOK, Requests
<1>2. ASSUME NEW q \in Logins, SignIn(q) PROVE Sent(r)' /\ issued'[r] = issued[r]
  BY <1>1, <1>2 DEF SignIn, Issuers, Requests
<1>3. ASSUME NEW q \in Issuers, StoreToken(q) \/ Answer(q) PROVE Sent(r)' /\ issued'[r] = issued[r]
  BY <1>1, <1>3 DEF StoreToken, Answer, Requests
<1>4. ASSUME NEW q \in Refreshes, MatchToken(q) \/ Reissue(q) PROVE Sent(r)' /\ issued'[r] = issued[r]
  BY <1>1, <1>4 DEF MatchToken, Reissue, Issuers, Requests
<1>5. ASSUME NEW q \in Gated, Enter(q) \/ Admit(q) PROVE Sent(r)' /\ issued'[r] = issued[r]
  BY <1>1, <1>5, RequestsAssumption DEF Enter, Admit, Requests
<1>6. ASSUME NEW q \in Logouts, Blacklist(q) \/ DropToken(q) PROVE Sent(r)' /\ issued'[r] = issued[r]
  BY <1>1, <1>6, RequestsAssumption DEF Blacklist, DropToken, Gated, Requests
<1>7. ASSUME NEW q \in MayFail, Fail(q) PROVE Sent(r)' /\ issued'[r] = issued[r]
  BY <1>1, <1>7, RequestsAssumption DEF Fail
<1>8. ASSUME Tick \/ UNCHANGED vars PROVE Sent(r)' /\ issued'[r] = issued[r]
  BY <1>8 DEF Tick, vars
<1> QED
  BY <1>2, <1>3, <1>4, <1>5, <1>6, <1>7, <1>8 DEF Next, Over

(* Only StoreToken and DropToken end where they do. *)
LEMMA StoreOrDrop ==
  ASSUME TypeInv, [Next]_vars
  PROVE  /\ \A r \in Issuers : pc[r] = "signed" /\ pc'[r] = "stored" => StoreToken(r)
         /\ \A r \in Logouts : pc[r] = "barred" /\ pc'[r] = "done" => DropToken(r)
<1> DEFINE Goal == /\ \A r \in Issuers : pc[r] = "signed" /\ pc'[r] = "stored" => StoreToken(r)
                   /\ \A r \in Logouts : pc[r] = "barred" /\ pc'[r] = "done" => DropToken(r)
<1> USE DEF Go
<1>1. pc \in [Requests -> Stages]
  BY DEF TypeInv, TypeOK
<1>2. ASSUME NEW q \in Logins, SignIn(q) PROVE Goal
  BY <1>1, <1>2, RequestsAssumption DEF SignIn, Issuers, Requests, Gated
<1>3. ASSUME NEW q \in Issuers, StoreToken(q) \/ Answer(q) PROVE Goal
  BY <1>1, <1>3, RequestsAssumption DEF StoreToken, Answer, Requests, Gated
<1>4. ASSUME NEW q \in Refreshes, MatchToken(q) \/ Reissue(q) PROVE Goal
  BY <1>1, <1>4, RequestsAssumption DEF MatchToken, Reissue, Issuers, Requests, Gated
<1>5. ASSUME NEW q \in Gated, Enter(q) \/ Admit(q) PROVE Goal
  BY <1>1, <1>5, RequestsAssumption DEF Enter, Admit, Requests, Gated
<1>6. ASSUME NEW q \in Logouts, Blacklist(q) \/ DropToken(q) PROVE Goal
  BY <1>1, <1>6, RequestsAssumption DEF Blacklist, DropToken, Requests, Gated
<1>7. ASSUME NEW q \in MayFail, Fail(q) PROVE Goal
  BY <1>1, <1>7, RequestsAssumption DEF Fail
<1>8. ASSUME Tick \/ UNCHANGED vars PROVE Goal
  BY <1>8 DEF Tick, vars
<1> HIDE DEF Goal
<1>9. Goal
  BY <1>2, <1>3, <1>4, <1>5, <1>6, <1>7, <1>8 DEF Next, Over
<1> QED
  BY <1>9 DEF Goal

(* What becomes of the entry of a user. *)
LEMMA EntrySteps ==
  ASSUME TypeInv, [Next]_vars, NEW u \in Users
  PROVE  \/ stored'[u] = stored[u]
         \/ /\ stored'[u] = NoEntry
            /\ \E r \in Logouts : DropToken(r) /\ uses[r].user = u
         \/ \E r \in Issuers : StoreToken(r) /\ issued[r].refresh.user = u
<1> DEFINE Goal == \/ stored'[u] = stored[u]
                   \/ /\ stored'[u] = NoEntry
                      /\ \E r \in Logouts : DropToken(r) /\ uses[r].user = u
                   \/ \E r \in Issuers : StoreToken(r) /\ issued[r].refresh.user = u
<1>1. stored \in [Users -> [token : Tokens \cup {NoToken}, until : Nat]]
  BY DEF TypeInv, TypeOK
<1>2. ASSUME NEW r \in Issuers, StoreToken(r) PROVE Goal
  BY <1>1, <1>2 DEF StoreToken
<1>3. ASSUME NEW r \in Logouts, DropToken(r) PROVE Goal
  BY <1>1, <1>3 DEF DropToken
<1>4. ASSUME UNCHANGED stored PROVE Goal
  BY <1>4
<1> QED
  BY <1>2, <1>3, <1>4 DEF Next, Over, vars, SignIn, Answer, MatchToken, Reissue, Enter,
     Admit, Blacklist, Fail, Tick

(* A store, in full: the key outlives the token, which was signed earlier. *)
OnTime(r) == issued[r].refresh.exp <= Second + RefreshLife
LEMMA StoreSets ==
  ASSUME TypeInv, NEW r \in Issuers, StoreToken(r)
  PROVE  LET k == issued[r].refresh
         IN /\ k \in Tokens /\ k.user \in Users /\ k # NoToken
            /\ pc[r] = "signed" /\ pc'[r] = "stored" /\ issued' = issued
            /\ stored'[k.user].token = k
            /\ OnTime(r) => k.exp * PerSecond <= stored'[k.user].until
<1> DEFINE k == issued[r].refresh
<1>1. /\ k \in Tokens /\ k.user \in Users /\ k # NoToken
      /\ k.exp \in Nat
  BY RequestsAssumption DEF StoreToken, Go, TypeInv, SignedOK, Tokens
<1>2. pc[r] = "signed" /\ pc'[r] = "stored" /\ issued' = issued
  BY DEF StoreToken, Go, TypeInv, TypeOK, Requests
<1>3. stored'[k.user] = [token |-> k, until |-> now + RefreshLife * PerSecond]
  BY <1>1 DEF StoreToken, TypeInv, TypeOK
<1>4. ASSUME k.exp <= Second + RefreshLife
      PROVE  k.exp * PerSecond <= now + RefreshLife * PerSecond
  <2>1. now \in Nat /\ PerSecond \in Nat \ {0} /\ RefreshLife \in Nat
    BY ClockAssumption DEF TypeInv, TypeOK
  <2>2. Second \in Int /\ PerSecond * Second <= now
    BY <2>1, DivBounds DEF Second
  <2>3. PICK e \in Nat : e = k.exp
    BY <1>1
  <2>4. PICK s \in Int : s = Second
    BY <2>2
  <2>5. e * PerSecond <= (s + RefreshLife) * PerSecond
    BY <1>4, <2>1, <2>3, <2>4
  <2>6. (s + RefreshLife) * PerSecond = PerSecond * s + RefreshLife * PerSecond
    BY <2>1
  <2> QED
    BY <2>1, <2>2, <2>3, <2>4, <2>5, <2>6
<1> QED
  BY <1>1, <1>2, <1>3, <1>4 DEF OnTime

(* What a replacement or a logout does to the entry of its user. *)
LEMMA WhoTakes ==
  ASSUME TypeInv, [Next]_vars, NEW u \in Users
  PROVE  /\ Replaces(u) => \E r \in Issuers : StoreToken(r) /\ issued[r].refresh.user = u
         /\ Clears(u) => stored'[u] = NoEntry
         /\ stored'[u] # stored[u] => Replaces(u) \/ Clears(u)
<1>1. ASSUME Replaces(u)
      PROVE  \E r \in Issuers : StoreToken(r) /\ issued[r].refresh.user = u
  BY <1>1, StoreOrDrop DEF Replaces
<1>2. ASSUME Clears(u) PROVE stored'[u] = NoEntry
  BY <1>2, StoreOrDrop DEF Clears, DropToken, TypeInv, TypeOK
<1>3. ASSUME NEW r \in Issuers, StoreToken(r), issued[r].refresh.user = u PROVE Replaces(u)
  BY <1>3, StoreSets DEF Replaces
<1>4. ASSUME NEW r \in Logouts, DropToken(r), uses[r].user = u PROVE Clears(u)
  <2>1. pc[r] = "barred" /\ pc'[r] = "done"
    BY <1>4 DEF DropToken, Go, TypeInv, TypeOK, Requests, Gated
  <2> QED
    BY <1>4, <2>1 DEF Clears
<1> QED
  BY <1>1, <1>2, <1>3, <1>4, EntrySteps

-----------------------------------------------------------------------------
(* The token that is stored, and every token that was taken, is with a     *)
(* request that signed and stored it; one that is both was signed twice.   *)
FromClient(k) == k \in Tokens /\ \E p \in Issuers : Sent(p) /\ issued[p].refresh = k
Twice(k) ==
  \E p, o \in Issuers : /\ p # o /\ Sent(p) /\ Sent(o)
                        /\ issued[p].refresh = k /\ issued[o].refresh = k
StoredOK ==
  \A u \in Users : stored[u].token # NoToken =>
                     FromClient(stored[u].token) /\ stored[u].token.user = u
TakenOK == \A k \in taken : FromClient(k) /\ (stored[k.user].token = k => Twice(k))

(* A token that was signed expires in time, and one that was stored and    *)
(* not taken is still there, in a key that outlives it.                    *)
SignedOnTime == \A r \in Issuers : pc[r] = "signed" => OnTime(r)
KeptOK ==
  \A r \in Issuers :
    pc[r] \in {"stored", "done"} =>
      LET k == issued[r].refresh
      IN k \in taken \/ (stored[k.user].token = k /\ k.exp * PerSecond <= stored[k.user].until)
RotationInv == StoredOK /\ TakenOK /\ SignedOnTime /\ KeptOK

LEMMA RotationStart == RotationInit => RotationInv
  BY DEF RotationInit, Init, RotationInv, StoredOK, TakenOK, SignedOnTime, KeptOK, NoEntry,
     Requests

LEMMA SentStays ==
  ASSUME TypeInv, [Next]_vars, NEW k
  PROVE  (FromClient(k) => FromClient(k)') /\ (Twice(k) => Twice(k)')
<1>1. \A p \in Issuers : Sent(p) => Sent(p)' /\ issued'[p] = issued[p]
  BY SentKeeps
<1>2. ASSUME FromClient(k) PROVE FromClient(k)'
  BY <1>1, <1>2 DEF FromClient
<1>3. ASSUME Twice(k) PROVE Twice(k)'
  BY <1>1, <1>3 DEF Twice
<1> QED
  BY <1>2, <1>3

LEMMA StoredAgain ==
  ASSUME TypeInv, [Next]_vars, NEW k, FromClient(k),
         NEW r \in Issuers, StoreToken(r), issued[r].refresh = k
  PROVE  Twice(k)'
<1>1. PICK p \in Issuers : Sent(p) /\ issued[p].refresh = k
  BY DEF FromClient
<1>2. pc[r] = "signed" /\ pc'[r] = "stored" /\ issued' = issued
  BY StoreSets
<1>3. r # p /\ Sent(r)' /\ Sent(p)'
  BY <1>1, <1>2, SentKeeps DEF Sent
<1> QED
  BY <1>1, <1>2, <1>3 DEF Twice

(* A refresh signs a pair, or stands where it stood. *)
LEMMA SignSteps ==
  ASSUME TypeInv, [Next]_vars, NEW r \in Issuers
  PROVE  /\ pc'[r] = "signed" =>
              \/ pc[r] = "signed" /\ issued'[r] = issued[r]
              \/ \E u \in Users : issued'[r] = Pair(u)
         /\ pc'[r] \in {"stored", "done"} => pc[r] \in {"stored", "done"} \/ StoreToken(r)
<1> DEFINE Goal == /\ pc'[r] = "signed" =>
                        \/ pc[r] = "signed" /\ issued'[r] = issued[r]
                        \/ \E u \in Users : issued'[r] = Pair(u)
                   /\ pc'[r] \in {"stored", "done"} =>
                        pc[r] \in {"stored", "done"} \/ StoreToken(r)
<1> USE DEF Go
<1>1. /\ pc \in [Requests -> Stages] /\ r \in Requests
      /\ issued \in [Issuers -> [access : Tokens \cup {NoToken}, refresh : Tokens \cup {NoToken}]]
  BY DEF TypeInv, TypeOK, Requests
<1>2. ASSUME NEW q \in Logins, SignIn(q) PROVE Goal
  BY <1>1, <1>2 DEF SignIn, Issuers, Requests
<1>3. ASSUME NEW q \in Issuers, StoreToken(q) \/ Answer(q) PROVE Goal
  BY <1>1, <1>3 DEF StoreToken, Answer, Requests
<1>4. ASSUME NEW q \in Refreshes, MatchToken(q) PROVE Goal
  BY <1>1, <1>4 DEF MatchToken, Issuers, Requests
<1>5. ASSUME NEW q \in Refreshes, Reissue(q) PROVE Goal
  <2>1. uses[q].user \in Users
    BY <1>5 DEF Reissue, TypeInv, UsesOK, Requests, Issuers, Tokens
  <2> QED
    BY <1>1, <1>5, <2>1 DEF Reissue, Issuers, Requests
<1>6. ASSUME NEW q \in Gated, Enter(q) \/ Admit(q) PROVE Goal
  BY <1>1, <1>6, RequestsAssumption DEF Enter, Admit, Requests
<1>7. ASSUME NEW q \in Logouts, Blacklist(q) \/ DropToken(q) PROVE Goal
  BY <1>1, <1>7, RequestsAssumption DEF Blacklist, DropToken, Requests, Gated
<1>8. ASSUME NEW q \in MayFail, Fail(q) PROVE Goal
  BY <1>1, <1>8, RequestsAssumption DEF Fail
<1>9. ASSUME Tick \/ UNCHANGED vars PROVE Goal
  BY <1>9 DEF Tick, vars
<1> HIDE DEF Goal
<1>10. Goal
  BY <1>2, <1>3, <1>4, <1>5, <1>6, <1>7, <1>8, <1>9 DEF Next, Over
<1> QED
  BY <1>10 DEF Goal

(* A refresh goes on only with the token that is stored. *)
LEMMA MatchesStored ==
  ASSUME TypeInv, [Next]_vars, NEW r \in Refreshes, pc[r] = "idle", pc'[r] = "matched"
  PROVE  IsStored(uses'[r])
<1> USE DEF Go
<1>1. /\ pc \in [Requests -> Stages] /\ uses \in [Requests -> Tokens \cup {NoToken}]
      /\ r \in Requests /\ r \in Issuers /\ r \notin Logins
  BY RequestsAssumption DEF TypeInv, TypeOK, Requests, Issuers
<1>2. ASSUME NEW q \in Refreshes, MatchToken(q) PROVE IsStored(uses'[r])
  <2>1. q = r /\ pc' = [pc EXCEPT ![r] = "matched"]
    BY <1>1, <1>2 DEF MatchToken, Requests, Issuers
  <2> QED
    BY <1>1, <1>2, <2>1 DEF MatchToken
<1>3. ASSUME NEW q \in Logins, SignIn(q) PROVE FALSE
  BY <1>1, <1>3 DEF SignIn
<1>4. ASSUME NEW q \in Issuers, StoreToken(q) \/ Answer(q) PROVE FALSE
  BY <1>1, <1>4 DEF StoreToken, Answer
<1>5. ASSUME NEW q \in Refreshes, Reissue(q) PROVE FALSE
  BY <1>1, <1>5 DEF Reissue
<1>6. ASSUME NEW q \in Gated, Enter(q) \/ Admit(q) PROVE FALSE
  BY <1>1, <1>6, RequestsAssumption DEF Enter, Admit
<1>7. ASSUME NEW q \in Logouts, Blacklist(q) \/ DropToken(q) PROVE FALSE
  BY <1>1, <1>7 DEF Blacklist, DropToken
<1>8. ASSUME NEW q \in MayFail, Fail(q) PROVE FALSE
  BY <1>1, <1>8 DEF Fail
<1>9. ASSUME Tick \/ UNCHANGED vars PROVE FALSE
  BY <1>9 DEF Tick, vars
<1> QED
  BY <1>2, <1>3, <1>4, <1>5, <1>6, <1>7, <1>8, <1>9 DEF Next, Over

LEMMA SecondGrows ==
  ASSUME TypeInv, [Next]_vars
  PROVE  Second \in Nat /\ Second' \in Nat /\ Second <= Second'
<1>1. now \in Nat
  BY ClockAssumption DEF TypeInv, TypeOK
<1>2. now' = now \/ now' = now + 1
  BY DEF Next, Over, vars, SignIn, StoreToken, Answer, MatchToken, Reissue, Enter,
     Admit, Blacklist, DropToken, Fail, Tick
<1>3. PerSecond \in Nat \ {0} /\ now' \in Nat
  BY <1>1, <1>2, ClockAssumption
<1>4. Second \in Nat /\ Second' \in Nat
  BY <1>1, <1>3, DivNat DEF Second
<1>5. CASE now' = now
  BY <1>4, <1>5 DEF Second
<1>6. CASE now' = now + 1
  BY <1>1, <1>3, <1>4, <1>6, DivGrows DEF Second
<1> QED
  BY <1>2, <1>4, <1>5, <1>6

LEMMA RotationStep == TypeInv /\ RotationInv /\ [RotationNext]_<<vars, taken>> => RotationInv'
<1> SUFFICES ASSUME TypeInv, RotationInv, [RotationNext]_<<vars, taken>> PROVE RotationInv'
  OBVIOUS
<1>0. [Next]_vars
  BY WatchOnly
<1>1. /\ \A k \in taken' \ taken : \E u \in Users : /\ k = stored[u].token /\ k # NoToken
                                                    /\ Replaces(u) \/ Clears(u)
      /\ taken \subseteq taken'
      /\ \A u \in Users : (Replaces(u) \/ Clears(u)) /\ stored[u].token # NoToken
                            => stored[u].token \in taken'
  <2>1. CASE RotationNext
    BY <2>1 DEF RotationNext
  <2>2. CASE UNCHANGED <<vars, taken>>
    BY <2>2 DEF vars, Replaces, Clears
  <2> QED
    BY <2>1, <2>2
<1>2. StoredOK'
  <2> SUFFICES ASSUME NEW u \in Users, stored'[u].token # NoToken
               PROVE  FromClient(stored[u].token)' /\ stored'[u].token.user = u
    BY DEF StoredOK
  <2>1. PICK k : k = stored'[u].token
    OBVIOUS
  <2>2. CASE stored'[u] = stored[u]
    <3>1. FromClient(k) /\ k.user = u
      BY <2>1, <2>2 DEF RotationInv, StoredOK
    <3> QED
      BY <1>0, <2>1, <3>1, SentStays DEF FromClient
  <2>3. ASSUME NEW r \in Issuers, StoreToken(r), issued[r].refresh.user = u
        PROVE  FromClient(k)' /\ k.user = u
    <3>1. /\ k = issued[r].refresh /\ k \in Tokens
          /\ pc'[r] = "stored" /\ issued' = issued
      BY <2>1, <2>3, StoreSets
    <3> QED
      BY <2>3, <3>1 DEF FromClient, Sent
  <2>4. stored'[u] # NoEntry
    BY DEF NoEntry
  <2> QED
    BY <1>0, <2>1, <2>2, <2>3, <2>4, EntrySteps DEF FromClient
<1>3. TakenOK'
  <2> SUFFICES ASSUME NEW k \in taken'
               PROVE  FromClient(k)' /\ (stored'[k.user].token = k => Twice(k)')
    BY DEF TakenOK
  <2>1. FromClient(k)
    BY <1>1 DEF RotationInv, TakenOK, StoredOK
  <2>2. k \in Tokens /\ k.user \in Users /\ k # NoToken
    BY <2>1, RequestsAssumption DEF FromClient, Tokens
  <2>3. ASSUME NEW r \in Issuers, StoreToken(r), issued[r].refresh.user = k.user,
               stored'[k.user].token = k
        PROVE  Twice(k)'
    <3>1. issued[r].refresh = k
      BY <2>3, StoreSets
    <3> QED
      BY <1>0, <2>1, <2>3, <3>1, StoredAgain
  <2>4. CASE k \in taken
    <3>1. CASE stored'[k.user] = stored[k.user]
      BY <1>0, <2>4, <3>1, SentStays DEF RotationInv, TakenOK
    <3> QED
      BY <1>0, <2>2, <2>3, <3>1, EntrySteps, SentStays, <2>1 DEF NoEntry
  <2>5. CASE k \notin taken
    <3>1. PICK u \in Users : k = stored[u].token /\ (Replaces(u) \/ Clears(u))
      BY <1>1, <2>5
    <3>2. k.user = u
      BY <2>2, <3>1 DEF RotationInv, StoredOK
    <3> QED
      BY <1>0, <2>1, <2>2, <2>3, <3>1, <3>2, WhoTakes, SentStays DEF NoEntry
  <2> QED
    BY <2>4, <2>5
<1>4. SignedOnTime'
  <2> SUFFICES ASSUME NEW r \in Issuers, pc'[r] = "signed"
               PROVE  issued'[r].refresh.exp <= Second' + RefreshLife
    BY DEF SignedOnTime, OnTime
  <2>1. CASE pc[r] = "signed" /\ issued'[r] = issued[r]
    <3>1. issued[r].refresh.exp \in Nat
      BY <2>1 DEF TypeInv, SignedOK, Tokens
    <3>2. issued[r].refresh.exp <= Second + RefreshLife
      BY <2>1 DEF RotationInv, SignedOnTime, OnTime
    <3> QED
      BY <1>0, <2>1, <3>1, <3>2, SecondGrows, ClockAssumption
  <2>2. ASSUME NEW u \in Users, issued'[r] = Pair(u)
        PROVE  issued'[r].refresh.exp <= Second' + RefreshLife
    <3>1. issued'[r].refresh.exp = Second + RefreshLife
      BY <2>2 DEF Pair, Token
    <3> QED
      BY <1>0, <3>1, SecondGrows, ClockAssumption
  <2> QED
    BY <1>0, <2>1, <2>2, SignSteps
<1>5. KeptOK'
  <2> SUFFICES ASSUME NEW r \in Issuers, pc'[r] \in {"stored", "done"}, NEW k,
                      k = issued'[r].refresh
               PROVE  \/ k \in taken'
                      \/ /\ stored'[k.user].token = k
                         /\ k.exp * PerSecond <= stored'[k.user].until
    BY DEF KeptOK
  <2>1. CASE StoreToken(r)
    BY <2>1, StoreSets DEF RotationInv, SignedOnTime
  <2>2. CASE pc[r] \in {"stored", "done"}
    <3>1. k = issued[r].refresh
      BY <1>0, <2>2, SentKeeps DEF Sent
    <3>2. k \in Tokens /\ k.user \in Users /\ k # NoToken
      BY <2>2, <3>1, RequestsAssumption DEF TypeInv, SignedOK, Tokens
    <3>3. k \in taken \/ (stored[k.user].token = k /\ k.exp * PerSecond <= stored[k.user].until)
      BY <2>2, <3>1 DEF RotationInv, KeptOK
    <3> QED
      BY <1>0, <1>1, <3>2, <3>3, WhoTakes
  <2> QED
    BY <1>0, <2>1, <2>2, SignSteps
<1> QED
  BY <1>2, <1>3, <1>4, <1>5 DEF RotationInv

LEMMA RotationCorrect == RotationSpec => [](TypeInv /\ RotationInv)
<1>1. RotationInit => TypeInv
  BY WatchOnly, TypeInit
<1>2. TypeInv /\ [RotationNext]_<<vars, taken>> => TypeInv'
  BY WatchOnly, TypeStep
<1> QED
  BY <1>1, <1>2, RotationStart, RotationStep, PTL DEF RotationSpec

(* A token that was answered refreshes the session to the end of its life  *)
(* unless a login, a refresh or a logout of the same user takes it away,   *)
(* for every number of users and requests: the key outlives the token and  *)
(* nobody else touches it.                                                 *)
THEOREM RefreshesWhileKept == RotationSpec => []RefreshesUntilTaken
<1>1. TypeInv /\ RotationInv => RefreshesUntilTaken
  <2> SUFFICES ASSUME TypeInv, RotationInv, NEW r \in Issuers, pc[r] \in {"stored", "done"},
                      NEW k, k = issued[r].refresh, k \notin taken, ~IsStored(k)
               PROVE  k.exp <= Second
    BY DEF RefreshesUntilTaken
  <2>1. k.user \in Users /\ k.exp \in Nat
    BY DEF TypeInv, SignedOK, Tokens
  <2>2. /\ stored[k.user].token = k /\ k.exp * PerSecond <= stored[k.user].until
        /\ now \in Nat /\ stored[k.user].until \in Nat
    BY <2>1, ClockAssumption DEF RotationInv, KeptOK, TypeInv, TypeOK
  <2>3. PerSecond \in Nat \ {0} /\ k.exp * PerSecond \in Nat
    BY <2>1, ClockAssumption
  <2>4. k.exp * PerSecond <= now
    BY <2>2, <2>3 DEF IsStored
  <2> QED
    BY <2>1, <2>2, <2>3, <2>4, DivAtLeast DEF Second
<1> QED
  BY <1>1, RotationCorrect, PTL

(* A token whose place was taken is accepted by no refresh that comes      *)
(* after that, for every number of requests, whichever of them fail or     *)
(* lose their answers, unless two of them signed the very same token.      *)
(* Two refreshes that both come before the place is taken both pass.       *)
THEOREM TakenStaysTaken == RotationSpec => TakenForGood
<1>1. ASSUME TypeInv, RotationInv, [RotationNext]_<<vars, taken>>
      PROVE  [\A r \in Refreshes :
                pc[r] = "idle" /\ pc'[r] = "matched" /\ uses'[r] \in taken
                  => SignedTwice(uses'[r])]_vars
  <2> SUFFICES ASSUME NEW r \in Refreshes, pc[r] = "idle", pc'[r] = "matched",
                      NEW k \in taken, k = uses'[r]
               PROVE  SignedTwice(k)
    BY DEF SignedTwice
  <2>1. IsStored(k)
    BY <1>1, WatchOnly, MatchesStored
  <2> QED
    BY <1>1, <2>1 DEF IsStored, RotationInv, TakenOK, Twice, SignedTwice
<1> QED
  BY <1>1, RotationCorrect, PTL DEF RotationSpec, TakenForGood
=============================================================================
