------------------------------ MODULE Sessions ------------------------------
(***************************************************************************)
(* Login, refresh, logout and the two gates every other request passes:    *)
(* AuthMiddleware and get_current_user.  Redis holds one refresh token per *)
(* user and a blacklist of access tokens.                                  *)
(*                                                                         *)
(* A JWT is determined by its claims, and exp is in whole seconds: tokens  *)
(* of one user and type issued within a second are the same token.         *)
(* Clients present tokens they were answered.                              *)
(***************************************************************************)
EXTENDS Integers

CONSTANTS
  Users,
  Logins, Refreshes, Logouts,  \* identities of the requests
  Calls,        \* requests to the endpoints that only need a user
  AccessLife,   \* ACCESS_TOKEN_EXPIRE_MINUTES, in seconds
  RefreshLife,  \* REFRESH_TOKEN_EXPIRE_DAYS, in seconds
  PerSecond,    \* instants of the clock in a second
  MaxClock,     \* bound: the last instant of the clock
  MayFail,      \* the requests whose handler may raise or die half way
  NoToken

Issuers  == Logins \cup Refreshes
Gated    == Logouts \cup Calls
Requests == Issuers \cup Gated
Tokens   == [user : Users, kind : {"access", "refresh"}, exp : Nat]
NoPair   == [access |-> NoToken, refresh |-> NoToken]
NoEntry  == [token |-> NoToken, until |-> 0]

ASSUME RequestsAssumption ==
  /\ Logins \cap Refreshes = {}
  /\ Logouts \cap Calls = {}
  /\ Issuers \cap Gated = {}
  /\ MayFail \subseteq Requests
  /\ NoToken \notin Tokens

ASSUME ClockAssumption ==
  /\ AccessLife \in Nat \ {0}
  /\ RefreshLife \in Nat \ {0}
  /\ PerSecond \in Nat \ {0}
  /\ MaxClock \in Nat

VARIABLES
  now,
  stored,  \* refresh_token:{u}: the token and the instant the key expires
  black,   \* blacklist:{token} keys, with the instant each expires
  pc,      \* where each handler is
  uses,    \* the token a request presents
  issued   \* the pair of tokens a login or refresh has signed

vars == <<now, stored, black, pc, uses, issued>>

-----------------------------------------------------------------------------
Ended == {"done", "refused", "failed"}
Stages == {"idle", "matched", "signed", "stored", "entered", "admitted", "barred"} \cup Ended

Go(r, from, to) == pc[r] = from /\ pc' = [pc EXCEPT ![r] = to]

Second == now \div PerSecond

Token(u, kind, life) == [user |-> u, kind |-> kind, exp |-> Second + life]
Pair(u) == [access |-> Token(u, "access", AccessLife),
            refresh |-> Token(u, "refresh", RefreshLife)]

(* The tokens clients have been answered. *)
Answered == {r \in Issuers : pc[r] = "done"}
Handed   == {issued[r].access : r \in Answered} \cup {issued[r].refresh : r \in Answered}

(* jwt.decode refuses a token once the second it expires in is over. *)
Decodes(k) == Second <= k.exp

Revoked(k) == \E b \in black : b.token = k /\ now < b.until

(* Mutant: the blacklist is not asked. *)
Passes_Unasked(k) == Decodes(k) /\ k.kind = "access"

(* What both gates check, each with an EXISTS of its own. *)
Passes(k) == Decodes(k) /\ k.kind = "access" /\ ~Revoked(k)

(* Mutant: the stored token is not compared with the one presented. *)
IsStored_Any(k) == now < stored[k.user].until

IsStored(k) == stored[k.user].token = k /\ now < stored[k.user].until

-----------------------------------------------------------------------------
Init ==
  /\ now = 0
  /\ stored = [u \in Users |-> NoEntry]
  /\ black = {}
  /\ pc = [r \in Requests |-> "idle"]
  /\ uses = [r \in Requests |-> NoToken]
  /\ issued = [r \in Issuers |-> NoPair]

(* login: the password is right and both tokens are signed, or 401. *)
SignIn(r) ==
  /\ \/ Go(r, "idle", "signed") /\ \E u \in Users : issued' = [issued EXCEPT ![r] = Pair(u)]
     \/ Go(r, "idle", "refused") /\ UNCHANGED issued
  /\ UNCHANGED <<now, stored, black, uses>>

(* Mutant: the key gets the lifetime of an access token. *)
StoreToken_AccessLife(r) ==
  LET k == issued[r].refresh
  IN /\ Go(r, "signed", "stored")
     /\ stored' = [stored EXCEPT ![k.user] =
                     [token |-> k, until |-> now + AccessLife * PerSecond]]
     /\ UNCHANGED <<now, black, uses, issued>>

(* Login and refresh end with SETEX refresh_token:{u}. *)
StoreToken(r) ==
  LET k == issued[r].refresh
  IN /\ Go(r, "signed", "stored")
     /\ stored' = [stored EXCEPT ![k.user] =
                     [token |-> k, until |-> now + RefreshLife * PerSecond]]
     /\ UNCHANGED <<now, black, uses, issued>>

(* The client gets its pair. *)
Answer(r) ==
  /\ Go(r, "stored", "done")
  /\ UNCHANGED <<now, stored, black, uses, issued>>

(* refresh_tokens: decode, GET refresh_token:{u}, compare; 401 otherwise. *)
MatchToken(r) ==
  \E k \in Handed :
    /\ uses' = [uses EXCEPT ![r] = k]
    /\ LET good == Decodes(k) /\ k.kind = "refresh" /\ IsStored(k)
       IN \/ good  /\ Go(r, "idle", "matched")
          \/ ~good /\ Go(r, "idle", "refused")
    /\ UNCHANGED <<now, stored, black, issued>>

(* The user is there: sign a new pair. *)
Reissue(r) ==
  /\ Go(r, "matched", "signed")
  /\ issued' = [issued EXCEPT ![r] = Pair(uses[r].user)]
  /\ UNCHANGED <<now, stored, black, uses>>

(* AuthMiddleware: EXISTS blacklist:{token} *)
Enter(r) ==
  \E k \in Handed :
    /\ uses' = [uses EXCEPT ![r] = k]
    /\ \/ Passes(k)  /\ Go(r, "idle", "entered")
       \/ ~Passes(k) /\ Go(r, "idle", "refused")
    /\ UNCHANGED <<now, stored, black, issued>>

(* get_current_user: the same once more, then the user is loaded. *)
Admit(r) ==
  /\ \/ Go(r, "entered", IF r \in Calls THEN "done" ELSE "admitted") /\ Passes(uses[r])
     \/ Go(r, "entered", "refused") /\ ~Passes(uses[r])
  /\ UNCHANGED <<now, stored, black, uses, issued>>

(* Mutant: one second less. *)
TimeLeft_Short(k) ==
  LET left == ((k.exp - 1) * PerSecond - now) \div PerSecond
  IN IF left < 1 THEN 1 ELSE left

(* max(int(exp - now), 1): whole seconds until the token expires. *)
TimeLeft(k) ==
  LET left == (k.exp * PerSecond - now) \div PerSecond
  IN IF left < 1 THEN 1 ELSE left

(* logout: SETEX blacklist:{token}, unless the token expired meanwhile. *)
Blacklist(r) ==
  LET k == uses[r]
      entry == [token |-> k, until |-> now + TimeLeft(k) * PerSecond]
  IN /\ Go(r, "admitted", "barred")
     /\ black' = IF Decodes(k) THEN {b \in black : b.token # k} \cup {entry} ELSE black
     /\ UNCHANGED <<now, stored, uses, issued>>

(* DEL refresh_token:{u} *)
DropToken(r) ==
  /\ Go(r, "barred", "done")
  /\ stored' = [stored EXCEPT ![uses[r].user] = NoEntry]
  /\ UNCHANGED <<now, black, uses, issued>>

(* Redis or Postgres raises, the process dies or its answer gets lost.     *)
Fail(r) ==
  /\ pc[r] \notin Ended \cup {"idle"}
  /\ pc' = [pc EXCEPT ![r] = "failed"]
  /\ UNCHANGED <<now, stored, black, uses, issued>>

Tick ==
  /\ now < MaxClock
  /\ now' = now + 1
  /\ UNCHANGED <<stored, black, pc, uses, issued>>

(* Nothing is left to do; a request without a token to present never comes. *)
Over ==
  /\ \A r \in Requests : pc[r] \in Ended \/ (pc[r] = "idle" /\ Handed = {})
  /\ now = MaxClock
  /\ UNCHANGED vars

Next ==
  \/ \E r \in Logins : SignIn(r)
  \/ \E r \in Issuers : StoreToken(r) \/ Answer(r)
  \/ \E r \in Refreshes : MatchToken(r) \/ Reissue(r)
  \/ \E r \in Gated : Enter(r) \/ Admit(r)
  \/ \E r \in Logouts : Blacklist(r) \/ DropToken(r)
  \/ \E r \in MayFail : Fail(r)
  \/ Tick
  \/ Over

Spec == Init /\ [][Next]_vars

-----------------------------------------------------------------------------
TypeOK ==
  /\ now \in 0..MaxClock
  /\ stored \in [Users -> [token : Tokens \cup {NoToken}, until : Nat]]
  /\ black \subseteq [token : Tokens, until : Nat]
  /\ pc \in [Requests -> Stages]
  /\ uses \in [Requests -> Tokens \cup {NoToken}]
  /\ issued \in [Issuers -> [access : Tokens \cup {NoToken}, refresh : Tokens \cup {NoToken}]]

Accepted(r) == \/ pc[r] = "idle" /\ pc'[r] = "entered"
               \/ pc[r] = "entered" /\ pc'[r] \in {"admitted", "done"}
LoggedOut(k) == \E q \in Logouts : pc[q] \in {"barred", "done"} /\ uses[q] = k

(* Once a logout has blacklisted its token neither gate lets a request     *)
(* with it pass, up to the second before the one the token expires in.     *)
StaysLoggedOut ==
  [][\A r \in Gated : Accepted(r) /\ LoggedOut(uses'[r]) => uses'[r].exp - 1 <= Second]_vars

(* Why: the blacklist entry of a token lives into its last second, however *)
(* often the token is logged out.                                          *)
BarredToTheEnd ==
  \A q \in Logouts :
    pc[q] \in {"barred", "done"} =>
      LET k == uses[q]
      IN \/ ~Decodes(k)
         \/ \E b \in black : b.token = k /\ (k.exp - 1) * PerSecond < b.until
=============================================================================
