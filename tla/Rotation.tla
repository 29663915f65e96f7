------------------------------ MODULE Rotation ------------------------------
(***************************************************************************)
(* Sessions with a history variable, which no action reads: the refresh    *)
(* tokens whose place in Redis a login, a refresh or a logout has taken.   *)
(* It says from when on a token must no longer refresh a session, and      *)
(* until when it must.                                                     *)
(***************************************************************************)
EXTENDS Sessions

VARIABLE taken

(* A login or refresh of u stores its token; a logout of u is through. *)
Replaces(u) == \E r \in Issuers : /\ pc[r] = "signed" /\ pc'[r] = "stored"
                                  /\ issued[r].refresh.user = u
Clears(u)   == \E r \in Logouts : /\ pc[r] = "barred" /\ pc'[r] = "done"
                                  /\ uses[r].user = u

RotationInit == Init /\ taken = {}

RotationNext ==
  /\ Next
  /\ taken' = taken \cup ({stored[u].token : u \in {v \in Users : Replaces(v) \/ Clears(v)}}
                            \ {NoToken})

RotationSpec == RotationInit /\ [][RotationNext]_<<vars, taken>>

-----------------------------------------------------------------------------
(* Two requests signed the very same token, within one second. *)
SignedTwice(k) ==
  \E p, o \in Issuers : p # o /\ issued[p].refresh = k /\ issued[o].refresh = k

(* A refresh token that a login, a refresh or a logout has taken away is   *)
(* accepted by no refresh that comes later, although the token is valid    *)
(* for days more and whatever became of the answer of the one that took    *)
(* it, unless two requests signed that very token.  Refreshes that come    *)
(* before it is taken are all accepted.                                    *)
TakenForGood ==
  [][\A r \in Refreshes :
       pc[r] = "idle" /\ pc'[r] = "matched" /\ uses'[r] \in taken => SignedTwice(uses'[r])]_vars

(* The other way round: a client that was answered a refresh token can use *)
(* it up to the last second of its life until a login, a refresh or a      *)
(* logout of its own user takes it away.  The key neither expires before   *)
(* the token, which was signed earlier, nor is it touched by anybody else. *)
RefreshesUntilTaken ==
  \A r \in Issuers :
    pc[r] \in {"stored", "done"} =>
      LET k == issued[r].refresh
      IN k \in taken \/ k.exp <= Second \/ IsStored(k)
=============================================================================
