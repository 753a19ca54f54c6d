---------------------------- MODULE SessionChain ----------------------------
(***************************************************************************)
(* What refresh sessions promise: a user signs up with one session, which  *)
(* is exchanged for its successor or ended, in one step; a session that is *)
(* over stays over.  RefreshSessions, the statements of                    *)
(* src/internal/storage/auth_store.go, implements this specification.      *)
(***************************************************************************)
CONSTANTS Tokens, Users, None

VARIABLES
    owner,    \* refresh_sessions.user_id, None while there is no row
    revoked   \* the sessions with a revoked_at

vars == <<owner, revoked>>

Init == owner = [t \in Tokens |-> None] /\ revoked = {}

SignUp(u, t) ==
    /\ owner[t] = None
    /\ \A o \in Tokens : owner[o] # u
    /\ owner' = [owner EXCEPT ![t] = u]
    /\ UNCHANGED revoked

Rotate(old, t) ==
    /\ owner[old] # None /\ old \notin revoked
    /\ owner[t] = None
    /\ owner' = [owner EXCEPT ![t] = owner[old]]
    /\ revoked' = revoked \union {old}

End(t) ==
    /\ owner[t] # None
    /\ revoked' = revoked \union {t}
    /\ UNCHANGED owner

Next ==
    \E t \in Tokens :
        \/ \E u \in Users : SignUp(u, t)
        \/ \E old \in Tokens : Rotate(old, t)
        \/ End(t)

Spec == Init /\ [][Next]_vars
=============================================================================
