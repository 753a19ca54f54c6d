-------------------------- MODULE RefreshSessions --------------------------
(***************************************************************************)
(* The refresh sessions of one browser: Guest, Refresh and Logout of       *)
(* src/internal/http/auth_handlers.go, whose requests the browser may send *)
(* at once, and the transactions of src/internal/storage/auth_store.go     *)
(* behind them.  Browsers share nothing, so one is enough.                 *)
(*                                                                         *)
(* A request carries the cookie of the moment it is sent.  Its answer may  *)
(* set or clear the cookie, arrives after any other, or is lost.  A token  *)
(* stands for its hash.  The history variable `disturbed' says whether the *)
(* browser ever sent two requests at once, or failed to learn what one did *)
(* (a logout that answers 204 and has revoked nothing is of that kind).    *)
(***************************************************************************)
CONSTANTS
    Tokens,    \* the tokens NewRefreshToken hands out (their number bounds the sessions)
    Users,     \* the ids of users
    Requests,  \* the requests that can be in progress at once
    None

ASSUME NoneAssumption == None \notin Tokens \union Users

VARIABLES
    owner,     \* refresh_sessions.user_id, None while there is no row
    revoked,   \* the sessions with a revoked_at
    expired,   \* the sessions past their expires_at
    cookie,    \* the browser's refresh cookie
    request,   \* what each request is doing
    disturbed

table == <<owner, revoked, expired>>
vars == <<owner, revoked, expired, cookie, request, disturbed>>

Idle == [pc |-> "idle", token |-> None, fresh |-> None]

\* "set" and "clear" are answers on their way to the browser.
Request ==
    [pc : {"idle", "create", "refresh", "locked", "logout", "set", "clear"},
     token : Tokens \union {None}, fresh : Tokens \union {None}]

TypeOK ==
    /\ owner \in [Tokens -> Users \union {None}]
    /\ revoked \in SUBSET Tokens /\ expired \in SUBSET Tokens
    /\ cookie \in Tokens \union {None}
    /\ request \in [Requests -> Request]
    /\ disturbed \in BOOLEAN

Init ==
    /\ owner = [t \in Tokens |-> None] /\ revoked = {} /\ expired = {}
    /\ cookie = None
    /\ request = [q \in Requests |-> Idle]
    /\ disturbed = FALSE

-----------------------------------------------------------------------------
\* 32 random bytes: no session and no request has them.
IsFresh(t) == owner[t] = None /\ \A q \in Requests : request[q].fresh # t

\* No transaction holds the row of token t from its SELECT ... FOR UPDATE.
Unlocked(t) == \A q \in Requests : request[q].pc = "locked" => request[q].token # t

Live == {t \in Tokens : owner[t] # None} \ (revoked \union expired)

Quiet == \A q \in Requests : request[q] = Idle

Send(q, pc, token, fresh) ==
    /\ request[q] = Idle
    /\ request' = [request EXCEPT ![q] = [pc |-> pc, token |-> token, fresh |-> fresh]]
    /\ disturbed' = (disturbed \/ ~Quiet)
    /\ UNCHANGED <<table, cookie>>

Goto(q, pc) == request' = [request EXCEPT ![q].pc = pc]
Finish(q) == request' = [request EXCEPT ![q] = Idle]

-----------------------------------------------------------------------------
(* The requests *)

\* Guest without a cookie.  With one it is Refresh.
Guest(q) ==
    /\ cookie = None
    /\ \E t \in Tokens : IsFresh(t) /\ Send(q, "create", None, t)

Refresh(q) ==
    /\ cookie # None
    /\ \E t \in Tokens : IsFresh(t) /\ Send(q, "refresh", cookie, t)

\* An operator named Bug... is a faulty version of the one after it; no action uses
\* it, it stands for a bug the checks must find.
BugLogoutWithoutCookie(q) == Send(q, "logout", cookie, None)

\* Without a cookie there is nothing to revoke; the answer clears it all the same.
Logout(q) == Send(q, IF cookie = None THEN "clear" ELSE "logout", cookie, None)

\* CreateGuestUserAndSession: three inserts, one transaction.
CreateGuestUserAndSession(q) ==
    LET t == request[q].fresh IN
    /\ request[q].pc = "create"
    /\ \E u \in Users :
          /\ \A o \in Tokens : owner[o] # u
          /\ owner' = [owner EXCEPT ![t] = u]
    /\ Goto(q, "set")
    /\ UNCHANGED <<revoked, expired, cookie, disturbed>>

BugWithoutForUpdate(q) ==
    LET t == request[q].token IN
    /\ request[q].pc = "refresh"
    /\ owner[t] # None /\ t \notin revoked \union expired
    /\ Goto(q, "locked")
    /\ UNCHANGED <<table, cookie, disturbed>>

BugRevokedNotChecked(q) ==
    LET t == request[q].token IN
    /\ request[q].pc = "refresh"
    /\ Unlocked(t)
    /\ owner[t] # None /\ t \notin expired
    /\ Goto(q, "locked")
    /\ UNCHANGED <<table, cookie, disturbed>>

\* RotateRefreshSession: SELECT ... FOR UPDATE finds a session that can be exchanged.
\* A request that waited for the row reads it as the holder left it.
LockSession(q) ==
    LET t == request[q].token IN
    /\ request[q].pc = "refresh"
    /\ Unlocked(t)
    /\ owner[t] # None /\ t \notin revoked \union expired
    /\ Goto(q, "locked")
    /\ UNCHANGED <<table, cookie, disturbed>>

\* It finds none, or one that is over: 401, which leaves the cookie alone.
InvalidRefresh(q) ==
    LET t == request[q].token IN
    /\ request[q].pc = "refresh"
    /\ Unlocked(t)
    /\ owner[t] = None \/ t \in revoked \union expired
    /\ Finish(q)
    /\ UNCHANGED <<table, cookie, disturbed>>

\* UPDATE, INSERT and COMMIT.
CommitRotation(q) ==
    LET old == request[q].token IN
    /\ request[q].pc = "locked"
    /\ owner' = [owner EXCEPT ![request[q].fresh] = owner[old]]
    /\ revoked' = revoked \union {old}
    /\ Goto(q, "set")
    /\ UNCHANGED <<expired, cookie, disturbed>>

\* RevokeRefreshSession, one UPDATE, which waits for the row's lock.
RevokeRefreshSession(q) ==
    /\ request[q].pc = "logout"
    /\ Unlocked(request[q].token)
    /\ revoked' = revoked \union {request[q].token}
    /\ Goto(q, "clear")
    /\ UNCHANGED <<owner, expired, cookie, disturbed>>

\* The error of the UPDATE is dropped, the cookie cleared, and the browser told 204: it
\* is disturbed, for its session is alive and it cannot know.
RevokeFails(q) ==
    /\ request[q].pc = "logout"
    /\ Goto(q, "clear")
    /\ disturbed' = TRUE
    /\ UNCHANGED <<table, cookie>>

BugCookieBeforeRotation(q) ==
    /\ request[q].pc \in {"create", "refresh", "locked"}
    /\ Goto(q, "set")
    /\ UNCHANGED <<table, cookie, disturbed>>

\* A statement fails or the 3 s run out: rollback, an error, no cookie.
Abort(q) ==
    /\ request[q].pc \in {"create", "refresh", "locked"}
    /\ Finish(q)
    /\ UNCHANGED <<table, cookie, disturbed>>

-----------------------------------------------------------------------------
(* The browser and time *)

ReceiveCookie(q) ==
    /\ request[q].pc = "set"
    /\ cookie' = request[q].fresh
    /\ Finish(q)
    /\ UNCHANGED <<table, disturbed>>

ReceiveClear(q) ==
    /\ request[q].pc = "clear"
    /\ cookie' = None
    /\ Finish(q)
    /\ UNCHANGED <<table, disturbed>>

\* The answer is lost, or COMMIT was done and reported as failed.
LoseAnswer(q) ==
    /\ request[q].pc \in {"set", "clear"}
    /\ Finish(q)
    /\ disturbed' = TRUE
    /\ UNCHANGED <<table, cookie>>

\* 30 days pass.  The cookie has the session's expiry, and the browser drops it.
Expire(t) ==
    /\ Quiet
    /\ t \in Live
    /\ expired' = expired \union {t}
    /\ cookie' = IF cookie = t THEN None ELSE cookie
    /\ UNCHANGED <<owner, revoked, request, disturbed>>

Next ==
    \/ \E q \in Requests :
          \/ Guest(q) \/ Refresh(q) \/ Logout(q)
          \/ CreateGuestUserAndSession(q)
          \/ LockSession(q) \/ InvalidRefresh(q) \/ CommitRotation(q)
          \/ RevokeRefreshSession(q) \/ RevokeFails(q)
          \/ Abort(q)
          \/ ReceiveCookie(q) \/ ReceiveClear(q) \/ LoseAnswer(q)
    \/ \E t \in Tokens : Expire(t)

Spec == Init /\ [][Next]_vars

-----------------------------------------------------------------------------
\* However many requests present a user's token at once, and whatever a logout does
\* meanwhile, a user never has two sessions that can be refreshed (auth_store.go:100-118).
OneLiveSession ==
    \A s, t \in Live : owner[s] = owner[t] => s = t

\* A browser that sends one request at a time, gets every answer, and meets no logout
\* whose UPDATE failed (auth_handlers.go:124 drops the error), has between two requests
\* the token of the one session that is alive, or no cookie and no session: it is never
\* signed out by itself, and its logout leaves nothing (:58-65, :101-107, :118-140).  One
\* that is disturbed has no such promise: it may keep a revoked token, with which Guest
\* and Refresh only fail, until it logs out, or have logged out of a session that lives.
CookieIsTheSession ==
    Quiet /\ ~disturbed => Live = {cookie} \ {None}

\* The row locks make of each request one step of the chain of sessions.
Chain == INSTANCE SessionChain
ImplementsChain == Chain!Spec
=============================================================================
