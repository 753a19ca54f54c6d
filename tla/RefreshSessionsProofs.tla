----------------------- MODULE RefreshSessionsProofs -----------------------
(***************************************************************************)
(* Proofs about RefreshSessions for any number of sessions, users and      *)
(* requests in progress.  OneLiveSession needs that a transaction that     *)
(* holds a session's row still finds it alive, and alone (RowsHeld);       *)
(* CookieIsTheSession needs what the only request of an undisturbed        *)
(* browser is about (Undisturbed).                                         *)
(***************************************************************************)
EXTENDS RefreshSessions, TLAPS

Owned == {t \in Tokens : owner[t] # None}

\* Every token somebody keeps or presents was a session; a drawn one is not yet.
TokensKnown ==
    /\ revoked \union expired \subseteq Owned
    /\ cookie # None => cookie \in Owned
    /\ \A q \in Requests :
          /\ request[q].pc \in {"refresh", "locked", "logout"} => request[q].token \in Owned
          /\ request[q].pc = "set" => request[q].fresh \in Owned
          /\ request[q].pc \in {"create", "refresh", "locked"} =>
                request[q].fresh \in Tokens \ Owned
          /\ request[q].pc = "idle" => request[q] = Idle

DistinctFresh ==
    \A p, q \in Requests :
        p # q /\ request[p].fresh # None => request[p].fresh # request[q].fresh

\* The lock on a session's row: one holder, for which the session is alive.
RowsHeld ==
    \A q \in Requests :
        request[q].pc = "locked" =>
            /\ request[q].token \in Live
            /\ \A p \in Requests :
                  request[p].pc = "locked" /\ request[p].token = request[q].token => p = q

\* What is alive while request q is the only one.
Expected(q) ==
    IF request[q].pc = "set" THEN {request[q].fresh}
    ELSE IF request[q].pc = "clear" THEN {} ELSE {cookie} \ {None}

Undisturbed ==
    ~disturbed =>
        /\ \A p, q \in Requests : request[p] # Idle /\ request[q] # Idle => p = q
        /\ Quiet => Live = {cookie} \ {None}
        /\ \A q \in Requests :
              request[q] # Idle =>
                  /\ Live = Expected(q)
                  /\ request[q].pc = "create" => cookie = None
                  /\ request[q].pc \in {"refresh", "locked", "logout"} =>
                        request[q].token = cookie

IInv ==
    /\ TypeOK
    /\ TokensKnown
    /\ DistinctFresh
    /\ RowsHeld
    /\ OneLiveSession
    /\ Undisturbed

LEMMA IdleIsRequest ==
    /\ Idle \in Request
    /\ Idle.pc = "idle" /\ Idle.token = None /\ Idle.fresh = None
  BY DEF Idle, Request

-----------------------------------------------------------------------------
LEMMA InitInv == Init => IInv
<1> SUFFICES ASSUME Init PROVE IInv
  OBVIOUS
<1>1. TypeOK
  BY IdleIsRequest DEF Init, TypeOK
<1>2. \A q \in Requests : request[q] = Idle
  BY DEF Init
<1>3. Owned = {} /\ Live = {}
  BY DEF Init, Owned, Live
<1>4. TokensKnown /\ DistinctFresh /\ RowsHeld
  BY <1>2, <1>3, IdleIsRequest DEF Init, TokensKnown, DistinctFresh, RowsHeld
<1>5. OneLiveSession
  BY <1>3 DEF OneLiveSession
<1>6. Undisturbed
  BY <1>2, <1>3 DEF Init, Undisturbed
<1> QED
  BY <1>1, <1>4, <1>5, <1>6 DEF IInv

-----------------------------------------------------------------------------
(* Sending a request *)

\* What a request may be about when it is sent.
MaySend(pc, token, fresh) ==
    /\ \/ pc = "create" /\ cookie = None /\ token = None
       \/ pc = "refresh" /\ cookie # None /\ token = cookie
       \/ pc = "logout" /\ cookie # None /\ token = cookie /\ fresh = None
       \/ pc = "clear" /\ cookie = None /\ token = None /\ fresh = None
    /\ pc \in {"create", "refresh"} => fresh \in Tokens /\ IsFresh(fresh)

LEMMA SendInv ==
  ASSUME IInv, NEW q \in Requests, NEW pc, NEW token, NEW fresh,
         MaySend(pc, token, fresh), Send(q, pc, token, fresh)
  PROVE  IInv'
<1> DEFINE new == [pc |-> pc, token |-> token, fresh |-> fresh]
<1>1. /\ UNCHANGED <<owner, revoked, expired, cookie>>
      /\ request[q] = Idle
      /\ request' = [request EXCEPT ![q] = new]
      /\ disturbed' = (disturbed \/ ~Quiet)
  BY DEF Send, table
<1>2. TypeOK
  BY DEF IInv
<1>3. request' \in [Requests -> Request] /\ request'[q] = new
      /\ \A p \in Requests : p # q => request'[p] = request[p]
  BY <1>1, <1>2 DEF TypeOK, Request, MaySend
<1>4. TypeOK'
  BY <1>1, <1>2, <1>3 DEF TypeOK
<1>5. Owned' = Owned /\ Live' = Live
  BY <1>1 DEF Owned, Live
<1>6. TokensKnown'
  <2>1. cookie # None => cookie \in Owned
    BY DEF IInv, TokensKnown
  <2>2. fresh \in Tokens \ Owned \/ pc \notin {"create", "refresh", "locked"}
    BY DEF MaySend, IsFresh, Owned
  <2>3. pc \in {"refresh", "locked", "logout"} => token \in Owned
    BY <2>1 DEF MaySend
  <2>4. pc # "set" /\ pc # "idle"
    BY DEF MaySend
  <2> QED
    BY <1>1, <1>3, <1>5, <2>1, <2>2, <2>3, <2>4 DEF IInv, TokensKnown
<1>7. DistinctFresh'
  <2>1. fresh # None => IsFresh(fresh)
    BY DEF MaySend
  <2> QED
    BY <1>3, <2>1 DEF IInv, DistinctFresh, IsFresh
<1>8. RowsHeld'
  BY <1>3, <1>5 DEF IInv, RowsHeld, MaySend
<1>9. OneLiveSession'
  BY <1>1, <1>5 DEF IInv, OneLiveSession
<1>10. Undisturbed'
  <2> SUFFICES ASSUME ~disturbed' PROVE Undisturbed'
    BY DEF Undisturbed
  <2>1. Quiet /\ Live = {cookie} \ {None}
    BY <1>1 DEF IInv, Undisturbed
  <2>2. \A p \in Requests : p # q => request'[p] = Idle
    BY <2>1, <1>3 DEF Quiet
  <2>3. new # Idle
    BY DEF Idle, MaySend
  <2>4. ~Quiet'
    BY <1>3, <2>3 DEF Quiet
  <2>5. Expected(q)' = {cookie} \ {None}
    BY <1>1, <1>3 DEF Expected, MaySend
  <2> QED
    BY <1>1, <1>3, <1>5, <2>1, <2>2, <2>4, <2>5 DEF Undisturbed, MaySend
<1> QED
  BY <1>4, <1>6, <1>7, <1>8, <1>9, <1>10 DEF IInv

LEMMA GuestInv == ASSUME IInv, NEW q \in Requests, Guest(q) PROVE IInv'
<1>1. PICK t \in Tokens : IsFresh(t) /\ Send(q, "create", None, t)
  BY DEF Guest
<1>2. MaySend("create", None, t)
  BY <1>1 DEF MaySend, Guest
<1> QED
  BY <1>1, <1>2, SendInv

LEMMA RefreshInv == ASSUME IInv, NEW q \in Requests, Refresh(q) PROVE IInv'
<1>1. PICK t \in Tokens : IsFresh(t) /\ Send(q, "refresh", cookie, t)
  BY DEF Refresh
<1>2. MaySend("refresh", cookie, t)
  BY <1>1 DEF MaySend, Refresh
<1> QED
  BY <1>1, <1>2, SendInv

LEMMA LogoutInv == ASSUME IInv, NEW q \in Requests, Logout(q) PROVE IInv'
<1>1. CASE cookie = None
  <2>1. Send(q, "clear", cookie, None) /\ MaySend("clear", cookie, None)
    BY <1>1 DEF Logout, MaySend
  <2> QED
    BY <2>1, SendInv
<1>2. CASE cookie # None
  <2>1. Send(q, "logout", cookie, None) /\ MaySend("logout", cookie, None)
    BY <1>2 DEF Logout, MaySend
  <2> QED
    BY <2>1, SendInv
<1> QED
  BY <1>1, <1>2

-----------------------------------------------------------------------------
(* The statements *)

\* The step of a request: it goes to another pc, and the others stay.
LEMMA GotoRequest ==
  ASSUME TypeOK, NEW q \in Requests, NEW pc, Goto(q, pc),
         pc \in {"locked", "set", "clear"}
  PROVE  /\ request' \in [Requests -> Request]
         /\ request'[q].pc = pc /\ request'[q].token = request[q].token
         /\ request'[q].fresh = request[q].fresh
         /\ request'[q] # Idle
         /\ \A p \in Requests : p # q => request'[p] = request[p]
  BY DEF TypeOK, Request, Goto, Idle

LEMMA FinishRequest ==
  ASSUME TypeOK, NEW q \in Requests, Finish(q)
  PROVE  /\ request' \in [Requests -> Request]
         /\ request'[q] = Idle
         /\ \A p \in Requests : p # q => request'[p] = request[p]
  BY IdleIsRequest DEF TypeOK, Finish

\* In an undisturbed browser the request that takes a step is the only one.
LEMMA OnlyRequest ==
  ASSUME IInv, NEW q \in Requests, request[q].pc # "idle", ~disturbed
  PROVE  /\ request[q] # Idle
         /\ \A p \in Requests : p # q => request[p] = Idle
         /\ Live = Expected(q)
         /\ request[q].pc = "create" => cookie = None
         /\ request[q].pc \in {"refresh", "locked", "logout"} => request[q].token = cookie
<1>1. request[q] # Idle
  BY IdleIsRequest
<1> QED
  BY <1>1 DEF IInv, Undisturbed

LEMMA CreateInv == ASSUME IInv, NEW q \in Requests, CreateGuestUserAndSession(q) PROVE IInv'
<1> DEFINE t == request[q].fresh
<1>1. PICK u \in Users : (\A o \in Tokens : owner[o] # u) /\ owner' = [owner EXCEPT ![t] = u]
  BY DEF CreateGuestUserAndSession
<1>2. /\ request[q].pc = "create" /\ Goto(q, "set")
      /\ UNCHANGED <<revoked, expired, cookie, disturbed>>
  BY DEF CreateGuestUserAndSession
<1>3. TypeOK
  BY DEF IInv
<1>4. /\ request' \in [Requests -> Request]
      /\ request'[q].pc = "set" /\ request'[q].token = request[q].token
      /\ request'[q].fresh = t
      /\ request'[q] # Idle
      /\ \A p \in Requests : p # q => request'[p] = request[p]
  BY <1>2, <1>3, GotoRequest
<1>5. TypeOK'
  BY <1>1, <1>2, <1>3, <1>4 DEF TypeOK
<1>6. t \in Tokens \ Owned /\ t \notin revoked \union expired /\ u # None
  BY <1>2, NoneAssumption DEF IInv, TokensKnown
<1>7. Owned' = Owned \union {t} /\ Live' = Live \union {t}
  BY <1>1, <1>2, <1>3, <1>6 DEF TypeOK, Owned, Live
<1>8. TokensKnown'
  <2>1. \A p \in Requests : p # q => request[p].fresh # t
    BY <1>6, NoneAssumption DEF IInv, DistinctFresh, TypeOK
  <2> QED
    BY <1>2, <1>4, <1>6, <1>7, <2>1 DEF IInv, TokensKnown
<1>9. DistinctFresh'
  BY <1>4 DEF IInv, DistinctFresh
<1>10. RowsHeld'
  BY <1>4, <1>7 DEF IInv, RowsHeld
<1>11. OneLiveSession'
  BY <1>1, <1>3, <1>6, <1>7 DEF IInv, OneLiveSession, TypeOK, Live, Owned
<1>12. Undisturbed'
  <2> SUFFICES ASSUME ~disturbed' PROVE Undisturbed'
    BY DEF Undisturbed
  <2>1. /\ \A p \in Requests : p # q => request[p] = Idle
        /\ Live = {cookie} \ {None} /\ cookie = None
    BY <1>2, OnlyRequest DEF Expected
  <2>2. Live' = {t} /\ Expected(q)' = {t} /\ ~Quiet'
    BY <1>4, <1>7, <2>1 DEF Expected, Quiet
  <2> QED
    BY <1>4, <2>1, <2>2 DEF Undisturbed
<1> QED
  BY <1>5, <1>8, <1>9, <1>10, <1>11, <1>12 DEF IInv

LEMMA LockSessionInv == ASSUME IInv, NEW q \in Requests, LockSession(q) PROVE IInv'
<1> DEFINE t == request[q].token
<1>1. /\ request[q].pc = "refresh" /\ Unlocked(t)
      /\ owner[t] # None /\ t \notin revoked \union expired
      /\ Goto(q, "locked")
      /\ UNCHANGED <<owner, revoked, expired, cookie, disturbed>>
  BY DEF LockSession, table
<1>2. TypeOK
  BY DEF IInv
<1>3. /\ request' \in [Requests -> Request]
      /\ request'[q].pc = "locked" /\ request'[q].token = t
      /\ request'[q].fresh = request[q].fresh
      /\ request'[q] # Idle
      /\ \A p \in Requests : p # q => request'[p] = request[p]
  BY <1>1, <1>2, GotoRequest
<1>4. TypeOK'
  BY <1>1, <1>2, <1>3 DEF TypeOK
<1>5. Owned' = Owned /\ Live' = Live
  BY <1>1 DEF Owned, Live
<1>6. TokensKnown'
  BY <1>1, <1>3, <1>5 DEF IInv, TokensKnown
<1>7. DistinctFresh'
  BY <1>3 DEF IInv, DistinctFresh
<1>8. RowsHeld'
  <2>1. t \in Live
    BY <1>1 DEF IInv, TokensKnown, Owned, Live
  <2>2. \A p \in Requests : p # q /\ request[p].pc = "locked" => request[p].token # t
    BY <1>1 DEF Unlocked
  <2> QED
    BY <1>3, <1>5, <2>1, <2>2 DEF IInv, RowsHeld
<1>9. OneLiveSession'
  BY <1>1, <1>5 DEF IInv, OneLiveSession
<1>10. Undisturbed'
  <2> SUFFICES ASSUME ~disturbed' PROVE Undisturbed'
    BY DEF Undisturbed
  <2>1. /\ \A p \in Requests : p # q => request[p] = Idle
        /\ Live = Expected(q) /\ t = cookie
    BY <1>1, OnlyRequest
  <2>2. Expected(q)' = Expected(q) /\ ~Quiet'
    BY <1>1, <1>3 DEF Expected, Quiet
  <2> QED
    BY <1>1, <1>3, <1>5, <2>1, <2>2 DEF Undisturbed
<1> QED
  BY <1>4, <1>6, <1>7, <1>8, <1>9, <1>10 DEF IInv

LEMMA CommitRotationInv == ASSUME IInv, NEW q \in Requests, CommitRotation(q) PROVE IInv'
<1> DEFINE old == request[q].token
           new == request[q].fresh
<1>1. /\ request[q].pc = "locked"
      /\ owner' = [owner EXCEPT ![new] = owner[old]]
      /\ revoked' = revoked \union {old}
      /\ Goto(q, "set")
      /\ UNCHANGED <<expired, cookie, disturbed>>
  BY DEF CommitRotation
<1>2. TypeOK
  BY DEF IInv
<1>3. /\ request' \in [Requests -> Request]
      /\ request'[q].pc = "set" /\ request'[q].token = old
      /\ request'[q].fresh = new
      /\ request'[q] # Idle
      /\ \A p \in Requests : p # q => request'[p] = request[p]
  BY <1>1, <1>2, GotoRequest
<1>4. /\ new \in Tokens \ Owned /\ new \notin revoked \union expired
      /\ old \in Live /\ old \in Tokens /\ owner[old] # None
  BY <1>1 DEF IInv, TokensKnown, RowsHeld, Live
<1>5. TypeOK'
  BY <1>1, <1>2, <1>3, <1>4 DEF TypeOK
<1>6. Owned' = Owned \union {new}
  BY <1>1, <1>2, <1>4 DEF TypeOK, Owned
<1>7. Live' = (Live \ {old}) \union {new}
  BY <1>1, <1>2, <1>4 DEF TypeOK, Owned, Live
<1>8. TokensKnown'
  <2>1. \A p \in Requests : p # q => request[p].fresh # new
    BY <1>4, NoneAssumption DEF IInv, DistinctFresh
  <2>2. old \in Owned
    BY <1>4 DEF Owned
  <2> QED
    BY <1>1, <1>3, <1>4, <1>6, <2>1, <2>2 DEF IInv, TokensKnown
<1>9. DistinctFresh'
  BY <1>3 DEF IInv, DistinctFresh
<1>10. RowsHeld'
  BY <1>1, <1>3, <1>7 DEF IInv, RowsHeld
<1>11. OneLiveSession'
  <2>1. owner'[new] = owner[old] /\ \A t \in Tokens : t # new => owner'[t] = owner[t]
    BY <1>1, <1>2, <1>4 DEF TypeOK
  <2>2. Live \subseteq Tokens /\ new \notin Live
    BY <1>4 DEF Live, Owned
  <2> QED
    BY <1>4, <1>7, <2>1, <2>2 DEF IInv, OneLiveSession
<1>12. Undisturbed'
  <2> SUFFICES ASSUME ~disturbed' PROVE Undisturbed'
    BY DEF Undisturbed
  <2>1. /\ \A p \in Requests : p # q => request[p] = Idle
        /\ Live = {cookie} \ {None} /\ old = cookie
    BY <1>1, OnlyRequest DEF Expected
  <2>2. Live' = {new} /\ Expected(q)' = {new} /\ ~Quiet'
    BY <1>3, <1>7, <2>1 DEF Expected, Quiet
  <2> QED
    BY <1>3, <2>1, <2>2 DEF Undisturbed
<1> QED
  BY <1>5, <1>8, <1>9, <1>10, <1>11, <1>12 DEF IInv

\* A logout's UPDATE and its failure.
LEMMA RevokeInv ==
  ASSUME IInv, NEW q \in Requests, RevokeRefreshSession(q) \/ RevokeFails(q)
  PROVE  IInv'
<1> DEFINE t == request[q].token
<1>1. /\ request[q].pc = "logout"
      /\ Goto(q, "clear")
      /\ UNCHANGED <<owner, expired, cookie>>
      /\ \/ Unlocked(t) /\ revoked' = revoked \union {t} /\ disturbed' = disturbed
         \/ revoked' = revoked /\ disturbed' = TRUE
  BY DEF RevokeRefreshSession, RevokeFails, table
<1>2. TypeOK
  BY DEF IInv
<1>3. /\ request' \in [Requests -> Request]
      /\ request'[q].pc = "clear" /\ request'[q].token = t
      /\ request'[q].fresh = request[q].fresh
      /\ request'[q] # Idle
      /\ \A p \in Requests : p # q => request'[p] = request[p]
  BY <1>1, <1>2, GotoRequest
<1>4. t \in Owned /\ t \in Tokens
  BY <1>1 DEF IInv, TokensKnown, Owned
<1>5. TypeOK'
  BY <1>1, <1>2, <1>3, <1>4 DEF TypeOK
<1>6. /\ Owned' = Owned /\ Live' \subseteq Live
      /\ revoked' = revoked \union {t} => Live' = Live \ {t}
  BY <1>1 DEF Owned, Live
<1>7. TokensKnown'
  BY <1>1, <1>3, <1>4, <1>6 DEF IInv, TokensKnown
<1>8. DistinctFresh'
  BY <1>3 DEF IInv, DistinctFresh
<1>9. RowsHeld'
  <2>1. CASE revoked' = revoked
    <3>1. Live' = Live
      BY <1>1, <2>1 DEF Live
    <3> QED
      BY <1>3, <3>1 DEF IInv, RowsHeld
  <2>2. CASE Unlocked(t) /\ revoked' = revoked \union {t}
    BY <1>3, <1>6, <2>2 DEF IInv, RowsHeld, Unlocked
  <2> QED
    BY <1>1, <2>1, <2>2
<1>10. OneLiveSession'
  BY <1>1, <1>6 DEF IInv, OneLiveSession
<1>11. Undisturbed'
  <2> SUFFICES ASSUME ~disturbed' PROVE Undisturbed'
    BY DEF Undisturbed
  <2>1. ~disturbed /\ revoked' = revoked \union {t}
    BY <1>1
  <2>2. /\ \A p \in Requests : p # q => request[p] = Idle
        /\ Live = {cookie} \ {None} /\ t = cookie
    BY <1>1, <2>1, OnlyRequest DEF Expected
  <2>3. Live' = {} /\ Expected(q)' = {} /\ ~Quiet'
    BY <1>3, <1>6, <2>1, <2>2 DEF Expected, Quiet
  <2> QED
    BY <1>3, <2>2, <2>3 DEF Undisturbed
<1> QED
  BY <1>5, <1>7, <1>8, <1>9, <1>10, <1>11 DEF IInv

-----------------------------------------------------------------------------
(* The end of a request *)

\* A request that ends and leaves the table alone, with the cookie it should leave.
LEMMA FinishInv ==
  ASSUME IInv, NEW q \in Requests, Finish(q), UNCHANGED table, request[q].pc # "idle",
         cookie' \in Owned \union {None},
         disturbed' \in BOOLEAN,
         ~disturbed' => ~disturbed /\ Expected(q) = {cookie'} \ {None}
  PROVE  IInv'
<1>1. UNCHANGED <<owner, revoked, expired>>
  BY DEF table
<1>2. TypeOK
  BY DEF IInv
<1>3. /\ request' \in [Requests -> Request]
      /\ request'[q] = Idle
      /\ \A p \in Requests : p # q => request'[p] = request[p]
  BY <1>2, FinishRequest
<1>4. Owned' = Owned /\ Live' = Live /\ Owned \subseteq Tokens
  BY <1>1 DEF Owned, Live
<1>5. TypeOK'
  BY <1>1, <1>2, <1>3, <1>4 DEF TypeOK
<1>6. TokensKnown'
  BY <1>1, <1>3, <1>4, IdleIsRequest DEF IInv, TokensKnown
<1>7. DistinctFresh'
  BY <1>3, IdleIsRequest DEF IInv, DistinctFresh
<1>8. RowsHeld'
  BY <1>3, <1>4, IdleIsRequest DEF IInv, RowsHeld
<1>9. OneLiveSession'
  BY <1>1, <1>4 DEF IInv, OneLiveSession
<1>10. Undisturbed'
  <2> SUFFICES ASSUME ~disturbed' PROVE Undisturbed'
    BY DEF Undisturbed
  <2>1. /\ \A p \in Requests : p # q => request[p] = Idle
        /\ Live = {cookie'} \ {None}
    BY OnlyRequest
  <2> QED
    BY <1>3, <1>4, <2>1 DEF Undisturbed
<1> QED
  BY <1>5, <1>6, <1>7, <1>8, <1>9, <1>10 DEF IInv

LEMMA EndInv ==
  ASSUME IInv, NEW q \in Requests,
         InvalidRefresh(q) \/ Abort(q) \/ ReceiveCookie(q) \/ ReceiveClear(q) \/ LoseAnswer(q)
  PROVE  IInv'
<1>1. cookie \in Owned \union {None} /\ disturbed \in BOOLEAN
  BY DEF IInv, TokensKnown, TypeOK
<1>2. CASE InvalidRefresh(q) \/ Abort(q)
  <2>1. /\ request[q].pc \in {"create", "refresh", "locked"} /\ Finish(q)
        /\ UNCHANGED <<table, cookie, disturbed>>
    BY <1>2 DEF InvalidRefresh, Abort
  <2>2. Expected(q) = {cookie'} \ {None}
    BY <2>1 DEF Expected
  <2> QED
    BY <1>1, <2>1, <2>2, FinishInv
<1>3. CASE ReceiveCookie(q)
  <2>1. request[q].fresh \in Owned /\ request[q].fresh # None
    BY <1>3, NoneAssumption DEF ReceiveCookie, IInv, TokensKnown, Owned
  <2>2. Expected(q) = {cookie'} \ {None}
    BY <1>3, <2>1 DEF ReceiveCookie, Expected
  <2> QED
    BY <1>1, <1>3, <2>1, <2>2, FinishInv DEF ReceiveCookie
<1>4. CASE ReceiveClear(q)
  <2>1. Expected(q) = {cookie'} \ {None}
    BY <1>4 DEF ReceiveClear, Expected
  <2> QED
    BY <1>1, <1>4, <2>1, FinishInv DEF ReceiveClear
<1>5. CASE LoseAnswer(q)
  BY <1>1, <1>5, FinishInv DEF LoseAnswer
<1> QED
  BY <1>2, <1>3, <1>4, <1>5

LEMMA ExpireInv == ASSUME IInv, NEW t \in Tokens, Expire(t) PROVE IInv'
<1>1. /\ Quiet /\ t \in Live
      /\ expired' = expired \union {t}
      /\ cookie' = IF cookie = t THEN None ELSE cookie
      /\ UNCHANGED <<owner, revoked, request, disturbed>>
  BY DEF Expire
<1>2. \A q \in Requests : request[q] = Idle
  BY <1>1 DEF Quiet
<1>3. TypeOK'
  BY <1>1 DEF IInv, TypeOK
<1>4. Owned' = Owned /\ Live' = Live \ {t} /\ t \in Owned /\ t # None
  BY <1>1, NoneAssumption DEF Owned, Live
<1>5. TokensKnown'
  BY <1>1, <1>2, <1>4, IdleIsRequest DEF IInv, TokensKnown
<1>6. DistinctFresh' /\ RowsHeld'
  BY <1>1, <1>2, IdleIsRequest DEF IInv, DistinctFresh, RowsHeld
<1>7. OneLiveSession'
  BY <1>1, <1>4 DEF IInv, OneLiveSession
<1>8. Undisturbed'
  BY <1>1, <1>2, <1>4 DEF IInv, Undisturbed
<1> QED
  BY <1>3, <1>5, <1>6, <1>7, <1>8 DEF IInv

-----------------------------------------------------------------------------
LEMMA StutterInv == IInv /\ UNCHANGED vars => IInv'
  BY DEF vars, IInv, TypeOK, TokensKnown, DistinctFresh, RowsHeld, OneLiveSession,
         Undisturbed, Owned, Live, Expected, Quiet

LEMMA NextInv == IInv /\ [Next]_vars => IInv'
<1> SUFFICES ASSUME IInv, [Next]_vars PROVE IInv'
  OBVIOUS
<1>1. ASSUME NEW q \in Requests, Guest(q) PROVE IInv'
  BY <1>1, GuestInv
<1>2. ASSUME NEW q \in Requests, Refresh(q) PROVE IInv'
  BY <1>2, RefreshInv
<1>3. ASSUME NEW q \in Requests, Logout(q) PROVE IInv'
  BY <1>3, LogoutInv
<1>4. ASSUME NEW q \in Requests, CreateGuestUserAndSession(q) PROVE IInv'
  BY <1>4, CreateInv
<1>5. ASSUME NEW q \in Requests, LockSession(q) PROVE IInv'
  BY <1>5, LockSessionInv
<1>6. ASSUME NEW q \in Requests, CommitRotation(q) PROVE IInv'
  BY <1>6, CommitRotationInv
<1>7. ASSUME NEW q \in Requests, RevokeRefreshSession(q) \/ RevokeFails(q) PROVE IInv'
  BY <1>7, RevokeInv
<1>8. ASSUME NEW q \in Requests,
             InvalidRefresh(q) \/ Abort(q) \/ ReceiveCookie(q) \/ ReceiveClear(q) \/ LoseAnswer(q)
      PROVE  IInv'
  BY <1>8, EndInv
<1>9. ASSUME NEW t \in Tokens, Expire(t) PROVE IInv'
  BY <1>9, ExpireInv
<1> QED
  BY <1>1, <1>2, <1>3, <1>4, <1>5, <1>6, <1>7, <1>8, <1>9, StutterInv DEF Next

\* The inductive invariant holds in every state the requests can reach.
THEOREM Invariance == Spec => []IInv
  BY InitInv, NextInv, PTL DEF Spec

\* Sessions, cookie and requests keep their types.
THEOREM TypeCorrect == Spec => []TypeOK
<1>1. IInv => TypeOK
  BY DEF IInv
<1> QED
  BY <1>1, Invariance, PTL

\* A user has one session that can be refreshed, whatever is sent at once.
THEOREM OneLive == Spec => []OneLiveSession
<1>1. IInv => OneLiveSession
  BY DEF IInv
<1> QED
  BY <1>1, Invariance, PTL

\* A browser that is never disturbed holds the token of the one session alive.
THEOREM CookieLives == Spec => []CookieIsTheSession
<1>1. IInv => CookieIsTheSession
  BY DEF IInv, Undisturbed, CookieIsTheSession
<1> QED
  BY <1>1, Invariance, PTL

-----------------------------------------------------------------------------
LEMMA ChainInit == Init => Chain!Init
  BY DEF Init, Chain!Init

\* Only three steps change what the chain sees.
LEMMA ChainStep == IInv /\ [Next]_vars => [Chain!Next]_(Chain!vars)
<1> SUFFICES ASSUME IInv, [Next]_vars PROVE [Chain!Next]_(Chain!vars)
  OBVIOUS
<1> USE DEF Chain!vars
<1>1. ASSUME NEW q \in Requests, CreateGuestUserAndSession(q) PROVE Chain!Next
  <2>1. request[q].fresh \in Tokens /\ owner[request[q].fresh] = None
    BY <1>1 DEF CreateGuestUserAndSession, IInv, TokensKnown, Owned
  <2>2. \E u \in Users : Chain!SignUp(u, request[q].fresh)
    BY <1>1, <2>1 DEF CreateGuestUserAndSession, Chain!SignUp
  <2> QED
    BY <2>1, <2>2 DEF Chain!Next
<1>2. ASSUME NEW q \in Requests, CommitRotation(q) PROVE Chain!Next
  <2>1. /\ request[q].fresh \in Tokens /\ owner[request[q].fresh] = None
        /\ request[q].token \in Tokens /\ owner[request[q].token] # None
        /\ request[q].token \notin revoked
    BY <1>2 DEF CommitRotation, IInv, TokensKnown, RowsHeld, Owned, Live
  <2>2. Chain!Rotate(request[q].token, request[q].fresh)
    BY <1>2, <2>1 DEF CommitRotation, Chain!Rotate
  <2> QED
    BY <2>1, <2>2 DEF Chain!Next
<1>3. ASSUME NEW q \in Requests, RevokeRefreshSession(q) PROVE Chain!Next
  <2>1. request[q].token \in Tokens /\ owner[request[q].token] # None
    BY <1>3 DEF RevokeRefreshSession, IInv, TokensKnown, Owned
  <2>2. Chain!End(request[q].token)
    BY <1>3, <2>1 DEF RevokeRefreshSession, Chain!End
  <2> QED
    BY <2>1, <2>2 DEF Chain!Next
<1>4. ASSUME NEW q \in Requests, Guest(q) \/ Refresh(q) \/ Logout(q) PROVE UNCHANGED <<owner, revoked>>
  BY <1>4 DEF Guest, Refresh, Logout, Send, table
<1>5. ASSUME NEW q \in Requests,
             \/ LockSession(q) \/ InvalidRefresh(q) \/ RevokeFails(q) \/ Abort(q)
             \/ ReceiveCookie(q) \/ ReceiveClear(q) \/ LoseAnswer(q)
      PROVE  UNCHANGED <<owner, revoked>>
  BY <1>5 DEF LockSession, InvalidRefresh, RevokeFails, Abort, ReceiveCookie, ReceiveClear,
              LoseAnswer, table
<1>6. ASSUME NEW t \in Tokens, Expire(t) PROVE UNCHANGED <<owner, revoked>>
  BY <1>6 DEF Expire
<1>7. CASE UNCHANGED vars
  BY <1>7 DEF vars
<1> QED
  BY <1>1, <1>2, <1>3, <1>4, <1>5, <1>6, <1>7 DEF Next

\* The requests implement the chain of sessions.
THEOREM Refinement == Spec => ImplementsChain
  BY ChainInit, ChainStep, Invariance, PTL DEF Spec, ImplementsChain, Chain!Spec

=============================================================================
