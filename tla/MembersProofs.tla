--------------------------- MODULE MembersProofs ---------------------------
(***************************************************************************)
(* Proofs about Members for any sets of rooms, users and sockets and any   *)
(* range of scores.  ScoresOnlyByHost needs that a handler's role always   *)
(* belongs to the room it is in (HostsOwn); WrongScoreIsCorrected needs    *)
(* that a row somebody holds is the table's or its entry is disturbed      *)
(* (HeldIsCurrent).                                                        *)
(***************************************************************************)
EXTENDS Members, TLAPS

\* A handler in host's role is in a room its user owns.
HostsOwn ==
    \A s \in Sockets :
        handler[s].code # None /\ handler[s].role = "host" =>
            owner[handler[s].code] = UserOf[s]

\* A request between CreateRoom's statements has made the room.
CreatorsOwn == \A u \in Users : create[u] # None => owner[create[u]] = u

\* Only a handler that writes a list has one, and only one in a room does anything.
ListsInHand ==
    \A s \in Sockets :
        /\ handler[s].pc # "write" => handler[s].list = NoRows
        /\ handler[s].pc # "read" => handler[s].code # None

\* What is shown, or about to be, has a row that lists follow.
RowsExist ==
    \A c \in Codes, u \in Users :
        presence[c][u] # None \/ (\E s \in Sockets : Holds(s, c, u)) => u \in Rows(c)

HeldIsCurrent ==
    \A s \in Sockets, c \in Codes, u \in Users :
        Holds(s, c, u) => handler[s].list[u] = score[c][u] \/ u \in disturbed[c]

IInv ==
    /\ TypeOK
    /\ HostsOwn
    /\ CreatorsOwn
    /\ AnsweredRoomIsReady
    /\ ListsInHand
    /\ RowsExist
    /\ HeldIsCurrent
    /\ WrongScoreIsCorrected

USE DEF tables

LEMMA NoRowsType == NoRows \in [Users -> Scores \union {None}] /\ NoRows \in [Users -> Codes \union {None}]
  BY DEF NoRows

LEMMA OutsideType ==
    /\ Outside \in Handler
    /\ Outside.pc = "read" /\ Outside.code = None /\ Outside.list = NoRows
  BY NoRowsType DEF Outside, Handler

LEMMA ListedType ==
    ASSUME TypeOK, NEW c \in Codes, NEW read \in SUBSET Users
    PROVE  Listed(c, read) \in [Users -> Scores \union {None}]
  BY DEF TypeOK, Listed

-----------------------------------------------------------------------------
LEMMA InitInv == Init => IInv
<1> SUFFICES ASSUME Init PROVE IInv
  OBVIOUS
<1>1. TypeOK
  BY NoRowsType, OutsideType, ScoresAssumption DEF Init, TypeOK, Scores
<1>2. \A s \in Sockets : handler[s] = Outside
  BY DEF Init
<1>3. HostsOwn /\ ListsInHand
  BY <1>2, OutsideType DEF HostsOwn, ListsInHand
<1>4. CreatorsOwn /\ AnsweredRoomIsReady
  BY DEF Init, CreatorsOwn, AnsweredRoomIsReady, NoRows
<1>5. \A s \in Sockets, c \in Codes, u \in Users : ~Holds(s, c, u)
  BY <1>2, OutsideType DEF Holds
<1>6. \A c \in Codes, u \in Users : presence[c][u] = None
  BY DEF Init, NoRows
<1>7. RowsExist /\ HeldIsCurrent
  BY <1>5, <1>6 DEF RowsExist, HeldIsCurrent
<1>8. WrongScoreIsCorrected
  BY <1>6 DEF WrongScoreIsCorrected, Wrong
<1> QED
  BY <1>1, <1>3, <1>4, <1>7, <1>8 DEF IInv

-----------------------------------------------------------------------------
(* The steps of requests leave handlers, scores and lists alone. *)

\* Rooms and members may come, and nothing else that the lists depend on changes.
LEMMA TablesGrow ==
    ASSUME IInv, TypeOK',
           UNCHANGED <<score, presence, disturbed>>,
           \A c \in Codes : member[c] \subseteq member'[c],
           \A s \in Sockets, c \in Codes, u \in Users : Holds(s, c, u)' <=> Holds(s, c, u),
           \A s \in Sockets, u \in Users :
              handler[s].pc # "read" =>
                 /\ handler'[s].pc = handler[s].pc /\ handler'[s].code = handler[s].code
                 /\ handler'[s].list[u] = handler[s].list[u]
    PROVE  RowsExist' /\ HeldIsCurrent' /\ WrongScoreIsCorrected'
<1>1. RowsExist'
  BY DEF IInv, RowsExist, Rows
<1>2. HeldIsCurrent'
  BY DEF IInv, HeldIsCurrent, Holds
<1>3. WrongScoreIsCorrected'
  <2> SUFFICES ASSUME NEW c \in Codes, NEW u \in Wrong(c)' \ disturbed[c]
               PROVE  \E s \in Sockets :
                         /\ handler'[s].code = c
                         /\ \/ handler'[s].pc = "list"
                            \/ handler'[s].pc = "write" /\ handler'[s].list[u] = score[c][u]
    BY DEF WrongScoreIsCorrected
  <2>1. u \in Users /\ u \in Wrong(c) \ disturbed[c]
    BY DEF Wrong
  <2>2. PICK s \in Sockets :
           /\ handler[s].code = c
           /\ \/ handler[s].pc = "list"
              \/ handler[s].pc = "write" /\ handler[s].list[u] = score[c][u]
    BY <2>1 DEF IInv, WrongScoreIsCorrected
  <2> QED
    BY <2>1, <2>2
<1> QED
  BY <1>1, <1>2, <1>3

LEMMA InsertRoomInv ==
    ASSUME IInv, NEW u \in Users, NEW c \in Codes, InsertRoom(u, c)
    PROVE  IInv'
<1> USE NoneAssumption
<1>1. TypeOK'
  BY DEF IInv, TypeOK, InsertRoom
<1>2. HostsOwn'
  BY UserOfAssumption DEF IInv, TypeOK, HostsOwn, InsertRoom, Handler
<1>3. CreatorsOwn'
  BY DEF IInv, TypeOK, CreatorsOwn, InsertRoom
<1>4. AnsweredRoomIsReady'
  BY DEF IInv, TypeOK, AnsweredRoomIsReady, InsertRoom
<1>5. ListsInHand'
  BY DEF IInv, ListsInHand, InsertRoom
<1>6. RowsExist' /\ HeldIsCurrent' /\ WrongScoreIsCorrected'
  BY <1>1, TablesGrow DEF InsertRoom, Holds
<1> QED
  BY <1>1, <1>2, <1>3, <1>4, <1>5, <1>6 DEF IInv

LEMMA InsertHostInv ==
    ASSUME IInv, NEW u \in Users, InsertHost(u)
    PROVE  IInv'
<1>1. create[u] \in Codes /\ owner[create[u]] = u
  BY DEF IInv, TypeOK, CreatorsOwn, InsertHost
<1>2. TypeOK'
  BY <1>1 DEF IInv, TypeOK, InsertHost
<1>3. CreatorsOwn'
  BY DEF IInv, TypeOK, CreatorsOwn, InsertHost
<1>4. AnsweredRoomIsReady'
  BY <1>1 DEF IInv, TypeOK, AnsweredRoomIsReady, InsertHost
<1>5. HostsOwn' /\ ListsInHand'
  BY DEF IInv, HostsOwn, ListsInHand, InsertHost
<1>6. RowsExist' /\ HeldIsCurrent' /\ WrongScoreIsCorrected'
  BY <1>1, <1>2, TablesGrow DEF InsertHost, Holds, IInv, TypeOK
<1> QED
  BY <1>2, <1>3, <1>4, <1>5, <1>6 DEF IInv

LEMMA CreateFailsInv ==
    ASSUME IInv, NEW u \in Users, CreateFails(u)
    PROVE  IInv'
<1> USE DEF CreateFails
<1>1. create[u] \in Codes
  BY DEF IInv, TypeOK
<1>2. /\ member' \in [Codes -> SUBSET Users]
      /\ \A c \in Codes : member[c] \subseteq member'[c]
  <2>1. member \in [Codes -> SUBSET Users]
    BY DEF IInv, TypeOK
  <2>2. CASE member' = member
    BY <2>1, <2>2
  <2>3. CASE member' = [member EXCEPT ![create[u]] = @ \union {u}]
    BY <1>1, <2>1, <2>3
  <2> QED
    BY <2>2, <2>3
<1>3. TypeOK'
  BY <1>2 DEF IInv, TypeOK
<1>4. HostsOwn' /\ ListsInHand'
  BY DEF IInv, HostsOwn, ListsInHand
<1>5. CreatorsOwn'
  BY DEF IInv, TypeOK, CreatorsOwn
<1>6. AnsweredRoomIsReady'
  BY <1>2 DEF IInv, TypeOK, AnsweredRoomIsReady
<1>7. RowsExist' /\ HeldIsCurrent' /\ WrongScoreIsCorrected'
  BY <1>2, <1>3, TablesGrow DEF Holds
<1> QED
  BY <1>3, <1>4, <1>5, <1>6, <1>7 DEF IInv

LEMMA JoinInv ==
    ASSUME IInv, NEW u \in Users, NEW c \in Codes, Join(u, c)
    PROVE  IInv'
<1> USE DEF Join
<1>1. TypeOK'
  BY DEF IInv, TypeOK, JoinRoom
<1>2. HostsOwn' /\ CreatorsOwn' /\ ListsInHand'
  BY DEF IInv, HostsOwn, CreatorsOwn, ListsInHand, JoinRoom
<1>3. AnsweredRoomIsReady'
  BY DEF IInv, TypeOK, AnsweredRoomIsReady, JoinRoom
<1>4. RowsExist' /\ HeldIsCurrent' /\ WrongScoreIsCorrected'
  BY <1>1, TablesGrow DEF JoinRoom, Holds, IInv, TypeOK
<1> QED
  BY <1>1, <1>2, <1>3, <1>4 DEF IInv

-----------------------------------------------------------------------------
(* The handlers: joining and leaving *)

LEMMA JoinedType ==
    ASSUME TypeOK, NEW s \in Sockets, NEW c \in Codes, NEW r \in {"host", "player"}
    PROVE  /\ Joined(s, c, r) \in Handler
           /\ Joined(s, c, r).pc = "list" /\ Joined(s, c, r).code = c
           /\ Joined(s, c, r).role = r /\ Joined(s, c, r).list = handler[s].list
  BY DEF TypeOK, Handler, Joined

LEMMA JoinSocketInv ==
    ASSUME IInv, NEW s \in Sockets, NEW c \in Codes, NEW r \in {"host", "player"},
           JoinSocket(s, c, r)
    PROVE  IInv'
<1> USE DEF JoinSocket, MayJoin, UpsertRoomMember
<1>1. TypeOK'
  <2>1. Joined(s, c, r) \in Handler
    BY JoinedType DEF IInv
  <2>2. handler' \in [Sockets -> Handler]
    BY <2>1 DEF IInv, TypeOK
  <2>3. member' \in [Codes -> SUBSET Users]
    <3>1. UserOf[s] \in Users /\ member \in [Codes -> SUBSET Users]
      BY UserOfAssumption DEF IInv, TypeOK
    <3>2. member' = [member EXCEPT ![c] = @ \union {UserOf[s]}]
      OBVIOUS
    <3> HIDE DEF JoinSocket
    <3> QED
      BY <3>1, <3>2
  <2> QED
    BY <2>2, <2>3 DEF IInv, TypeOK
<1>2. /\ handler'[s] = Joined(s, c, r)
      /\ \A t \in Sockets \ {s} : handler'[t] = handler[t]
  BY DEF IInv, TypeOK
<1>3. HostsOwn'
  BY <1>2, JoinedType DEF IInv, HostsOwn
<1>4. CreatorsOwn'
  BY DEF IInv, CreatorsOwn
<1>5. AnsweredRoomIsReady'
  BY DEF IInv, TypeOK, AnsweredRoomIsReady
<1>6. ListsInHand'
  BY <1>2, JoinedType, NoneAssumption DEF IInv, ListsInHand
<1>7. \A t \in Sockets, d \in Codes, u \in Users : Holds(t, d, u)' <=> Holds(t, d, u)
  BY <1>2, JoinedType DEF IInv, Holds
<1>8. \A d \in Codes : member[d] \subseteq member'[d]
  BY DEF IInv, TypeOK
<1>9. \A t \in Sockets : handler[t].pc # "read" => handler'[t] = handler[t]
  BY <1>2
<1>10. UNCHANGED <<score, presence, disturbed>>
  OBVIOUS
<1>11. RowsExist' /\ HeldIsCurrent' /\ WrongScoreIsCorrected'
  <2> HIDE DEF JoinSocket, MayJoin, UpsertRoomMember
  <2> QED
    BY <1>1, <1>7, <1>8, <1>9, <1>10, TablesGrow
<1> QED
  BY <1>1, <1>3, <1>4, <1>5, <1>6, <1>11 DEF IInv

LEMMA JoinUnansweredInv ==
    ASSUME IInv, NEW s \in Sockets, NEW c \in Codes, JoinUnanswered(s, c)
    PROVE  IInv'
<1> USE DEF JoinUnanswered, UpsertRoomMember
<1>1. TypeOK'
  BY UserOfAssumption DEF IInv, TypeOK
<1>2. HostsOwn' /\ CreatorsOwn' /\ ListsInHand'
  BY DEF IInv, HostsOwn, CreatorsOwn, ListsInHand
<1>3. AnsweredRoomIsReady'
  BY DEF IInv, TypeOK, AnsweredRoomIsReady
<1>4. \A d \in Codes : member[d] \subseteq member'[d]
  BY DEF IInv, TypeOK
<1>5. RowsExist' /\ HeldIsCurrent' /\ WrongScoreIsCorrected'
  BY <1>1, <1>4, TablesGrow DEF Holds
<1> QED
  BY <1>1, <1>2, <1>3, <1>5 DEF IInv

LEMMA LeaveInv ==
    ASSUME IInv, NEW s \in Sockets, Leave(s)
    PROVE  IInv'
<1> USE DEF Leave
<1>1. TypeOK'
  BY OutsideType DEF IInv, TypeOK
<1>2. /\ handler'[s] = Outside
      /\ \A t \in Sockets \ {s} : handler'[t] = handler[t]
  BY DEF IInv, TypeOK
<1>3. HostsOwn' /\ ListsInHand'
  BY <1>2, OutsideType DEF IInv, HostsOwn, ListsInHand
<1>4. CreatorsOwn' /\ AnsweredRoomIsReady'
  BY DEF IInv, CreatorsOwn, AnsweredRoomIsReady
<1>5. \A t \in Sockets, d \in Codes, u \in Users : Holds(t, d, u)' <=> Holds(t, d, u)
  BY <1>2, OutsideType DEF Holds
<1>6. RowsExist' /\ HeldIsCurrent' /\ WrongScoreIsCorrected'
  BY <1>1, <1>2, <1>5, TablesGrow
<1> QED
  BY <1>1, <1>3, <1>4, <1>6 DEF IInv

-----------------------------------------------------------------------------
(* The handlers: scores *)

LEMMA AddMemberScoreType ==
    ASSUME TypeOK, NEW c \in Codes, NEW u \in Users, NEW d \in Deltas,
           AddMemberScore(c, u, d)
    PROVE  /\ score' \in [Codes -> [Users -> Scores]]
           /\ \A a \in Codes, v \in Users :
                 score'[a][v] # score[a][v] =>
                    a = c /\ v = u /\ score'[a][v] = score[a][v] + d
<1>1. \A a \in Codes, v \in Users :
         score'[a][v] = IF a = c /\ v = u
                        THEN IF u \in member[c] THEN score[c][u] + d ELSE score[c][u]
                        ELSE score[a][v]
  BY DEF TypeOK, AddMemberScore
<1>2. score' \in [Codes -> [Users -> Scores]]
  BY DEF TypeOK, AddMemberScore, InRange
<1> QED
  BY <1>1, <1>2

LEMMA ScoreAddInv ==
    ASSUME IInv, NEW s \in Sockets, NEW u \in Users, NEW d \in Deltas, ScoreAdd(s, u, d)
    PROVE  IInv'
<1> DEFINE c == handler[s].code
<1> USE DEF ScoreAdd
<1>1. /\ c \in Codes
      /\ score' \in [Codes -> [Users -> Scores]]
      /\ \A a \in Codes, v \in Users : score'[a][v] # score[a][v] => a = c /\ v = u
  <2>1. c \in Codes
    BY DEF IInv, TypeOK, Handler, MayScore
  <2> QED
    BY <2>1, AddMemberScoreType DEF IInv
<1>2. /\ UNCHANGED <<owner, member, presence, create, answered, late>>
      /\ handler[s].pc = "read" /\ handler[s].list = NoRows
  BY DEF AddMemberScore, MayScore, IInv, ListsInHand
<1>3. /\ handler' \in [Sockets -> Handler]
      /\ handler'[s].pc = "list" /\ handler'[s].code = c
      /\ handler'[s].role = handler[s].role /\ handler'[s].list = NoRows
      /\ \A t \in Sockets \ {s} : handler'[t] = handler[t]
  BY <1>2 DEF IInv, TypeOK, Handler
<1>4. /\ disturbed' \in [Codes -> SUBSET Users]
      /\ \A a \in Codes : disturbed[a] \subseteq disturbed'[a]
      /\ (\E t \in Sockets : Holds(t, c, u)) => u \in disturbed'[c]
  BY <1>1 DEF IInv, TypeOK, Held
<1>5. TypeOK'
  BY <1>1, <1>2, <1>3, <1>4 DEF IInv, TypeOK
<1>6. HostsOwn' /\ ListsInHand'
  BY <1>1, <1>2, <1>3, NoneAssumption DEF IInv, HostsOwn, ListsInHand
<1>7. CreatorsOwn' /\ AnsweredRoomIsReady'
  BY <1>2 DEF IInv, CreatorsOwn, AnsweredRoomIsReady
<1>8. \A t \in Sockets, a \in Codes, v \in Users :
         Holds(t, a, v)' => Holds(t, a, v) /\ t # s /\ handler'[t] = handler[t]
  BY <1>3 DEF Holds
<1>9. RowsExist'
  BY <1>2, <1>8 DEF IInv, RowsExist, Rows
<1>10. HeldIsCurrent'
  BY <1>1, <1>4, <1>8 DEF IInv, HeldIsCurrent
<1>11. WrongScoreIsCorrected'
  <2> SUFFICES ASSUME NEW a \in Codes, NEW v \in Wrong(a)' \ disturbed'[a]
               PROVE  \E t \in Sockets :
                         /\ handler'[t].code = a
                         /\ \/ handler'[t].pc = "list"
                            \/ handler'[t].pc = "write" /\ handler'[t].list[v] = score'[a][v]
    BY DEF WrongScoreIsCorrected
  <2>1. CASE a = c
    BY <2>1, <1>3
  <2>2. CASE a # c
    <3>1. v \in Wrong(a) \ disturbed[a] /\ score'[a][v] = score[a][v]
      BY <2>2, <1>1, <1>2, <1>4 DEF Wrong
    <3>2. PICK t \in Sockets :
             /\ handler[t].code = a
             /\ \/ handler[t].pc = "list"
                \/ handler[t].pc = "write" /\ handler[t].list[v] = score[a][v]
      BY <3>1 DEF IInv, WrongScoreIsCorrected
    <3> QED
      BY <3>1, <3>2, <2>2, <1>3
  <2> QED
    BY <2>1, <2>2
<1> QED
  BY <1>5, <1>6, <1>7, <1>9, <1>10, <1>11 DEF IInv

LEMMA ScoreUnansweredInv ==
    ASSUME IInv, NEW s \in Sockets, NEW u \in Users, NEW d \in Deltas,
           ScoreUnanswered(s, u, d)
    PROVE  IInv'
<1> USE DEF ScoreUnanswered
<1>1. late' \subseteq Late
  BY DEF IInv, TypeOK, Handler, MayScore, Late
<1>2. TypeOK'
  BY <1>1 DEF IInv, TypeOK
<1>3. HostsOwn' /\ CreatorsOwn' /\ AnsweredRoomIsReady' /\ ListsInHand'
  BY DEF IInv, HostsOwn, CreatorsOwn, AnsweredRoomIsReady, ListsInHand
<1>4. RowsExist' /\ HeldIsCurrent' /\ WrongScoreIsCorrected'
  BY DEF IInv, RowsExist, Rows, HeldIsCurrent, WrongScoreIsCorrected, Holds, Wrong
<1> QED
  BY <1>2, <1>3, <1>4 DEF IInv

LEMMA LateScoreInv ==
    ASSUME IInv, NEW x \in late, LateScore(x)
    PROVE  IInv'
<1> DEFINE c == x.code
           u == x.user
<1> USE DEF LateScore
<1>1. c \in Codes /\ u \in Users /\ x.delta \in Deltas
  BY DEF IInv, TypeOK, Late
<1>2. /\ score' \in [Codes -> [Users -> Scores]]
      /\ \A a \in Codes, v \in Users : score'[a][v] # score[a][v] => a = c /\ v = u
  BY <1>1, AddMemberScoreType DEF IInv
<1>3. UNCHANGED <<owner, member, presence, handler, create, answered>>
  BY DEF AddMemberScore
<1>4. /\ disturbed' \in [Codes -> SUBSET Users]
      /\ \A a \in Codes : disturbed[a] \subseteq disturbed'[a]
      /\ presence[c][u] # None \/ Held(c, u) => u \in disturbed'[c]
  BY <1>1 DEF IInv, TypeOK
<1>5. TypeOK'
  BY <1>2, <1>3, <1>4 DEF IInv, TypeOK
<1>6. HostsOwn' /\ CreatorsOwn' /\ AnsweredRoomIsReady' /\ ListsInHand'
  BY <1>3 DEF IInv, HostsOwn, CreatorsOwn, AnsweredRoomIsReady, ListsInHand
<1>7. RowsExist'
  BY <1>3 DEF IInv, RowsExist, Rows, Holds
<1>8. HeldIsCurrent'
  BY <1>2, <1>3, <1>4 DEF IInv, HeldIsCurrent, Holds, Held
<1>9. WrongScoreIsCorrected'
  BY <1>2, <1>3, <1>4 DEF IInv, WrongScoreIsCorrected, Wrong
<1> QED
  BY <1>5, <1>6, <1>7, <1>8, <1>9 DEF IInv

LEMMA LateLostInv ==
    ASSUME IInv, NEW x \in late, LateLost(x)
    PROVE  IInv'
<1> USE DEF LateLost
<1>1. TypeOK'
  BY DEF IInv, TypeOK
<1>2. HostsOwn' /\ CreatorsOwn' /\ AnsweredRoomIsReady' /\ ListsInHand'
  BY DEF IInv, HostsOwn, CreatorsOwn, AnsweredRoomIsReady, ListsInHand
<1>3. RowsExist' /\ HeldIsCurrent' /\ WrongScoreIsCorrected'
  BY DEF IInv, RowsExist, Rows, HeldIsCurrent, WrongScoreIsCorrected, Holds, Wrong
<1> QED
  BY <1>1, <1>2, <1>3 DEF IInv

LEMMA ListRoomMembersInv ==
    ASSUME IInv, NEW s \in Sockets, ListRoomMembers(s)
    PROVE  IInv'
<1> DEFINE c == handler[s].code
           rows == Listed(c, Rows(c))
<1> USE DEF ListRoomMembers
<1>1. c \in Codes
  BY DEF IInv, TypeOK, Handler, ListsInHand
<1>10. rows \in [Users -> Scores \union {None}]
  BY <1>1, ListedType DEF IInv, TypeOK, Rows
<1>2. /\ handler' \in [Sockets -> Handler]
      /\ handler'[s].pc = "write" /\ handler'[s].code = c
      /\ handler'[s].role = handler[s].role /\ handler'[s].list = rows
      /\ \A t \in Sockets \ {s} : handler'[t] = handler[t]
  BY <1>1, <1>10 DEF IInv, TypeOK, Handler
<1>3. TypeOK'
  BY <1>2 DEF IInv, TypeOK
<1>4. HostsOwn' /\ ListsInHand'
  BY <1>1, <1>2, NoneAssumption DEF IInv, HostsOwn, ListsInHand
<1>5. CreatorsOwn' /\ AnsweredRoomIsReady'
  BY DEF IInv, CreatorsOwn, AnsweredRoomIsReady
<1>6. \A u \in Users :
         /\ u \in Rows(c) => rows[u] = score[c][u]
         /\ u \notin Rows(c) => rows[u] = None
  BY DEF Listed
<1>7. RowsExist'
  BY <1>1, <1>2, <1>6 DEF IInv, RowsExist, Rows, Holds
<1>8. HeldIsCurrent'
  BY <1>1, <1>2, <1>6 DEF IInv, HeldIsCurrent, Holds
<1>9. WrongScoreIsCorrected'
  <2> SUFFICES ASSUME NEW a \in Codes, NEW v \in Wrong(a)' \ disturbed'[a]
               PROVE  \E t \in Sockets :
                         /\ handler'[t].code = a
                         /\ \/ handler'[t].pc = "list"
                            \/ handler'[t].pc = "write" /\ handler'[t].list[v] = score'[a][v]
    BY DEF WrongScoreIsCorrected
  <2>1. v \in Wrong(a) \ disturbed[a] /\ score' = score
    BY DEF Wrong
  <2>2. PICK t \in Sockets :
           /\ handler[t].code = a
           /\ \/ handler[t].pc = "list"
              \/ handler[t].pc = "write" /\ handler[t].list[v] = score[a][v]
    BY <2>1 DEF IInv, WrongScoreIsCorrected
  <2>3. CASE t = s
    <3>1. v \in Users /\ v \in Rows(c)
      BY <1>1, <2>1, <2>2, <2>3 DEF IInv, RowsExist, Rows, Wrong
    <3> QED
      BY <3>1, <2>1, <2>2, <2>3, <1>2, <1>6
  <2>4. CASE t # s
    BY <2>1, <2>2, <2>4, <1>2
  <2> QED
    BY <2>3, <2>4
<1> QED
  BY <1>3, <1>4, <1>5, <1>7, <1>8, <1>9 DEF IInv

LEMMA ListFailsInv ==
    ASSUME IInv, NEW s \in Sockets, ListFails(s)
    PROVE  IInv'
<1> DEFINE c == handler[s].code
<1>1. c \in Codes /\ handler[s].list = NoRows /\ Rows(c) \subseteq Users
  BY DEF IInv, TypeOK, Handler, ListsInHand, ListFails, Rows
<1>2. PICK read \in SUBSET Rows(c) :
         /\ handler' = [handler EXCEPT ![s].pc = "write", ![s].list = Listed(c, read)]
         /\ disturbed' = [disturbed EXCEPT ![c] = @ \union (Wrong(c) \ read)]
  BY DEF ListFails
<1> DEFINE rows == Listed(c, read)
<1>3. UNCHANGED <<owner, member, score, presence, create, answered, late>>
  BY DEF ListFails
<1>4. rows \in [Users -> Scores \union {None}]
  BY <1>1, ListedType DEF IInv
<1>5. /\ handler' \in [Sockets -> Handler]
      /\ handler'[s].pc = "write" /\ handler'[s].code = c
      /\ handler'[s].role = handler[s].role /\ handler'[s].list = rows
      /\ \A t \in Sockets \ {s} : handler'[t] = handler[t]
  <2>1. handler' = [handler EXCEPT ![s] = [@ EXCEPT !.pc = "write", !.list = rows]]
    BY <1>2 DEF IInv, TypeOK
  <2> HIDE DEF rows
  <2>2. handler[s] \in Handler
    BY DEF IInv, TypeOK
  <2>3. [handler[s] EXCEPT !.pc = "write", !.list = rows] \in Handler
    BY <2>2, <1>4 DEF Handler
  <2> QED
    BY <2>1, <2>2, <2>3 DEF IInv, TypeOK, Handler
<1>6. /\ disturbed' \in [Codes -> SUBSET Users]
      /\ \A a \in Codes : disturbed[a] \subseteq disturbed'[a]
      /\ Wrong(c) \ read \subseteq disturbed'[c]
  BY <1>1, <1>2 DEF IInv, TypeOK, Wrong
<1>7. TypeOK'
  BY <1>3, <1>5, <1>6 DEF IInv, TypeOK
<1>8. HostsOwn' /\ ListsInHand'
  BY <1>1, <1>3, <1>5, NoneAssumption DEF IInv, HostsOwn, ListsInHand
<1>9. CreatorsOwn' /\ AnsweredRoomIsReady'
  BY <1>3 DEF IInv, CreatorsOwn, AnsweredRoomIsReady
<1>10. \A u \in Users :
          /\ u \in read => rows[u] = score[c][u]
          /\ u \notin read => rows[u] = None
  BY DEF Listed
<1>11. RowsExist'
  BY <1>1, <1>3, <1>5, <1>10 DEF IInv, RowsExist, Rows, Holds
<1>12. HeldIsCurrent'
  BY <1>1, <1>3, <1>5, <1>6, <1>10 DEF IInv, HeldIsCurrent, Holds
<1>13. WrongScoreIsCorrected'
  <2> SUFFICES ASSUME NEW a \in Codes, NEW v \in Wrong(a) \ disturbed'[a]
               PROVE  \E t \in Sockets :
                         /\ handler'[t].code = a
                         /\ \/ handler'[t].pc = "list"
                            \/ handler'[t].pc = "write" /\ handler'[t].list[v] = score[a][v]
    BY <1>3 DEF WrongScoreIsCorrected, Wrong
  <2>1. v \in Users /\ v \in Wrong(a) \ disturbed[a]
    BY <1>6 DEF Wrong
  <2>2. PICK t \in Sockets :
           /\ handler[t].code = a
           /\ \/ handler[t].pc = "list"
              \/ handler[t].pc = "write" /\ handler[t].list[v] = score[a][v]
    BY <2>1 DEF IInv, WrongScoreIsCorrected
  <2>3. CASE t = s
    <3>1. v \in read
      BY <2>2, <2>3, <1>6
    <3> QED
      BY <3>1, <2>1, <2>2, <2>3, <1>5, <1>10
  <2>4. CASE t # s
    BY <2>2, <2>4, <1>5
  <2> QED
    BY <2>3, <2>4
<1> QED
  BY <1>7, <1>8, <1>9, <1>11, <1>12, <1>13 DEF IInv

LEMMA UpsertMemberStateInv ==
    ASSUME IInv, NEW s \in Sockets, NEW u \in Users, UpsertMemberState(s, u)
    PROVE  IInv'
<1> DEFINE c == handler[s].code
           row == handler[s].list[u]
           settled == row = score[c][u] /\ \A t \in Sockets \ {s} : ~Holds(t, c, u)
<1> USE DEF UpsertMemberState
<1>1. c \in Codes /\ row \in Scores /\ row # None /\ Holds(s, c, u)
  BY NoneAssumption DEF IInv, TypeOK, Handler, ListsInHand, Holds
<1>2. /\ handler' \in [Sockets -> Handler]
      /\ handler'[s].pc = "write" /\ handler'[s].code = c
      /\ handler'[s].role = handler[s].role
      /\ handler'[s].list[u] = None
      /\ \A v \in Users \ {u} : handler'[s].list[v] = handler[s].list[v]
      /\ \A t \in Sockets \ {s} : handler'[t] = handler[t]
  BY <1>1 DEF IInv, TypeOK, Handler
<1>3. /\ presence' \in [Codes -> [Users -> Scores \union {None}]]
      /\ presence'[c][u] = row
      /\ \A a \in Codes, v \in Users : a # c \/ v # u => presence'[a][v] = presence[a][v]
  BY <1>1 DEF IInv, TypeOK
<1>4. /\ disturbed' \in [Codes -> SUBSET Users]
      /\ \A a \in Codes : a # c => disturbed'[a] = disturbed[a]
      /\ ~settled => disturbed'[c] = disturbed[c]
      /\ disturbed[c] \ {u} \subseteq disturbed'[c]
      /\ disturbed'[c] \subseteq disturbed[c]
  BY <1>1 DEF IInv, TypeOK
<1>5. TypeOK'
  BY <1>2, <1>3, <1>4 DEF IInv, TypeOK
<1>6. HostsOwn' /\ ListsInHand'
  BY <1>1, <1>2, NoneAssumption DEF IInv, HostsOwn, ListsInHand
<1>7. CreatorsOwn' /\ AnsweredRoomIsReady'
  BY DEF IInv, CreatorsOwn, AnsweredRoomIsReady
<1>8. \A t \in Sockets, a \in Codes, v \in Users :
         Holds(t, a, v)' => /\ Holds(t, a, v)
                            /\ handler'[t].list[v] = handler[t].list[v]
                            /\ a = c /\ v = u => t # s
  BY <1>2 DEF Holds
<1>9. RowsExist'
  BY <1>1, <1>3, <1>8 DEF IInv, RowsExist, Rows
<1>10. HeldIsCurrent'
  <2> SUFFICES ASSUME NEW t \in Sockets, NEW a \in Codes, NEW v \in Users, Holds(t, a, v)'
               PROVE  handler'[t].list[v] = score[a][v] \/ v \in disturbed'[a]
    BY DEF HeldIsCurrent
  <2>1. handler[t].list[v] = score[a][v] \/ v \in disturbed[a]
    BY <1>8 DEF IInv, HeldIsCurrent
  <2>2. CASE a = c /\ v = u
    BY <2>1, <2>2, <1>4, <1>8
  <2>3. CASE ~(a = c /\ v = u)
    BY <2>1, <2>3, <1>4, <1>8
  <2> QED
    BY <2>2, <2>3
<1>11. WrongScoreIsCorrected'
  <2> SUFFICES ASSUME NEW a \in Codes, NEW v \in Wrong(a)' \ disturbed'[a]
               PROVE  \E t \in Sockets :
                         /\ handler'[t].code = a
                         /\ \/ handler'[t].pc = "list"
                            \/ handler'[t].pc = "write" /\ handler'[t].list[v] = score[a][v]
    BY DEF WrongScoreIsCorrected
  <2>1. v \in Users
    BY DEF Wrong
  <2>2. ~(a = c /\ v = u)
    <3> SUFFICES ASSUME a = c, v = u PROVE FALSE
      OBVIOUS
    <3>1. row # score[c][u]
      BY <1>3 DEF Wrong
    <3>2. u \in disturbed[c]
      BY <3>1, <1>1 DEF IInv, HeldIsCurrent
    <3> QED
      BY <3>1, <3>2, <1>4
  <2>3. v \in Wrong(a) \ disturbed[a]
    BY <2>1, <2>2, <1>3, <1>4 DEF Wrong
  <2>4. PICK t \in Sockets :
           /\ handler[t].code = a
           /\ \/ handler[t].pc = "list"
              \/ handler[t].pc = "write" /\ handler[t].list[v] = score[a][v]
    BY <2>3 DEF IInv, WrongScoreIsCorrected
  <2>5. CASE t = s
    BY <2>1, <2>2, <2>4, <2>5, <1>2
  <2>6. CASE t # s
    BY <2>4, <2>6, <1>2
  <2> QED
    BY <2>5, <2>6
<1> QED
  BY <1>5, <1>6, <1>7, <1>9, <1>10, <1>11 DEF IInv

LEMMA BroadcastInv ==
    ASSUME IInv, NEW s \in Sockets, Broadcast(s)
    PROVE  IInv'
<1> USE DEF Broadcast
<1>1. /\ handler' \in [Sockets -> Handler]
      /\ handler'[s] = [handler[s] EXCEPT !.pc = "read"]
      /\ handler'[s].pc = "read" /\ handler'[s].code = handler[s].code
      /\ handler'[s].role = handler[s].role /\ handler'[s].list = NoRows
      /\ \A t \in Sockets \ {s} : handler'[t] = handler[t]
  BY DEF IInv, TypeOK, Handler
<1>2. TypeOK'
  BY <1>1 DEF IInv, TypeOK
<1>3. HostsOwn' /\ ListsInHand'
  BY <1>1 DEF IInv, HostsOwn, ListsInHand
<1>4. CreatorsOwn' /\ AnsweredRoomIsReady'
  BY DEF IInv, CreatorsOwn, AnsweredRoomIsReady
<1>5. \A t \in Sockets, a \in Codes, v \in Users :
         Holds(t, a, v)' => Holds(t, a, v) /\ handler'[t] = handler[t]
  BY <1>1 DEF Holds
<1>6. RowsExist' /\ HeldIsCurrent'
  BY <1>5 DEF IInv, RowsExist, Rows, HeldIsCurrent
<1>7. WrongScoreIsCorrected'
  <2> SUFFICES ASSUME NEW a \in Codes, NEW v \in Wrong(a)' \ disturbed'[a]
               PROVE  \E t \in Sockets :
                         /\ handler'[t].code = a
                         /\ \/ handler'[t].pc = "list"
                            \/ handler'[t].pc = "write" /\ handler'[t].list[v] = score'[a][v]
    BY DEF WrongScoreIsCorrected
  <2>1. v \in Wrong(a) \ disturbed[a] /\ score' = score
    BY DEF Wrong
  <2>2. PICK t \in Sockets :
           /\ handler[t].code = a
           /\ \/ handler[t].pc = "list"
              \/ handler[t].pc = "write" /\ handler[t].list[v] = score[a][v]
    BY <2>1 DEF IInv, WrongScoreIsCorrected
  <2>3. t # s
    <3>1. v \in Users /\ score[a][v] # None
      BY <2>1, NoneAssumption DEF IInv, TypeOK, Wrong
    <3> QED
      BY <3>1, <2>2 DEF NoRows
  <2> QED
    BY <2>1, <2>2, <2>3, <1>1
<1> QED
  BY <1>2, <1>3, <1>4, <1>6, <1>7 DEF IInv

-----------------------------------------------------------------------------
(* The sweeper and a restart *)

LEMMA RoomSweptInv ==
    ASSUME IInv, NEW c \in Codes, RoomSwept(c)
    PROVE  IInv'
<1> USE DEF RoomSwept
<1>1. /\ presence' \in [Codes -> [Users -> Scores \union {None}]]
      /\ presence'[c] = NoRows
      /\ \A a \in Codes \ {c} : presence'[a] = presence[a]
  BY NoRowsType DEF IInv, TypeOK
<1>2. /\ disturbed' \in [Codes -> SUBSET Users]
      /\ \A a \in Codes \ {c} : disturbed'[a] = disturbed[a]
  BY DEF IInv, TypeOK
<1>3. TypeOK'
  BY <1>1, <1>2 DEF IInv, TypeOK
<1>4. HostsOwn' /\ CreatorsOwn' /\ AnsweredRoomIsReady' /\ ListsInHand'
  BY DEF IInv, HostsOwn, CreatorsOwn, AnsweredRoomIsReady, ListsInHand
<1>5. \A s \in Sockets, u \in Users : ~Holds(s, c, u)
  BY DEF Holds
<1>6. RowsExist'
  BY <1>1, <1>5 DEF IInv, RowsExist, Rows, Holds, NoRows
<1>7. HeldIsCurrent'
  BY <1>2, <1>5 DEF IInv, HeldIsCurrent, Holds
<1>8. WrongScoreIsCorrected'
  BY <1>1, <1>2 DEF IInv, WrongScoreIsCorrected, Wrong, NoRows
<1> QED
  BY <1>3, <1>4, <1>6, <1>7, <1>8 DEF IInv

LEMMA RestartInv ==
    ASSUME IInv, Restart
    PROVE  IInv'
<1> USE DEF Restart
<1>1. TypeOK'
  BY NoRowsType, OutsideType DEF IInv, TypeOK
<1>2. \A s \in Sockets : handler'[s] = Outside
  OBVIOUS
<1>3. HostsOwn' /\ ListsInHand'
  BY <1>2, OutsideType DEF HostsOwn, ListsInHand
<1>4. CreatorsOwn' /\ AnsweredRoomIsReady'
  BY DEF IInv, CreatorsOwn, AnsweredRoomIsReady, NoRows
<1>5. \A s \in Sockets, c \in Codes, u \in Users : ~Holds(s, c, u)'
  BY <1>2, OutsideType DEF Holds
<1>6. \A c \in Codes, u \in Users : presence'[c][u] = None
  BY DEF NoRows
<1>7. RowsExist' /\ HeldIsCurrent'
  BY <1>5, <1>6 DEF RowsExist, HeldIsCurrent
<1>8. WrongScoreIsCorrected'
  BY <1>6 DEF WrongScoreIsCorrected, Wrong
<1> QED
  BY <1>1, <1>3, <1>4, <1>7, <1>8 DEF IInv

-----------------------------------------------------------------------------
LEMMA StutterInv == IInv /\ UNCHANGED vars => IInv'
<1> SUFFICES ASSUME IInv, UNCHANGED vars PROVE IInv'
  OBVIOUS
<1>1. TypeOK'
  BY DEF IInv, vars, TypeOK
<1>2. HostsOwn' /\ CreatorsOwn' /\ AnsweredRoomIsReady' /\ ListsInHand'
  BY DEF IInv, vars, HostsOwn, CreatorsOwn, AnsweredRoomIsReady, ListsInHand
<1>3. RowsExist' /\ HeldIsCurrent' /\ WrongScoreIsCorrected'
  BY DEF IInv, vars, RowsExist, Rows, HeldIsCurrent, WrongScoreIsCorrected, Holds, Wrong
<1> QED
  BY <1>1, <1>2, <1>3 DEF IInv

LEMMA NextInv == IInv /\ [Next]_vars => IInv'
<1> SUFFICES ASSUME IInv, [Next]_vars PROVE IInv'
  OBVIOUS
<1>1. CASE \E u \in Users : InsertHost(u) \/ CreateFails(u)
  BY <1>1, InsertHostInv, CreateFailsInv
<1>2. CASE \E u \in Users, c \in Codes : InsertRoom(u, c) \/ Join(u, c)
  BY <1>2, InsertRoomInv, JoinInv
<1>3. CASE \E s \in Sockets, c \in Codes, r \in {"host", "player"} : JoinSocket(s, c, r)
  BY <1>3, JoinSocketInv
<1>10. CASE \E s \in Sockets, c \in Codes : JoinUnanswered(s, c)
  BY <1>10, JoinUnansweredInv
<1>11. CASE \E x \in late : LateScore(x) \/ LateLost(x)
  BY <1>11, LateScoreInv, LateLostInv
<1>4. CASE \E s \in Sockets, u \in Targets, d \in Deltas :
              ScoreAdd(s, u, d) \/ ScoreUnanswered(s, u, d)
  BY <1>4, ScoreAddInv, ScoreUnansweredInv, TargetsAssumption
<1>5. CASE \E s \in Sockets :
              Leave(s) \/ ListRoomMembers(s) \/ ListFails(s) \/ Broadcast(s)
  BY <1>5, LeaveInv, ListRoomMembersInv, ListFailsInv, BroadcastInv
<1>6. CASE \E s \in Sockets, u \in Users : UpsertMemberState(s, u)
  BY <1>6, UpsertMemberStateInv
<1>7. CASE \E c \in Codes : RoomSwept(c)
  BY <1>7, RoomSweptInv
<1>8. CASE Restart
  BY <1>8, RestartInv
<1>9. CASE UNCHANGED vars
  BY <1>9, StutterInv
<1> QED
  BY <1>1, <1>2, <1>3, <1>4, <1>5, <1>6, <1>7, <1>8, <1>9, <1>10, <1>11 DEF Next

\* The inductive invariant of the rooms, their handlers and the lists they hold.
THEOREM Invariance == Spec => []IInv
  BY InitInv, NextInv, PTL DEF Spec

\* The tables, the lists and the handlers keep their types: no score leaves the range
\* of its column.
THEOREM TypeCorrect == Spec => []TypeOK
<1>1. IInv => TypeOK
  BY DEF IInv
<1> QED
  BY <1>1, Invariance, PTL

\* A code that was answered belongs to who asked for it, for any number of requests.
THEOREM AnsweredIsReady == Spec => []AnsweredRoomIsReady
<1>1. IInv => AnsweredRoomIsReady
  BY DEF IInv
<1> QED
  BY <1>1, Invariance, PTL

\* A list's wrong score has somebody about to correct it, unless it was disturbed.
THEOREM Corrected == Spec => []WrongScoreIsCorrected
<1>1. IInv => WrongScoreIsCorrected
  BY DEF IInv
<1> QED
  BY <1>1, Invariance, PTL

\* A handler that passes score_add's checks is the owner's, in its room as its host.
LEMMA ScorerIsHost ==
    ASSUME IInv, NEW s \in Sockets, MayScore(s)
    PROVE  HostIn(s, handler[s].code) /\ handler[s].code \in Codes
  BY DEF IInv, TypeOK, Handler, HostsOwn, MayScore, HostIn

\* How a score may change, and where the updates that nobody awaits come from.
OnlyHostStep ==
    /\ \A c \in Codes, u \in Users : score'[c][u] # score[c][u] =>
          \/ \E s \in Sockets : HostIn(s, c) /\ handler'[s].pc = "list"
          \/ \E x \in late \ late' :
                /\ x.code = c /\ x.user = u
                /\ score'[c][u] = score[c][u] + x.delta
    /\ \A x \in late' \ late : \E s \in Sockets : HostIn(s, x.code)

LEMMA ScoreAddIsHosts ==
    ASSUME IInv, NEW s \in Sockets, NEW u \in Users, NEW d \in Deltas, ScoreAdd(s, u, d)
    PROVE  OnlyHostStep
<1>1. HostIn(s, handler[s].code) /\ handler[s].code \in Codes
  BY ScorerIsHost DEF ScoreAdd
<1>2. \A c \in Codes, v \in Users : score'[c][v] # score[c][v] => c = handler[s].code
  BY <1>1, AddMemberScoreType DEF IInv, ScoreAdd
<1>3. handler'[s].pc = "list" /\ UNCHANGED late
  BY DEF IInv, TypeOK, ScoreAdd
<1> QED
  BY <1>1, <1>2, <1>3 DEF OnlyHostStep

LEMMA UnansweredIsHosts ==
    ASSUME IInv, NEW s \in Sockets, NEW u \in Users, NEW d \in Deltas,
           ScoreUnanswered(s, u, d)
    PROVE  OnlyHostStep
  BY ScorerIsHost DEF ScoreUnanswered, OnlyHostStep

LEMMA LateIsAsked ==
    ASSUME IInv, NEW x \in late, LateScore(x)
    PROVE  OnlyHostStep
<1>1. x.code \in Codes /\ x.user \in Users /\ x.delta \in Deltas
  BY DEF IInv, TypeOK, Late
<1>2. \A c \in Codes, v \in Users :
         score'[c][v] # score[c][v] =>
            c = x.code /\ v = x.user /\ score'[c][v] = score[c][v] + x.delta
  BY <1>1, AddMemberScoreType DEF IInv, LateScore
<1>3. late' = late \ {x}
  BY DEF LateScore
<1> QED
  BY <1>2, <1>3 DEF OnlyHostStep

LEMMA StepIsHosts == IInv /\ [Next]_vars => OnlyHostStep
<1> SUFFICES ASSUME IInv, [Next]_vars PROVE OnlyHostStep
  OBVIOUS
<1> USE DEF OnlyHostStep
<1>1. ASSUME NEW s \in Sockets, NEW u \in Targets, NEW d \in Deltas,
             ScoreAdd(s, u, d) \/ ScoreUnanswered(s, u, d)
      PROVE  OnlyHostStep
  BY <1>1, TargetsAssumption, ScoreAddIsHosts, UnansweredIsHosts
<1>2. ASSUME NEW u \in Users, InsertHost(u) \/ CreateFails(u)
      PROVE  UNCHANGED <<score, late>>
  BY <1>2 DEF InsertHost, CreateFails
<1>3. ASSUME NEW u \in Users, NEW a \in Codes, InsertRoom(u, a) \/ Join(u, a)
      PROVE  UNCHANGED <<score, late>>
  BY <1>3 DEF InsertRoom, Join, JoinRoom
<1>4. ASSUME NEW s \in Sockets, NEW a \in Codes, NEW r \in {"host", "player"},
             JoinSocket(s, a, r) \/ JoinUnanswered(s, a)
      PROVE  UNCHANGED <<score, late>>
  BY <1>4 DEF JoinSocket, JoinUnanswered, UpsertRoomMember
<1>5. ASSUME NEW s \in Sockets,
             Leave(s) \/ ListRoomMembers(s) \/ ListFails(s) \/ Broadcast(s)
      PROVE  UNCHANGED <<score, late>>
  BY <1>5 DEF Leave, ListRoomMembers, ListFails, Broadcast
<1>6. ASSUME NEW s \in Sockets, NEW u \in Users, UpsertMemberState(s, u)
      PROVE  UNCHANGED <<score, late>>
  BY <1>6 DEF UpsertMemberState
<1>7. ASSUME NEW a \in Codes, RoomSwept(a) PROVE UNCHANGED <<score, late>>
  BY <1>7 DEF RoomSwept
<1>8. CASE Restart
  BY <1>8 DEF Restart
<1>9. CASE UNCHANGED vars
  BY <1>9 DEF vars
<1>10. ASSUME NEW x \in late, LateScore(x) \/ LateLost(x) PROVE OnlyHostStep
  BY <1>10, LateIsAsked DEF LateLost
<1> QED
  BY <1>1, <1>2, <1>3, <1>4, <1>5, <1>6, <1>7, <1>8, <1>9, <1>10 DEF Next

\* Only the room's owner, in it as its host, changes a score: by a command, or by the
\* update that a command left behind, once and by as much as it said, however many
\* sockets, joins, failures and restarts there are.
THEOREM OnlyByHost == Spec => ScoresOnlyByHost
<1>1. IInv /\ [Next]_vars => [OnlyHostStep]_vars
  BY StepIsHosts
<1> QED
  BY <1>1, Invariance, PTL DEF Spec, ScoresOnlyByHost, OnlyHostStep

=============================================================================
