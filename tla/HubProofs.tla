----------------------------- MODULE HubProofs -----------------------------
(***************************************************************************)
(* Theorems about Hub for any number of sockets, users, codes and joins.   *)
(***************************************************************************)
EXTENDS Hub, TLAPS

\* Who a program counter speaks for: a handler beyond its checks has a user, and
\* between GetRoom and its end a room; the sweeper has the room it visits, and
\* connections to close only where it closes them.
Placed(s) ==
    /\ handler[s].pc = "off" => handler[s].user = None /\ handler[s].joins = 0
    /\ handler[s].pc # "off" => handler[s].user \in Users
    /\ handler[s].pc \notin {"off", "read", "get", "answer", "gone"} => handler[s].room \in RoomHubs
    /\ handler[s].pc \in {"read", "answer"} => ~handler[s].leaving
    /\ handler[s].pc = "get" \/ handler[s].room # None =>
          handler[s].code \in Codes /\ handler[s].joins > 0

WellPlaced ==
    /\ \A s \in Sockets : Placed(s)
    /\ sweeper.pc \notin {"wait", "scan"} => sweeper.room \in RoomHubs /\ sweeper.code \in Codes
    /\ sweeper.pc # "close" => sweeper.closing = {}

\* conns holds each connection under its own user, made by a join that has happened.
OwnConns ==
    \A r \in RoomHubs, u \in Users :
        conns[r][u] # None =>
            /\ UserOf(conns[r][u][1]) = u
            /\ conns[r][u][2] <= handler[conns[r][u][1]].joins

\* The only socket of a user has taken it out of the map when it is about to show it
\* as gone.
LeftBeforeOff ==
    \A s \in Sockets :
        handler[s].pc = "setoff" /\ OneSocket(UserOf(s))
        => conns[handler[s].room][UserOf(s)] = None

\* Every way a handler's or the sweeper's locals are assigned.
HandlerPc == {"off", "read", "get", "register", "list", "upsert", "broadcast", "send",
              "answer", "unregister", "setoff", "bye", "gone"}
SweeperPc == {"wait", "scan", "close", "broadcast", "send", "delete", "drop"}

LEMMA HandlerUpdates ==
    ASSUME NEW h \in Handler, NEW pc \in HandlerPc
    PROVE  /\ [h EXCEPT !.pc = pc] \in Handler
           /\ \A c \in Codes : h.joins < MaxJoins =>
                 [h EXCEPT !.pc = pc, !.code = c, !.joins = @ + 1] \in Handler
           /\ \A r \in RoomHubs : [h EXCEPT !.pc = pc, !.room = r] \in Handler
           /\ \A D \in SUBSET Users, f \in {"off", "on"} :
                 [h EXCEPT !.pc = pc, !.todo = D, !.flag = f] \in Handler
           /\ \A D \in SUBSET Users : [h EXCEPT !.todo = D] \in Handler
           /\ \A S \in SUBSET Conn : [h EXCEPT !.pc = pc, !.targets = S] \in Handler
           /\ \A f \in {"off", "on"} : [h EXCEPT !.pc = pc, !.flag = f] \in Handler
           /\ [h EXCEPT !.pc = pc, !.leaving = TRUE] \in Handler
           /\ \A n \in 0 .. MaxJoins, u \in Users \union {None} : Outside(pc, u, n) \in Handler
<1> USE DEF HandlerPc
<1>1. \A c \in Codes : h.joins < MaxJoins =>
         [h EXCEPT !.pc = pc, !.code = c, !.joins = @ + 1] \in Handler
  <2>1. ASSUME NEW n \in 0 .. MaxJoins, NEW c \in Codes
        PROVE  [h EXCEPT !.pc = pc, !.code = c, !.joins = n] \in Handler
    BY DEF Handler
  <2>2. h.joins < MaxJoins => h.joins + 1 \in 0 .. MaxJoins
    BY MaxJoinsAssumption DEF Handler
  <2> QED
    BY <2>1, <2>2
<1>2. \A n \in 0 .. MaxJoins, u \in Users \union {None} : Outside(pc, u, n) \in Handler
  BY DEF Handler, Outside
<1>3. [h EXCEPT !.pc = pc] \in Handler
  BY DEF Handler
<1>4. \A r \in RoomHubs : [h EXCEPT !.pc = pc, !.room = r] \in Handler
  BY DEF Handler
<1>5. \A D \in SUBSET Users, f \in {"off", "on"} :
         [h EXCEPT !.pc = pc, !.todo = D, !.flag = f] \in Handler
  BY DEF Handler
<1>6. \A D \in SUBSET Users : [h EXCEPT !.todo = D] \in Handler
  BY DEF Handler
<1>7. \A S \in SUBSET Conn : [h EXCEPT !.pc = pc, !.targets = S] \in Handler
  BY DEF Handler
<1>8. [h EXCEPT !.pc = pc, !.leaving = TRUE] \in Handler
  BY DEF Handler
<1>9. \A f \in {"off", "on"} : [h EXCEPT !.pc = pc, !.flag = f] \in Handler
  BY DEF Handler
<1> QED
  BY <1>1, <1>2, <1>3, <1>4, <1>5, <1>6, <1>7, <1>8, <1>9

LEMMA SweeperUpdates ==
    ASSUME NEW h \in Sweeper, NEW pc \in SweeperPc
    PROVE  /\ [h EXCEPT !.pc = pc] \in Sweeper
           /\ \A S \in SUBSET Conn : [h EXCEPT !.pc = pc, !.closing = S] \in Sweeper
           /\ \A S \in SUBSET Conn : [h EXCEPT !.pc = pc, !.targets = S] \in Sweeper
           /\ \A T \in SUBSET (Codes \X RoomHubs) : ToVisit(pc, T) \in Sweeper
           /\ \A T \in SUBSET (Codes \X RoomHubs), c \in Codes, r \in RoomHubs,
                 S \in SUBSET Conn, e \in BOOLEAN :
                 [h EXCEPT !.pc = pc, !.todo = T, !.code = c, !.room = r, !.closing = S,
                           !.empty = e] \in Sweeper
<1>1. \A S \in SUBSET Conn : [h EXCEPT !.pc = pc, !.closing = S] \in Sweeper
  BY DEF Sweeper, SweeperPc
<1>2. \A S \in SUBSET Conn : [h EXCEPT !.pc = pc, !.targets = S] \in Sweeper
  BY DEF Sweeper, SweeperPc
<1>3. \A T \in SUBSET (Codes \X RoomHubs) : ToVisit(pc, T) \in Sweeper
  BY DEF Sweeper, SweeperPc, ToVisit
<1>4. ASSUME NEW T \in SUBSET (Codes \X RoomHubs), NEW c \in Codes, NEW r \in RoomHubs,
             NEW S \in SUBSET Conn, NEW e \in BOOLEAN
      PROVE  [h EXCEPT !.pc = pc, !.todo = T, !.code = c, !.room = r, !.closing = S, !.empty = e]
               \in Sweeper
  BY DEF Sweeper, SweeperPc
<1>5. [h EXCEPT !.pc = pc] \in Sweeper
  BY DEF Sweeper, SweeperPc
<1> QED
  BY <1>1, <1>2, <1>3, <1>4, <1>5

LEMMA Connections ==
    ASSUME TypeOK
    PROVE  /\ \A r \in RoomHubs : Registered(r) \in SUBSET Conn /\ Sweepable(r) \in SUBSET Conn
           /\ \A s \in Sockets : /\ handler[s] \in Handler /\ handler[s].joins \in 0 .. MaxJoins
                                 /\ UserOf(s) \in Users \union {None}
                                 /\ handler[s].joins > 0 => Current(s) \in Conn
           /\ \A s \in Sockets : handler[s].todo \in SUBSET Users
           /\ sweeper \in Sweeper
<1>1. \A r \in RoomHubs : Registered(r) \in SUBSET Conn /\ Sweepable(r) \in SUBSET Conn
  BY DEF TypeOK, Registered, Sweepable, Range
<1>2. \A s \in Sockets : /\ handler[s] \in Handler /\ handler[s].joins \in 0 .. MaxJoins
                         /\ UserOf(s) \in Users \union {None}
                         /\ handler[s].todo \in SUBSET Users
  BY DEF TypeOK, Handler, UserOf
<1>3. ASSUME NEW s \in Sockets, handler[s].joins > 0 PROVE Current(s) \in Conn
  BY <1>2, <1>3, MaxJoinsAssumption DEF Current, Conn
<1> QED
  BY <1>1, <1>2, <1>3 DEF TypeOK

\* A code without a room gets one that nobody holds.
LEMMA FreshRoom ==
    ASSUME NEW s \in Sockets, GetRoom(s), hub[handler[s].code] = None, None \notin RoomHubs
    PROVE  \E r \in RoomHubs \ Held :
              /\ hub' = [hub EXCEPT ![handler[s].code] = r]
              /\ conns' = [conns EXCEPT ![r] = NoConns]
              /\ members' = [members EXCEPT ![r] = NoMembers]
              /\ quiet' = quiet \ {r}
              /\ handler' = [handler EXCEPT ![s].pc = "register", ![s].room = r]
<1>1. RoomHubs \ Held # {}
  BY DEF GetRoom
<1>2. NewRoomHub \in RoomHubs \ Held
  BY <1>1 DEF NewRoomHub
<1> QED
  BY <1>2 DEF GetRoom

\* Every step keeps the types.
LEMMA TypeStep ==
    ASSUME TypeOK, WellPlaced, [Next]_vars PROVE TypeOK'
<1> USE NoneAssumption DEF TypeOK, rooms, net
<1>1. ASSUME NEW s \in Sockets, NEW u \in Users, Accept(s, u) PROVE TypeOK'
  <2>1. 0 \in 0 .. MaxJoins /\ u \in Users \union {None} /\ handler[s] \in Handler
    BY MaxJoinsAssumption
  <2>2. Outside("read", u, 0) \in Handler
    BY <2>1, HandlerUpdates DEF HandlerPc
  <2> QED
    BY <1>1, <2>2 DEF Accept
<1>2. ASSUME NEW s \in Sockets, NEW c \in Codes, Join(s, c) PROVE TypeOK'
  <2>1. [handler[s] EXCEPT !.pc = "get", !.code = c, !.joins = @ + 1] \in Handler
    BY <1>2, HandlerUpdates, Connections DEF HandlerPc, Join
  <2>2. UserOf(s) \in Users
    BY <1>2 DEF Join, WellPlaced, Placed, UserOf
  <2> QED
    BY <1>2, <2>1, <2>2 DEF Join
<1>3. ASSUME NEW s \in Sockets, GetRoom(s) PROVE TypeOK'
  <2>1. ASSUME NEW r \in RoomHubs
        PROVE  [handler EXCEPT ![s].pc = "register", ![s].room = r] \in [Sockets -> Handler]
    <3>1. [handler[s] EXCEPT !.pc = "register", !.room = r] \in Handler
      BY HandlerUpdates, Connections DEF HandlerPc
    <3> QED
      BY <3>1
  <2>2. handler[s].code \in Codes
    BY <1>3 DEF GetRoom, WellPlaced, Placed
  <2>3. CASE hub[handler[s].code] # None
    <3>1. /\ handler' = [handler EXCEPT ![s].pc = "register", ![s].room = hub[handler[s].code]]
          /\ UNCHANGED <<rooms, net, db, sweeper>>
      BY <1>3, <2>3 DEF GetRoom
    <3>2. hub[handler[s].code] \in RoomHubs
      BY <2>2, <2>3
    <3>3. handler' \in [Sockets -> Handler]
      BY <2>1, <3>1, <3>2
    <3> QED
      BY <3>1, <3>3
  <2>4. CASE hub[handler[s].code] = None
    <3>1. PICK r \in RoomHubs :
             /\ hub' = [hub EXCEPT ![handler[s].code] = r]
             /\ conns' = [conns EXCEPT ![r] = NoConns]
             /\ members' = [members EXCEPT ![r] = NoMembers]
             /\ quiet' = quiet \ {r}
             /\ handler' = [handler EXCEPT ![s].pc = "register", ![s].room = r]
      BY <1>3, <2>4, FreshRoom
    <3>2. handler' \in [Sockets -> Handler]
      BY <2>1, <3>1
    <3>3. NoConns \in [Users -> Conn \union {None}] /\ NoMembers \in [Users -> {"absent", "off", "on"}]
      BY DEF NoConns, NoMembers
    <3>4. UNCHANGED <<net, db, sweeper>>
      BY <1>3 DEF GetRoom
    <3> QED
      BY <2>2, <3>1, <3>2, <3>3, <3>4
  <2> QED
    BY <2>3, <2>4
<1>4. ASSUME NEW s \in Sockets, Register(s) PROVE TypeOK'
  <2>1. [handler[s] EXCEPT !.pc = "list"] \in Handler
    BY HandlerUpdates, Connections DEF HandlerPc
  <2>2. Current(s) \in Conn /\ handler[s].room \in RoomHubs /\ UserOf(s) \in Users
    BY <1>4, Connections DEF Register, WellPlaced, Placed, UserOf
  <2>3. \A w \in Conn : w[1] \in Sockets
    BY DEF Conn
  <2>4. closed' \in SUBSET Conn /\ down' \in SUBSET Sockets
    BY <1>4, <2>2, <2>3 DEF Register
  <2>5. conns' \in [RoomHubs -> [Users -> Conn \union {None}]]
    BY <1>4, <2>2 DEF Register
  <2>6. handler' \in [Sockets -> Handler]
    BY <1>4, <2>1 DEF Register, Goto
  <2>7. quiet' \in SUBSET RoomHubs /\ UNCHANGED <<hub, members, idle, db, sweeper>>
    BY <1>4 DEF Register
  <2> QED
    BY <2>4, <2>5, <2>6, <2>7
<1>5. ASSUME NEW s \in Sockets, ListMembers(s) PROVE TypeOK'
  <2>1. handler[s].code \in Codes
    BY <1>5 DEF ListMembers, WellPlaced, Placed
  <2>2. PICK list \in SUBSET db[handler[s].code] :
           handler' = [handler EXCEPT ![s].pc = "upsert", ![s].todo = list, ![s].flag = "off"]
    BY <1>5 DEF ListMembers
  <2>3. [handler[s] EXCEPT !.pc = "upsert", !.todo = list, !.flag = "off"] \in Handler
    BY <2>1, HandlerUpdates, Connections DEF HandlerPc
  <2> QED
    BY <1>5, <2>2, <2>3 DEF ListMembers
<1>6. ASSUME NEW s \in Sockets, NEW u \in Users, UpsertMember(s, u) PROVE TypeOK'
  <2>1. handler[s].todo \ {u} \in SUBSET Users
    BY Connections
  <2> DEFINE D == handler[s].todo \ {u}
  <2>2. handler[s].flag \in {"off", "on"} /\ handler[s].pc \in HandlerPc
    BY DEF Handler, HandlerPc
  <2>3. [handler[s] EXCEPT !.todo = D] \in Handler
    <3> HIDE DEF D
    <3> QED
      BY <2>1, <2>2, HandlerUpdates, Connections DEF D
  <2> QED
    BY <1>6, <2>2, <2>3 DEF UpsertMember
<1>7. ASSUME NEW s \in Sockets, SyncMembers(s) PROVE TypeOK'
  <2>1. [handler[s] EXCEPT !.pc = "broadcast", !.flag = "off"] \in Handler
    BY HandlerUpdates, Connections DEF HandlerPc
  <2> QED
    BY <1>7, <2>1 DEF SyncMembers
<1>8. ASSUME NEW s \in Sockets, SnapshotConns(s) PROVE TypeOK'
  <2>1. Current(s) \in Conn /\ Registered(handler[s].room) \in SUBSET Conn
    BY <1>8, Connections DEF SnapshotConns, WellPlaced, Placed
  <2> DEFINE to == Registered(handler[s].room)
                     \union (IF handler[s].leaving THEN {} ELSE {Current(s)})
  <2>2. to \in SUBSET Conn
    BY <2>1
  <2> HIDE DEF to
  <2>3. [handler[s] EXCEPT !.pc = "send", !.targets = to] \in Handler
    BY <2>2, HandlerUpdates, Connections DEF HandlerPc
  <2>4. handler' = [handler EXCEPT ![s].pc = "send", ![s].targets = to]
    BY <1>8 DEF SnapshotConns, to
  <2>5. handler' \in [Sockets -> Handler]
    BY <2>3, <2>4
  <2>6. UNCHANGED <<rooms, net, db, sweeper>>
    BY <1>8 DEF SnapshotConns
  <2> QED
    BY <2>5, <2>6
<1>9. ASSUME NEW s \in Sockets, SendAll(s) PROVE TypeOK'
  <2>1. \A pc \in {"bye", "read"} : [handler[s] EXCEPT !.pc = pc, !.targets = {}] \in Handler
    BY HandlerUpdates, Connections DEF HandlerPc
  <2>2. handler' \in [Sockets -> Handler]
    BY <1>9, <2>1 DEF SendAll
  <2> QED
    BY <1>9, <2>2 DEF SendAll
<1>10. ASSUME NEW s \in Sockets, SendPanics(s) PROVE TypeOK'
  <2>1. Ended(s) \in Handler
    BY HandlerUpdates, Connections DEF HandlerPc, Ended
  <2> QED
    BY <1>10, <2>1 DEF SendPanics
<1>11. ASSUME NEW s \in Sockets, Ping(s) \/ Answer(s) PROVE TypeOK'
  <2>0. handler[s].joins > 0 => {Current(s)} \in SUBSET Conn
    BY Connections
  <2>1. /\ [handler[s] EXCEPT !.pc = "read", !.targets = {}] \in Handler
        /\ handler[s].joins > 0 =>
              [handler[s] EXCEPT !.pc = "answer", !.targets = {Current(s)}] \in Handler
    BY <2>0, HandlerUpdates, Connections DEF HandlerPc
  <2>2. handler' \in [Sockets -> Handler]
    BY <1>11, <2>1 DEF Ping, Answer
  <2> QED
    BY <1>11, <2>2 DEF Ping, Answer
<1>12. ASSUME NEW s \in Sockets, RoundCommand(s) PROVE TypeOK'
  <2>1. [handler[s] EXCEPT !.pc = "broadcast"] \in Handler
    BY HandlerUpdates, Connections DEF HandlerPc
  <2> QED
    BY <1>12, <2>1 DEF RoundCommand, Goto
<1>13. ASSUME NEW s \in Sockets, ScoreAdd(s) PROVE TypeOK'
  <2>1. PICK list \in SUBSET db[handler[s].code] :
           handler' = [handler EXCEPT ![s].pc = "upsert", ![s].todo = list, ![s].flag = "on"]
    BY <1>13 DEF ScoreAdd
  <2>2. list \in SUBSET Users
    <3>1. handler[s].code \in Codes
      BY <1>13 DEF ScoreAdd, MayCommand, WellPlaced, Placed
    <3> QED
      BY <2>1, <3>1
  <2>3. [handler[s] EXCEPT !.pc = "upsert", !.todo = list, !.flag = "on"] \in Handler
    BY <2>2, HandlerUpdates, Connections DEF HandlerPc
  <2> QED
    BY <1>13, <2>1, <2>3 DEF ScoreAdd
<1>14. ASSUME NEW s \in Sockets, ReadFails(s) PROVE TypeOK'
  <2>1. Ended(s) \in Handler /\ [handler[s] EXCEPT !.pc = "unregister"] \in Handler
    BY HandlerUpdates, Connections DEF HandlerPc, Ended
  <2>2. handler' \in [Sockets -> Handler]
    BY <1>14, <2>1 DEF ReadFails, Goto
  <2> QED
    BY <1>14, <2>2 DEF ReadFails
<1>15. ASSUME NEW s \in Sockets, Unregister(s) PROVE TypeOK'
  <2>1. [handler[s] EXCEPT !.pc = "setoff"] \in Handler
    BY HandlerUpdates, Connections DEF HandlerPc
  <2> QED
    BY <1>15, <2>1 DEF Unregister, Goto
<1>16. ASSUME NEW s \in Sockets, SetConnectedFalse(s) PROVE TypeOK'
  <2>1. [handler[s] EXCEPT !.pc = "broadcast", !.leaving = TRUE] \in Handler
    BY HandlerUpdates, Connections DEF HandlerPc
  <2> QED
    BY <1>16, <2>1 DEF SetConnectedFalse
<1>17. ASSUME NEW s \in Sockets, Bye(s) PROVE TypeOK'
  <2>1. Ended(s) \in Handler
    BY HandlerUpdates, Connections DEF HandlerPc, Ended
  <2>2. Current(s) \in Conn
    BY <1>17, Connections DEF Bye, WellPlaced, Placed
  <2> QED
    BY <1>17, <2>1, <2>2 DEF Bye
<1>18. CASE Tick
  <2> DEFINE T == {<<c, hub[c]>> : c \in {d \in Codes : hub[d] # None}}
  <2>1. T \in SUBSET (Codes \X RoomHubs)
    OBVIOUS
  <2>2. sweeper' = ToVisit("scan", T)
    BY <1>18 DEF Tick
  <2> HIDE DEF T
  <2>3. ToVisit("scan", T) \in Sweeper
    BY <2>1, SweeperUpdates DEF SweeperPc
  <2> QED
    BY <1>18, <2>2, <2>3 DEF Tick
<1>19. CASE Scan
  <2>1. PICK t \in sweeper.todo :
           LET r == t[2]
               swept == Sweepable(r)
               kept == [u \in Users |-> IF conns[r][u] \in swept THEN None ELSE conns[r][u]]
           IN
           /\ conns' = [conns EXCEPT ![r] = kept]
           /\ members' = [members EXCEPT ![r] =
                 [u \in Users |-> IF conns[r][u] \in swept /\ @[u] # "absent" THEN "off" ELSE @[u]]]
           /\ sweeper' = [sweeper EXCEPT
                 !.pc = IF swept = {} THEN "delete" ELSE "close",
                 !.todo = @ \ {t}, !.code = t[1], !.room = r, !.closing = swept,
                 !.empty = (kept = NoConns /\ r \in quiet)]
    BY <1>19 DEF Scan
  <2>2. sweeper.todo \in SUBSET (Codes \X RoomHubs) /\ t[1] \in Codes /\ t[2] \in RoomHubs
    BY DEF Sweeper
  <2>3. conns' \in [RoomHubs -> [Users -> Conn \union {None}]]
    BY <2>1, <2>2
  <2>4. members' \in [RoomHubs -> [Users -> {"absent", "off", "on"}]]
    BY <2>1, <2>2
  <2> DEFINE pc == IF Sweepable(t[2]) = {} THEN "delete" ELSE "close"
             kept == [u \in Users |->
                        IF conns[t[2]][u] \in Sweepable(t[2]) THEN None ELSE conns[t[2]][u]]
             empty == kept = NoConns /\ t[2] \in quiet
  <2>5. sweeper' = [sweeper EXCEPT !.pc = pc, !.todo = @ \ {t}, !.code = t[1], !.room = t[2],
                                   !.closing = Sweepable(t[2]), !.empty = empty]
    BY <2>1
  <2>6. pc \in SweeperPc /\ empty \in BOOLEAN /\ Sweepable(t[2]) \in SUBSET Conn
    BY <2>2, Connections DEF SweeperPc
  <2> HIDE DEF pc, empty
  <2>7. sweeper' \in Sweeper
    BY <2>2, <2>5, <2>6, SweeperUpdates
  <2> QED
    BY <1>19, <2>3, <2>4, <2>7 DEF Scan
<1>20. CASE CloseSwept
  <2>1. [sweeper EXCEPT !.pc = "broadcast", !.closing = {}] \in Sweeper
    BY <1>20, SweeperUpdates, Connections DEF SweeperPc, CloseSwept
  <2>2. sweeper.closing \in SUBSET Conn /\ \A w \in Conn : w[1] \in Sockets
    BY DEF Sweeper, Conn
  <2> QED
    BY <1>20, <2>1, <2>2 DEF CloseSwept
<1>21. CASE SweepSnapshot
  <2>1. [sweeper EXCEPT !.pc = "send", !.targets = Registered(sweeper.room)] \in Sweeper
    BY <1>21, SweeperUpdates, Connections DEF SweeperPc, SweepSnapshot, WellPlaced, Placed
  <2> QED
    BY <1>21, <2>1 DEF SweepSnapshot
<1>22. CASE SweepSend
  <2>1. [sweeper EXCEPT !.pc = "delete", !.targets = {}] \in Sweeper
    BY <1>22, SweeperUpdates, Connections DEF SweeperPc, SweepSend
  <2> QED
    BY <1>22, <2>1 DEF SweepSend
<1>23. CASE SweepPanics
  <2>1. \A s \in Sockets : Ended(s) \in Handler
    BY HandlerUpdates, Connections DEF HandlerPc, Ended
  <2>2. Waiting \in Sweeper
    BY SweeperUpdates DEF SweeperPc, Waiting
  <2> QED
    BY <1>23, <2>1, <2>2 DEF SweepPanics, NoConns, NoMembers
<1>24. CASE CheckEmpty \/ DropRoom
  <2>1. sweeper.todo \in SUBSET (Codes \X RoomHubs)
    BY DEF Sweeper
  <2>2. NextRoom \in Sweeper /\ [sweeper EXCEPT !.pc = "drop"] \in Sweeper
    BY <2>1, SweeperUpdates DEF SweeperPc, NextRoom, Waiting
  <2> QED
    BY <1>24, <2>2 DEF CheckEmpty, DropRoom
<1>25. ASSUME NEW w \in Conn, ConnGoesIdle(w) \/ WriteFails(w) PROVE TypeOK'
  <2>1. w[1] \in Sockets
    BY DEF Conn
  <2> QED
    BY <1>25, <2>1 DEF ConnGoesIdle, WriteFails
<1>26. ASSUME NEW r \in RoomHubs, RoomGoesQuiet(r) PROVE TypeOK'
  BY <1>26 DEF RoomGoesQuiet
<1>27. CASE UNCHANGED vars
  BY <1>27 DEF vars
<1> HIDE DEF TypeOK
<1> QED
  BY <1>1, <1>2, <1>3, <1>4, <1>5, <1>6, <1>7, <1>8, <1>9, <1>10, <1>11, <1>12, <1>13, <1>14, <1>15, <1>16, <1>17, <1>18, <1>19, <1>20, <1>21, <1>22, <1>23, <1>24, <1>25, <1>26, <1>27
     DEF Next, HandlerStep, ClientStep, SweeperStep

\* The invariants of the room's maps survive a step that leaves both maps alone, keeps
\* every handler that has something to correct where it is, and lets no handler begin to
\* serve its client.
MapsInv ==
    /\ OwnConns /\ LeftBeforeOff
    /\ NoPhantomMember /\ OneSocketIsRegistered /\ RegisteredIsShown

Onward(t) ==
    /\ handler[t].user # None => handler'[t].user = handler[t].user
    /\ handler[t].joins <= handler'[t].joins
    /\ handler[t].pc \in {"upsert", "setoff"} =>
          handler'[t].pc = handler[t].pc /\ handler'[t].room = handler[t].room
    /\ handler[t].pc = "list" =>
          handler'[t].pc \in {"list", "upsert"} /\ handler'[t].room = handler[t].room
    /\ handler'[t].pc = "setoff" => handler[t].pc = "setoff"
    /\ Serving(t)' => /\ Serving(t) /\ handler'[t].room = handler[t].room
                      /\ handler'[t].joins = handler[t].joins
\* The conjuncts about connections do not look at the members.
LEMMA MapsElsewhere ==
    ASSUME TypeOK, WellPlaced, MapsInv, TypeOK', WellPlaced', conns' = conns,
           \A t \in Sockets :
              /\ handler[t].user # None => handler'[t].user = handler[t].user
              /\ handler[t].joins <= handler'[t].joins
              /\ handler[t].pc = "setoff" => handler'[t].room = handler[t].room
              /\ handler'[t].pc = "setoff" => handler[t].pc = "setoff"
              /\ Serving(t)' => /\ Serving(t) /\ handler'[t].room = handler[t].room
                                /\ handler'[t].joins = handler[t].joins
    PROVE  OwnConns' /\ LeftBeforeOff' /\ OneSocketIsRegistered'
<1> USE NoneAssumption
<1>1. \A u \in Users : OneSocket(u)' => OneSocket(u)
  BY DEF OneSocket, UserOf
<1>2. \A t \in Sockets : handler[t].pc # "off" => handler[t].user \in Users /\ UserOf(t)' = UserOf(t)
  BY DEF WellPlaced, Placed, UserOf
<1>3. OwnConns'
  <2> SUFFICES ASSUME NEW r \in RoomHubs, NEW u \in Users, conns[r][u] # None
               PROVE  /\ UserOf(conns[r][u][1])' = u
                      /\ conns[r][u][2] <= handler'[conns[r][u][1]].joins
    BY DEF OwnConns
  <2> DEFINE w == conns[r][u]
  <2>1. w[1] \in Sockets /\ w[2] \in Nat /\ UserOf(w[1]) = u /\ w[2] <= handler[w[1]].joins
    BY DEF TypeOK, OwnConns, MapsInv, Conn
  <2>2. handler[w[1]].joins \in Nat /\ handler'[w[1]].joins \in Nat
    BY <2>1 DEF TypeOK, Handler
  <2> QED
    BY <2>1, <2>2 DEF UserOf
<1>4. LeftBeforeOff'
  BY <1>1, <1>2 DEF LeftBeforeOff, MapsInv, WellPlaced, Placed, UserOf
<1>5. OneSocketIsRegistered'
  <2> SUFFICES ASSUME NEW s \in Sockets, OneSocket(UserOf(s))', Serving(s)'
               PROVE  (conns[handler[s].room][UserOf(s)] = Current(s))'
    BY DEF OneSocketIsRegistered
  <2>1. Serving(s) /\ handler'[s].room = handler[s].room /\ handler'[s].joins = handler[s].joins
    OBVIOUS
  <2>2. UserOf(s)' = UserOf(s) /\ UserOf(s) \in Users
    BY <1>2, <2>1 DEF Serving, UserOf
  <2>3. conns[handler[s].room][UserOf(s)] = Current(s)
    BY <1>1, <2>1, <2>2 DEF MapsInv, OneSocketIsRegistered
  <2> QED
    BY <2>1, <2>2, <2>3 DEF Current, UserOf
<1> QED
  BY <1>3, <1>4, <1>5

LEMMA MapsUntouched ==
    ASSUME TypeOK, WellPlaced, MapsInv, TypeOK', WellPlaced',
           conns' = conns, members' = members,
           \A t \in Sockets : Onward(t)
    PROVE  MapsInv'
<1> USE NoneAssumption
<1>1. OwnConns' /\ LeftBeforeOff' /\ OneSocketIsRegistered'
  BY MapsElsewhere DEF Onward
<1>2. \A u \in Users : OneSocket(u)' => OneSocket(u)
  BY DEF OneSocket, UserOf, Onward
<1>3. \A t \in Sockets : handler[t].pc # "off" => UserOf(t)' = UserOf(t)
  BY DEF WellPlaced, Placed, UserOf, Onward
<1>4. NoPhantomMember'
  BY <1>3 DEF NoPhantomMember, Correcting, MapsInv, Onward, UserOf
<1>5. RegisteredIsShown'
  BY <1>2 DEF RegisteredIsShown, Recomputing, MapsInv, Onward
<1> QED
  BY <1>1, <1>4, <1>5 DEF MapsInv

\* What one handler does on its own: the others stay as they are.
Others(s) == \A t \in Sockets \ {s} : handler'[t] = handler[t]

LEMMA OthersStay ==
    ASSUME TypeOK, WellPlaced, TypeOK', NEW s \in Sockets, Others(s),
           sweeper' = sweeper, down \subseteq down', Placed(s)'
    PROVE  WellPlaced' /\ \A t \in Sockets \ {s} : Onward(t)
<1>1. WellPlaced'
  BY DEF WellPlaced, Placed, Others
<1>2. ASSUME NEW t \in Sockets \ {s} PROVE Onward(t)
  <2>1. handler'[t] = handler[t] /\ handler[t].joins \in Nat
    BY MaxJoinsAssumption DEF Others, TypeOK, Handler
  <2> QED
    BY <2>1 DEF Onward, Serving, Current
<1> QED
  BY <1>1, <1>2

LEMMA OneMoves ==
    ASSUME TypeOK, WellPlaced, MapsInv, TypeOK', NEW s \in Sockets, Others(s),
           sweeper' = sweeper, down \subseteq down', conns' = conns, members' = members,
           Placed(s)', Onward(s)
    PROVE  WellPlaced' /\ MapsInv'
  BY OthersStay, MapsUntouched

LEMMA HandlersStay ==
    ASSUME TypeOK, WellPlaced, MapsInv, TypeOK', handler' = handler,
           conns' = conns, members' = members, down \subseteq down',
           \A s \in Sockets : Current(s) \in sweeper.closing =>
              Current(s) \in sweeper'.closing \/ s \in down',
           sweeper'.pc \notin {"wait", "scan"} =>
              sweeper'.room \in RoomHubs /\ sweeper'.code \in Codes,
           sweeper'.pc # "close" => sweeper'.closing = {}
    PROVE  WellPlaced' /\ MapsInv'
<1>1. WellPlaced'
  BY DEF WellPlaced, Placed
<1>2. ASSUME NEW t \in Sockets PROVE Onward(t)
  <2>1. handler[t].joins \in Nat
    BY MaxJoinsAssumption DEF TypeOK, Handler
  <2> QED
    BY <2>1 DEF Onward, Serving, Current
<1> QED
  BY <1>1, <1>2, MapsUntouched

\* Handlers keep their users and connections.
LEMMA UsersStay ==
    ASSUME TypeOK, NEW s \in Sockets, Others(s),
           handler'[s].user = handler[s].user, handler'[s].joins = handler[s].joins
    PROVE  /\ \A t \in Sockets : UserOf(t)' = UserOf(t) /\ Current(t)' = Current(t)
           /\ \A u \in Users : OneSocket(u)' = OneSocket(u)
           /\ \A t \in Sockets : handler'[t].joins = handler[t].joins
           /\ \A w \in Conn : w[1] \in Sockets
<1>1. \A t \in Sockets : handler'[t].user = handler[t].user /\ handler'[t].joins = handler[t].joins
  BY DEF Others
<1> QED
  BY <1>1 DEF UserOf, Current, OneSocket, Conn

\* An entry is kept, removed or replaced by its user's current connection.
LEMMA OwnConnsKept ==
    ASSUME TypeOK, OwnConns, TypeOK',
           \A t \in Sockets : handler'[t].user = handler[t].user /\ handler'[t].joins = handler[t].joins,
           \A r \in RoomHubs, u \in Users :
              \/ conns'[r][u] \in {conns[r][u], None}
              \/ \E s \in Sockets : UserOf(s) = u /\ conns'[r][u] = Current(s)
    PROVE  OwnConns'
<1> SUFFICES ASSUME NEW r \in RoomHubs, NEW u \in Users, conns'[r][u] # None
             PROVE  /\ handler'[conns'[r][u][1]].user = u
                    /\ conns'[r][u][2] <= handler'[conns'[r][u][1]].joins
  BY DEF OwnConns, UserOf
<1>1. CASE conns'[r][u] = conns[r][u]
  <2>1. conns[r][u] \in Conn
    BY <1>1 DEF TypeOK
  <2> QED
    BY <1>1, <2>1 DEF OwnConns, UserOf, Conn
<1>2. ASSUME NEW s \in Sockets, UserOf(s) = u, conns'[r][u] = Current(s)
      PROVE  /\ handler'[conns'[r][u][1]].user = u
             /\ conns'[r][u][2] <= handler'[conns'[r][u][1]].joins
  <2>1. handler[s].joins \in Nat
    BY MaxJoinsAssumption DEF TypeOK, Handler
  <2> QED
    BY <1>2, <2>1 DEF Current, UserOf
<1> QED
  BY <1>1, <1>2

\* A fresh room object is empty, and nobody was in it.
LEMMA GetRoomStep ==
    ASSUME TypeOK, WellPlaced, MapsInv, TypeOK', NEW s \in Sockets, GetRoom(s)
    PROVE  WellPlaced' /\ MapsInv'
<1> USE NoneAssumption DEF rooms, net
<1>1. /\ handler[s].pc = "get" /\ handler[s].code \in Codes
      /\ handler[s] \in Handler /\ sweeper' = sweeper /\ down' = down
  BY DEF GetRoom, WellPlaced, Placed, TypeOK
<1>2. ASSUME NEW r \in RoomHubs,
             handler' = [handler EXCEPT ![s].pc = "register", ![s].room = r]
      PROVE  /\ Others(s)
             /\ handler'[s].pc = "register" /\ handler'[s].room = r
             /\ handler'[s].user = handler[s].user /\ handler'[s].joins = handler[s].joins
             /\ Placed(s)' /\ Onward(s)
  <2>1. /\ Others(s)
        /\ handler'[s].pc = "register" /\ handler'[s].room = r
        /\ handler'[s].user = handler[s].user /\ handler'[s].joins = handler[s].joins
        /\ handler'[s].code = handler[s].code /\ handler[s].joins \in Nat
    BY <1>1, <1>2, MaxJoinsAssumption DEF Others, TypeOK, Handler
  <2> QED
    BY <1>1, <2>1 DEF Placed, WellPlaced, Onward, Serving
<1>3. CASE hub[handler[s].code] # None
  <2>1. hub[handler[s].code] \in RoomHubs
    BY <1>1, <1>3 DEF TypeOK
  <2> QED
    BY <1>1, <1>2, <1>3, <2>1, OneMoves DEF GetRoom
<1>4. CASE hub[handler[s].code] = None
  <2>1. PICK r \in RoomHubs \ Held :
           /\ conns' = [conns EXCEPT ![r] = NoConns]
           /\ members' = [members EXCEPT ![r] = NoMembers]
           /\ handler' = [handler EXCEPT ![s].pc = "register", ![s].room = r]
    BY <1>4, FreshRoom
  <2>2. /\ Others(s) /\ Placed(s)' /\ Onward(s)
        /\ handler'[s].pc = "register" /\ handler'[s].room = r
        /\ handler'[s].user = handler[s].user /\ handler'[s].joins = handler[s].joins
    BY <1>2, <2>1
  <2>3. WellPlaced' /\ \A t \in Sockets \ {s} : Onward(t)
    BY <1>1, <2>2, OthersStay
  <2>4. /\ \A t \in Sockets : UserOf(t)' = UserOf(t) /\ Current(t)' = Current(t)
        /\ \A u \in Users : OneSocket(u)' = OneSocket(u)
        /\ \A t \in Sockets : handler'[t].joins = handler[t].joins
        /\ \A w \in Conn : w[1] \in Sockets
    BY <2>2, UsersStay
  <2>5. \A t \in Sockets : handler[t].room # r
    BY DEF Held
  <2>6. /\ \A q \in RoomHubs \ {r} : conns'[q] = conns[q] /\ members'[q] = members[q]
        /\ \A u \in Users : conns'[r][u] = None /\ members'[r][u] = "absent"
    BY <2>1 DEF TypeOK, NoConns, NoMembers
  <2>7. OwnConns'
    BY <2>4, <2>6, OwnConnsKept DEF MapsInv, UserOf
  <2>8. LeftBeforeOff'
    <3> SUFFICES ASSUME NEW t \in Sockets, handler'[t].pc = "setoff", OneSocket(UserOf(t))'
                 PROVE  conns'[handler'[t].room][UserOf(t)'] = None
      BY DEF LeftBeforeOff
    <3>1. t # s /\ handler'[t] = handler[t] /\ UserOf(t) \in Users /\ handler[t].room \in RoomHubs
      BY <2>2 DEF Others, WellPlaced, Placed, UserOf
    <3> QED
      BY <2>4, <2>5, <2>6, <3>1 DEF LeftBeforeOff, MapsInv
  <2>9. NoPhantomMember'
    BY <2>2, <2>4, <2>6, <1>1 DEF NoPhantomMember, Correcting, MapsInv, Others
  <2>10. OneSocketIsRegistered'
    <3> SUFFICES ASSUME NEW t \in Sockets, OneSocket(UserOf(t))', Serving(t)'
                 PROVE  conns'[handler'[t].room][UserOf(t)'] = Current(t)'
      BY DEF OneSocketIsRegistered
    <3>1. t # s /\ handler'[t] = handler[t] /\ UserOf(t) \in Users /\ handler[t].room # r
      BY <2>2, <2>5 DEF Others, WellPlaced, Placed, UserOf, Serving
    <3>2. Serving(t) /\ handler[t].room \in RoomHubs
      BY <2>3, <3>1 DEF Onward, Serving, TypeOK, Handler
    <3> QED
      BY <2>4, <2>6, <3>1, <3>2 DEF OneSocketIsRegistered, MapsInv
  <2>11. RegisteredIsShown'
    BY <2>2, <2>4, <2>6, <1>1 DEF RegisteredIsShown, Recomputing, MapsInv, Others
  <2> QED
    BY <2>3, <2>7, <2>8, <2>9, <2>10, <2>11 DEF MapsInv
<1> QED
  BY <1>3, <1>4

\* The user's entry becomes the new connection; nobody else's changes.
LEMMA RegisterStep ==
    ASSUME TypeOK, WellPlaced, MapsInv, TypeOK', NEW s \in Sockets, Register(s)
    PROVE  WellPlaced' /\ MapsInv'
<1> USE NoneAssumption DEF rooms, net
<1> DEFINE r == handler[s].room
<1>1. /\ handler[s].pc = "register" /\ r \in RoomHubs /\ UserOf(s) \in Users
      /\ sweeper' = sweeper /\ down \subseteq down' /\ members' = members
      /\ handler[s].joins \in Nat /\ Current(s) # None
  BY MaxJoinsAssumption DEF Register, WellPlaced, Placed, UserOf, TypeOK, Handler, Current
<1>2. /\ Others(s)
      /\ handler'[s].pc = "list" /\ handler'[s].room = r
      /\ handler'[s].user = handler[s].user /\ handler'[s].joins = handler[s].joins
      /\ handler'[s].code = handler[s].code
  BY DEF Register, Goto, Others, TypeOK, Handler
<1>3. Placed(s)'
  BY <1>1, <1>2 DEF Placed, WellPlaced, UserOf
<1>4. WellPlaced' /\ \A t \in Sockets \ {s} : Onward(t)
  BY <1>1, <1>2, <1>3, OthersStay
<1>5. /\ \A t \in Sockets : UserOf(t)' = UserOf(t) /\ Current(t)' = Current(t)
      /\ \A u \in Users : OneSocket(u)' = OneSocket(u)
      /\ \A t \in Sockets : handler'[t].joins = handler[t].joins
      /\ \A w \in Conn : w[1] \in Sockets
  BY <1>2, UsersStay
<1>6. /\ conns'[r][UserOf(s)] = Current(s)
      /\ \A q \in RoomHubs, u \in Users :
            q # r \/ u # UserOf(s) => conns'[q][u] = conns[q][u]
  BY <1>1 DEF Register, TypeOK
<1>7. OwnConns'
  BY <1>5, <1>6, OwnConnsKept DEF MapsInv, UserOf
<1>8. LeftBeforeOff'
  <2> SUFFICES ASSUME NEW t \in Sockets, handler'[t].pc = "setoff", OneSocket(UserOf(t))'
               PROVE  conns'[handler'[t].room][UserOf(t)'] = None
    BY DEF LeftBeforeOff
  <2>1. t # s /\ handler'[t] = handler[t] /\ UserOf(t) \in Users /\ handler[t].room \in RoomHubs
    BY <1>2 DEF Others, WellPlaced, Placed, UserOf
  <2>2. UserOf(t) # UserOf(s)
    BY <1>5, <2>1 DEF OneSocket
  <2> QED
    BY <1>5, <1>6, <2>1, <2>2 DEF LeftBeforeOff, MapsInv
<1>9. NoPhantomMember'
  BY <1>1, <1>2, <1>5, <1>6 DEF NoPhantomMember, Correcting, MapsInv, Others
<1>10. OneSocketIsRegistered'
  <2> SUFFICES ASSUME NEW t \in Sockets, OneSocket(UserOf(t))', Serving(t)'
               PROVE  conns'[handler'[t].room][UserOf(t)'] = Current(t)'
    BY DEF OneSocketIsRegistered
  <2>1. CASE t = s
    BY <1>2, <1>5, <1>6, <2>1
  <2>2. CASE t # s
    <3>1. handler'[t] = handler[t] /\ Serving(t)
      BY <1>2, <1>4, <2>2 DEF Others, Onward
    <3>2. UserOf(t) \in Users /\ UserOf(t) # UserOf(s) /\ handler[t].room \in RoomHubs
      BY <1>5, <2>2, <3>1 DEF OneSocket, WellPlaced, Placed, UserOf, Serving, TypeOK, Handler
    <3> QED
      BY <1>5, <1>6, <3>1, <3>2 DEF OneSocketIsRegistered, MapsInv
  <2> QED
    BY <2>1, <2>2
<1>11. RegisteredIsShown'
  <2> SUFFICES ASSUME NEW q \in RoomHubs, NEW u \in Users,
                      OneSocket(u)', conns'[q][u] # None, members'[q][u] = "off"
               PROVE  \E t \in Sockets : Recomputing(t, q)'
    BY DEF RegisteredIsShown
  <2>1. CASE q = r /\ u = UserOf(s)
    BY <1>2, <2>1 DEF Recomputing
  <2>2. CASE q # r \/ u # UserOf(s)
    BY <1>1, <1>2, <1>5, <1>6, <2>2 DEF RegisteredIsShown, Recomputing, MapsInv, Others
  <2> QED
    BY <2>1, <2>2
<1> QED
  BY <1>4, <1>7, <1>8, <1>9, <1>10, <1>11 DEF MapsInv

\* What is upserted is corrected before the handler goes on.
LEMMA UpsertMemberStep ==
    ASSUME TypeOK, WellPlaced, MapsInv, TypeOK',
           NEW s \in Sockets, NEW u \in Users, UpsertMember(s, u)
    PROVE  WellPlaced' /\ MapsInv'
<1> USE NoneAssumption DEF rooms, net
<1>1. /\ handler[s].pc = "upsert" /\ handler[s].room \in RoomHubs
      /\ UNCHANGED <<conns, sweeper, down>> /\ handler[s].joins \in Nat
  BY MaxJoinsAssumption DEF UpsertMember, WellPlaced, Placed, TypeOK, Handler
<1>2. /\ Others(s)
      /\ handler'[s].pc = "upsert" /\ handler'[s].room = handler[s].room
      /\ handler'[s].user = handler[s].user /\ handler'[s].joins = handler[s].joins
      /\ handler'[s].code = handler[s].code /\ handler'[s].leaving = handler[s].leaving
  BY <1>1 DEF UpsertMember, Others, TypeOK, Handler
<1>3. Placed(s)' /\ Onward(s)
  BY <1>1, <1>2 DEF Placed, WellPlaced, Onward, Serving, Current
<1>4. WellPlaced' /\ \A t \in Sockets : Onward(t)
  BY <1>1, <1>2, <1>3, OthersStay
<1>5. /\ \A t \in Sockets : UserOf(t)' = UserOf(t)
      /\ \A v \in Users : OneSocket(v)' = OneSocket(v)
  BY <1>2, UsersStay
<1>6. \A q \in RoomHubs, v \in Users :
         q # handler[s].room => members'[q][v] = members[q][v]
  BY <1>1 DEF UpsertMember, TypeOK
<1>7. OwnConns' /\ LeftBeforeOff' /\ OneSocketIsRegistered'
  BY <1>1, <1>4, MapsElsewhere DEF Onward
<1>8. NoPhantomMember'
  BY <1>1, <1>2, <1>5, <1>6 DEF NoPhantomMember, Correcting, MapsInv, Others
<1>9. RegisteredIsShown'
  BY <1>1, <1>2, <1>5, <1>6 DEF RegisteredIsShown, Recomputing, MapsInv, Others
<1> QED
  BY <1>4, <1>7, <1>8, <1>9 DEF MapsInv

\* After the recomputation the members of the room are shown as they are.
LEMMA SyncMembersStep ==
    ASSUME TypeOK, WellPlaced, MapsInv, TypeOK', NEW s \in Sockets, SyncMembers(s)
    PROVE  WellPlaced' /\ MapsInv'
<1> USE NoneAssumption DEF rooms, net
<1>1. /\ handler[s].pc = "upsert" /\ handler[s].room \in RoomHubs
      /\ UNCHANGED <<conns, sweeper, down>> /\ handler[s].joins \in Nat
  BY MaxJoinsAssumption DEF SyncMembers, WellPlaced, Placed, TypeOK, Handler
<1>2. /\ Others(s)
      /\ handler'[s].pc = "broadcast" /\ handler'[s].room = handler[s].room
      /\ handler'[s].user = handler[s].user /\ handler'[s].joins = handler[s].joins
      /\ handler'[s].code = handler[s].code /\ handler'[s].leaving = handler[s].leaving
  BY <1>1 DEF SyncMembers, Others, TypeOK, Handler
<1>3. Placed(s)' /\ (Serving(s)' => Serving(s))
  BY <1>1, <1>2 DEF Placed, WellPlaced, Serving, Current
<1>4. WellPlaced' /\ \A t \in Sockets \ {s} : Onward(t)
  BY <1>1, <1>2, <1>3, OthersStay
<1>5. /\ \A t \in Sockets : UserOf(t)' = UserOf(t)
      /\ \A v \in Users : OneSocket(v)' = OneSocket(v)
  BY <1>2, UsersStay
<1>6. \A q \in RoomHubs, v \in Users :
         /\ q # handler[s].room => members'[q][v] = members[q][v]
         /\ q = handler[s].room =>
               /\ members'[q][v] = "on" => conns[q][v] # None
               /\ members'[q][v] = "off" => conns[q][v] = None
  BY <1>1 DEF SyncMembers, TypeOK
<1>7. OwnConns' /\ LeftBeforeOff' /\ OneSocketIsRegistered'
  BY <1>1, <1>2, <1>3, <1>4, MapsElsewhere DEF Others, Onward
<1>8. NoPhantomMember'
  <2> SUFFICES ASSUME NEW q \in RoomHubs, NEW v \in Users,
                      members'[q][v] = "on", conns'[q][v] = None
               PROVE  \E t \in Sockets : Correcting(t, q, v)'
    BY DEF NoPhantomMember
  <2>0. conns[q][v] = None
    BY <1>1
  <2>1. q # handler[s].room /\ members[q][v] = "on" /\ conns[q][v] = None
    <3>1. q # handler[s].room
      BY <1>6, <2>0
    <3> QED
      BY <1>6, <2>0, <3>1
  <2>2. PICK t \in Sockets : Correcting(t, q, v)
    BY <2>1 DEF NoPhantomMember, MapsInv
  <2> QED
    BY <1>1, <1>2, <1>5, <2>1, <2>2 DEF Correcting, Others
<1>9. RegisteredIsShown'
  BY <1>1, <1>2, <1>5, <1>6 DEF RegisteredIsShown, Recomputing, MapsInv, Others
<1> QED
  BY <1>4, <1>7, <1>8, <1>9 DEF MapsInv

\* The user's entry is removed and the handler is about to show it.
LEMMA UnregisterStep ==
    ASSUME TypeOK, WellPlaced, MapsInv, TypeOK', NEW s \in Sockets, Unregister(s)
    PROVE  WellPlaced' /\ MapsInv'
<1> USE NoneAssumption DEF rooms, net
<1> DEFINE r == handler[s].room
<1>1. /\ handler[s].pc = "unregister" /\ r \in RoomHubs /\ UserOf(s) \in Users
      /\ UNCHANGED <<members, sweeper, down>>
  BY DEF Unregister, WellPlaced, Placed, UserOf
<1>2. /\ Others(s)
      /\ handler'[s].pc = "setoff" /\ handler'[s].room = r
      /\ handler'[s].user = handler[s].user /\ handler'[s].joins = handler[s].joins
      /\ handler'[s].code = handler[s].code
  BY DEF Unregister, Goto, Others, TypeOK, Handler
<1>3. Placed(s)'
  BY <1>1, <1>2 DEF Placed, WellPlaced, UserOf
<1>4. WellPlaced' /\ \A t \in Sockets \ {s} : Onward(t)
  BY <1>1, <1>2, <1>3, OthersStay
<1>5. /\ \A t \in Sockets : UserOf(t)' = UserOf(t) /\ Current(t)' = Current(t)
      /\ \A u \in Users : OneSocket(u)' = OneSocket(u)
      /\ \A t \in Sockets : handler'[t].joins = handler[t].joins
  BY <1>2, UsersStay
<1>6. /\ conns'[r][UserOf(s)] = None
      /\ \A q \in RoomHubs, u \in Users :
            q # r \/ u # UserOf(s) => conns'[q][u] = conns[q][u]
  BY <1>1 DEF Unregister, TypeOK
<1>7. OwnConns'
  BY <1>5, <1>6, OwnConnsKept DEF MapsInv, UserOf
<1>8. LeftBeforeOff'
  <2> SUFFICES ASSUME NEW t \in Sockets, handler'[t].pc = "setoff", OneSocket(UserOf(t))'
               PROVE  conns'[handler'[t].room][UserOf(t)'] = None
    BY DEF LeftBeforeOff
  <2>1. CASE t = s
    BY <1>2, <1>5, <1>6, <2>1
  <2>2. CASE t # s
    <3>1. handler'[t] = handler[t] /\ UserOf(t) \in Users /\ handler[t].room \in RoomHubs
      BY <2>2, <1>2 DEF Others, WellPlaced, Placed, UserOf
    <3>2. UserOf(t) # UserOf(s)
      BY <1>5, <2>2, <3>1 DEF OneSocket
    <3> QED
      BY <1>5, <1>6, <3>1, <3>2 DEF LeftBeforeOff, MapsInv
  <2> QED
    BY <2>1, <2>2
<1>9. NoPhantomMember'
  <2> SUFFICES ASSUME NEW q \in RoomHubs, NEW v \in Users,
                      members'[q][v] = "on", conns'[q][v] = None
               PROVE  \E t \in Sockets : Correcting(t, q, v)'
    BY DEF NoPhantomMember
  <2>1. CASE q = r /\ v = UserOf(s)
    BY <1>2, <1>5, <2>1 DEF Correcting
  <2>2. CASE q # r \/ v # UserOf(s)
    <3>1. members[q][v] = "on" /\ conns[q][v] = None
      BY <1>1, <1>6, <2>2
    <3>2. PICK t \in Sockets : Correcting(t, q, v)
      BY <3>1 DEF NoPhantomMember, MapsInv
    <3> QED
      BY <1>1, <1>2, <1>5, <3>2 DEF Correcting, Others
  <2> QED
    BY <2>1, <2>2
<1>10. OneSocketIsRegistered'
  <2> SUFFICES ASSUME NEW t \in Sockets, OneSocket(UserOf(t))', Serving(t)'
               PROVE  conns'[handler'[t].room][UserOf(t)'] = Current(t)'
    BY DEF OneSocketIsRegistered
  <2>1. t # s
    BY <1>2 DEF Serving
  <2>2. handler'[t] = handler[t] /\ Serving(t)
    BY <1>2, <1>4, <2>1 DEF Others, Onward
  <2>3. UserOf(t) \in Users /\ UserOf(t) # UserOf(s) /\ handler[t].room \in RoomHubs
    BY <1>5, <2>1, <2>2 DEF OneSocket, WellPlaced, Placed, UserOf, Serving, TypeOK, Handler
  <2> QED
    BY <1>5, <1>6, <2>2, <2>3 DEF OneSocketIsRegistered, MapsInv
<1>11. RegisteredIsShown'
  BY <1>1, <1>2, <1>5, <1>6 DEF RegisteredIsShown, Recomputing, MapsInv, Others
<1> QED
  BY <1>4, <1>7, <1>8, <1>9, <1>10, <1>11 DEF MapsInv

\* The member is shown as gone; the only socket of its user has left the room.
LEMMA SetConnectedFalseStep ==
    ASSUME TypeOK, WellPlaced, MapsInv, TypeOK', NEW s \in Sockets, SetConnectedFalse(s)
    PROVE  WellPlaced' /\ MapsInv'
<1> USE NoneAssumption DEF rooms, net
<1> DEFINE r == handler[s].room
<1>1. /\ handler[s].pc = "setoff" /\ r \in RoomHubs /\ UserOf(s) \in Users
      /\ UNCHANGED <<conns, sweeper, down>> /\ handler[s].joins \in Nat
  BY MaxJoinsAssumption DEF SetConnectedFalse, WellPlaced, Placed, UserOf, TypeOK, Handler
<1>2. /\ Others(s)
      /\ handler'[s].pc = "broadcast" /\ handler'[s].room = r /\ handler'[s].leaving
      /\ handler'[s].user = handler[s].user /\ handler'[s].joins = handler[s].joins
      /\ handler'[s].code = handler[s].code
  BY DEF SetConnectedFalse, Others, TypeOK, Handler
<1>3. Placed(s)' /\ ~Serving(s)'
  BY <1>1, <1>2 DEF Placed, WellPlaced, UserOf, Serving
<1>4. WellPlaced' /\ \A t \in Sockets \ {s} : Onward(t)
  BY <1>1, <1>2, <1>3, OthersStay
<1>5. /\ \A t \in Sockets : UserOf(t)' = UserOf(t)
      /\ \A v \in Users : OneSocket(v)' = OneSocket(v)
  BY <1>2, UsersStay
<1>6. \A q \in RoomHubs, v \in Users :
         /\ q # r \/ v # UserOf(s) => members'[q][v] = members[q][v]
         /\ q = r /\ v = UserOf(s) => members'[q][v] # "on"
  BY <1>1 DEF SetConnectedFalse, TypeOK
<1>7. OwnConns' /\ LeftBeforeOff' /\ OneSocketIsRegistered'
  BY <1>1, <1>2, <1>3, <1>4, MapsElsewhere DEF Others, Onward
<1>8. NoPhantomMember'
  <2> SUFFICES ASSUME NEW q \in RoomHubs, NEW v \in Users,
                      members'[q][v] = "on", conns'[q][v] = None
               PROVE  \E t \in Sockets : Correcting(t, q, v)'
    BY DEF NoPhantomMember
  <2>1. (q # r \/ v # UserOf(s)) /\ members[q][v] = "on" /\ conns[q][v] = None
    BY <1>1, <1>6
  <2>2. PICK t \in Sockets : Correcting(t, q, v)
    BY <2>1 DEF NoPhantomMember, MapsInv
  <2> QED
    BY <1>1, <1>2, <1>5, <2>1, <2>2 DEF Correcting, Others
<1>9. RegisteredIsShown'
  <2> SUFFICES ASSUME NEW q \in RoomHubs, NEW v \in Users,
                      OneSocket(v)', conns'[q][v] # None, members'[q][v] = "off"
               PROVE  \E t \in Sockets : Recomputing(t, q)'
    BY DEF RegisteredIsShown
  <2>1. q # r \/ v # UserOf(s)
    BY <1>1, <1>5 DEF LeftBeforeOff, MapsInv
  <2>2. PICK t \in Sockets : Recomputing(t, q)
    BY <1>1, <1>5, <1>6, <2>1 DEF RegisteredIsShown, MapsInv
  <2> QED
    BY <1>1, <1>2, <2>2 DEF Recomputing, Others
<1> QED
  BY <1>4, <1>7, <1>8, <1>9 DEF MapsInv

\* What is swept leaves both maps at once, and its handlers are not served any more.
LEMMA ScanStep ==
    ASSUME TypeOK, WellPlaced, MapsInv, TypeOK', Scan
    PROVE  WellPlaced' /\ MapsInv'
<1> USE NoneAssumption DEF rooms, net
<1>1. sweeper.pc = "scan" /\ sweeper.closing = {} /\ UNCHANGED <<handler, down>>
  BY DEF Scan, WellPlaced
<1>2. PICK t \in sweeper.todo :
         LET r == t[2]
             swept == Sweepable(r)
             kept == [u \in Users |-> IF conns[r][u] \in swept THEN None ELSE conns[r][u]]
         IN
         /\ conns' = [conns EXCEPT ![r] = kept]
         /\ members' = [members EXCEPT ![r] =
               [u \in Users |-> IF conns[r][u] \in swept /\ @[u] # "absent" THEN "off" ELSE @[u]]]
         /\ sweeper' = [sweeper EXCEPT
               !.pc = IF swept = {} THEN "delete" ELSE "close",
               !.todo = @ \ {t}, !.code = t[1], !.room = r, !.closing = swept,
               !.empty = (kept = NoConns /\ r \in quiet)]
  BY DEF Scan
<1> DEFINE r == t[2]
           swept == Sweepable(r)
<1>3. t[1] \in Codes /\ r \in RoomHubs
  BY DEF TypeOK, Sweeper
<1>4. /\ sweeper'.pc = (IF swept = {} THEN "delete" ELSE "close")
      /\ sweeper'.room = r /\ sweeper'.code = t[1] /\ sweeper'.closing = swept
  <2> DEFINE kept == [u \in Users |-> IF conns[r][u] \in swept THEN None ELSE conns[r][u]]
             empty == kept = NoConns /\ r \in quiet
  <2>1. sweeper' = [sweeper EXCEPT
                      !.pc = IF swept = {} THEN "delete" ELSE "close",
                      !.todo = @ \ {t}, !.code = t[1], !.room = r, !.closing = swept,
                      !.empty = empty]
    BY <1>2
  <2>2. sweeper \in Sweeper
    BY DEF TypeOK
  <2> HIDE DEF empty, kept, r, swept
  <2> QED
    BY <2>1, <2>2 DEF Sweeper
<1>5. \A q \in RoomHubs, u \in Users :
         /\ q # r \/ conns[q][u] \notin swept =>
               conns'[q][u] = conns[q][u] /\ members'[q][u] = members[q][u]
         /\ q = r /\ conns[q][u] \in swept => conns'[q][u] = None /\ members'[q][u] # "on"
  <2> HIDE DEF swept
  <2> QED
    BY <1>2, <1>3 DEF TypeOK, swept
<1> HIDE DEF r, swept
<1>6. WellPlaced'
  BY <1>1, <1>3, <1>4 DEF WellPlaced, Placed
<1>7. \A u \in Users : OneSocket(u)' = OneSocket(u)
  BY <1>1 DEF OneSocket, UserOf
<1>8. OwnConns'
  BY <1>1, <1>5, OwnConnsKept DEF MapsInv
<1>9. LeftBeforeOff'
  <2> SUFFICES ASSUME NEW s \in Sockets, handler[s].pc = "setoff", OneSocket(UserOf(s))
               PROVE  conns'[handler[s].room][UserOf(s)] = None
    BY <1>1 DEF LeftBeforeOff, OneSocket, UserOf
  <2>1. handler[s].room \in RoomHubs /\ UserOf(s) \in Users
    BY DEF WellPlaced, Placed, UserOf
  <2> QED
    BY <1>5, <2>1 DEF LeftBeforeOff, MapsInv
<1>10. NoPhantomMember'
  BY <1>1, <1>5 DEF NoPhantomMember, Correcting, MapsInv, UserOf
<1>11. OneSocketIsRegistered'
  <2> SUFFICES ASSUME NEW s \in Sockets, OneSocket(UserOf(s)), Serving(s)'
               PROVE  conns'[handler[s].room][UserOf(s)] = Current(s)
    BY <1>1 DEF OneSocketIsRegistered, OneSocket, UserOf, Current
  <2>1. Serving(s) /\ Current(s) \notin swept
    BY <1>1, <1>4 DEF Serving, Current
  <2>2. handler[s].room \in RoomHubs /\ UserOf(s) \in Users
    BY <2>1 DEF Serving, WellPlaced, Placed, UserOf, TypeOK, Handler
  <2> QED
    BY <1>5, <2>1, <2>2 DEF OneSocketIsRegistered, MapsInv
<1>12. RegisteredIsShown'
  BY <1>1, <1>5, <1>7 DEF RegisteredIsShown, Recomputing, MapsInv
<1> QED
  BY <1>6, <1>8, <1>9, <1>10, <1>11, <1>12 DEF MapsInv

\* The process dies: no handler is left, and no room.
LEMMA SweepPanicsStep ==
    ASSUME TypeOK, WellPlaced, SweepPanics
    PROVE  WellPlaced' /\ MapsInv'
<1> USE NoneAssumption
<1>1. /\ \A r \in RoomHubs, u \in Users : conns'[r][u] = None /\ members'[r][u] = "absent"
      /\ sweeper'.pc = "wait" /\ sweeper'.closing = {}
  BY DEF SweepPanics, NoConns, NoMembers, Waiting, ToVisit
<1>2. ASSUME NEW s \in Sockets PROVE Placed(s)' /\ handler'[s].pc \in {"off", "gone"}
  <2>1. CASE handler[s].pc = "off"
    <3>1. handler'[s] = handler[s]
      BY <2>1 DEF SweepPanics
    <3> QED
      BY <2>1, <3>1 DEF WellPlaced, Placed
  <2>2. CASE handler[s].pc # "off"
    <3>1. handler'[s] = Outside("gone", handler[s].user, handler[s].joins)
      BY <2>2 DEF SweepPanics, Ended, UserOf
    <3> QED
      BY <2>2, <3>1 DEF WellPlaced, Placed, Outside
  <2> QED
    BY <2>1, <2>2
<1>3. WellPlaced'
  BY <1>1, <1>2 DEF WellPlaced
<1> QED
  BY <1>1, <1>2, <1>3
     DEF MapsInv, OwnConns, LeftBeforeOff, NoPhantomMember, OneSocketIsRegistered,
         RegisteredIsShown, Serving

\* Every step keeps everybody in its place and the maps in order.
LEMMA MapsStep ==
    ASSUME TypeOK, WellPlaced, MapsInv, [Next]_vars, TypeOK' PROVE WellPlaced' /\ MapsInv'
<1> USE NoneAssumption DEF rooms, net
<1>1. ASSUME NEW s \in Sockets, NEW u \in Users, Accept(s, u) PROVE WellPlaced' /\ MapsInv'
  <2>0. /\ handler[s].joins \in Nat /\ handler[s] \in Handler
        /\ handler[s].room \in RoomHubs \union {None}
    BY MaxJoinsAssumption DEF TypeOK, Handler
  <2>1. /\ Others(s)
        /\ handler'[s].pc = "read"
        /\ handler'[s].user = u
        /\ handler'[s].joins = 0
        /\ handler'[s].code = None
        /\ handler'[s].room = None
        /\ handler'[s].leaving = FALSE
    BY <1>1, <2>0 DEF Others, Accept, Outside, TypeOK, Handler
  <2>2. Placed(s)'
    BY <1>1, <2>1, <2>0 DEF WellPlaced, Placed, Accept, Outside
  <2>3. Onward(s)
    BY <1>1, <2>1, <2>0 DEF Onward, Serving, Current, WellPlaced, Placed, Accept, Outside
  <2> QED
    BY <1>1, <2>1, <2>2, <2>3, OneMoves DEF Accept
<1>2. ASSUME NEW s \in Sockets, NEW c \in Codes, Join(s, c) PROVE WellPlaced' /\ MapsInv'
  <2>0. /\ handler[s].joins \in Nat /\ handler[s] \in Handler
        /\ handler[s].room \in RoomHubs \union {None}
    BY MaxJoinsAssumption DEF TypeOK, Handler
  <2>1. /\ Others(s)
        /\ handler'[s].pc = "get"
        /\ handler'[s].user = handler[s].user
        /\ handler'[s].joins = handler[s].joins + 1
        /\ handler'[s].code = c
        /\ handler'[s].room = handler[s].room
        /\ handler'[s].leaving = handler[s].leaving
    BY <1>2, <2>0 DEF Others, Join, TypeOK, Handler
  <2>2. Placed(s)'
    BY <1>2, <2>1, <2>0 DEF WellPlaced, Placed, Join
  <2>3. Onward(s)
    BY <1>2, <2>1, <2>0 DEF Onward, Serving, Current, WellPlaced, Placed, Join
  <2> QED
    BY <1>2, <2>1, <2>2, <2>3, OneMoves DEF Join
<1>3. ASSUME NEW s \in Sockets, ListMembers(s) PROVE WellPlaced' /\ MapsInv'
  <2>0. /\ handler[s].joins \in Nat /\ handler[s] \in Handler
        /\ handler[s].room \in RoomHubs \union {None}
    BY MaxJoinsAssumption DEF TypeOK, Handler
  <2>1. /\ Others(s)
        /\ handler'[s].pc = "upsert"
        /\ handler'[s].user = handler[s].user
        /\ handler'[s].joins = handler[s].joins
        /\ handler'[s].code = handler[s].code
        /\ handler'[s].room = handler[s].room
        /\ handler'[s].leaving = handler[s].leaving
    BY <1>3, <2>0 DEF Others, ListMembers, TypeOK, Handler
  <2>2. Placed(s)'
    BY <1>3, <2>1, <2>0 DEF WellPlaced, Placed, ListMembers
  <2>4. handler[s].pc = "list" /\ UNCHANGED <<down, sweeper>>
    BY <1>3 DEF ListMembers
  <2>3. Onward(s)
    BY <2>1, <2>0, <2>4 DEF Onward, Serving, Current, WellPlaced, Placed
  <2> QED
    BY <1>3, <2>1, <2>2, <2>3, OneMoves DEF ListMembers
<1>4. ASSUME NEW s \in Sockets, SnapshotConns(s) PROVE WellPlaced' /\ MapsInv'
  <2>0. /\ handler[s].joins \in Nat /\ handler[s] \in Handler
        /\ handler[s].room \in RoomHubs \union {None}
    BY MaxJoinsAssumption DEF TypeOK, Handler
  <2>1. /\ Others(s)
        /\ handler'[s].pc = "send"
        /\ handler'[s].user = handler[s].user
        /\ handler'[s].joins = handler[s].joins
        /\ handler'[s].code = handler[s].code
        /\ handler'[s].room = handler[s].room
        /\ handler'[s].leaving = handler[s].leaving
    BY <1>4, <2>0 DEF Others, SnapshotConns, TypeOK, Handler
  <2>2. Placed(s)'
    BY <1>4, <2>1, <2>0 DEF WellPlaced, Placed, SnapshotConns
  <2>4. handler[s].pc = "broadcast" /\ UNCHANGED <<down, sweeper>>
    BY <1>4 DEF SnapshotConns
  <2>3. Onward(s)
    BY <2>1, <2>0, <2>4 DEF Onward, Serving, Current, WellPlaced, Placed
  <2> QED
    BY <1>4, <2>1, <2>2, <2>3, OneMoves DEF SnapshotConns
<1>5. ASSUME NEW s \in Sockets, SendAll(s) PROVE WellPlaced' /\ MapsInv'
  <2>0. /\ handler[s].joins \in Nat /\ handler[s] \in Handler
        /\ handler[s].room \in RoomHubs \union {None}
    BY MaxJoinsAssumption DEF TypeOK, Handler
  <2>1. /\ Others(s)
        /\ handler'[s].pc = (IF handler[s].leaving THEN "bye" ELSE "read")
        /\ handler'[s].user = handler[s].user
        /\ handler'[s].joins = handler[s].joins
        /\ handler'[s].code = handler[s].code
        /\ handler'[s].room = handler[s].room
        /\ handler'[s].leaving = handler[s].leaving
    BY <1>5, <2>0 DEF Others, SendAll, TypeOK, Handler
  <2>2. Placed(s)'
    BY <1>5, <2>1, <2>0 DEF WellPlaced, Placed, SendAll
  <2>3. Onward(s)
    BY <1>5, <2>1, <2>0 DEF Onward, Serving, Current, WellPlaced, Placed, SendAll
  <2> QED
    BY <1>5, <2>1, <2>2, <2>3, OneMoves DEF SendAll
<1>6. ASSUME NEW s \in Sockets, SendPanics(s) PROVE WellPlaced' /\ MapsInv'
  <2>0. /\ handler[s].joins \in Nat /\ handler[s] \in Handler
        /\ handler[s].room \in RoomHubs \union {None}
    BY MaxJoinsAssumption DEF TypeOK, Handler
  <2>1. /\ Others(s)
        /\ handler'[s].pc = "gone"
        /\ handler'[s].user = handler[s].user
        /\ handler'[s].joins = handler[s].joins
        /\ handler'[s].code = None
        /\ handler'[s].room = None
        /\ handler'[s].leaving = FALSE
    BY <1>6, <2>0 DEF Others, SendPanics, Ended, Outside, UserOf, TypeOK, Handler
  <2>2. Placed(s)'
    BY <1>6, <2>1, <2>0 DEF WellPlaced, Placed, SendPanics, Ended, Outside, UserOf
  <2>3. Onward(s)
    BY <1>6, <2>1, <2>0 DEF Onward, Serving, Current, WellPlaced, Placed, SendPanics, Ended, Outside, UserOf
  <2> QED
    BY <1>6, <2>1, <2>2, <2>3, OneMoves DEF SendPanics
<1>7. ASSUME NEW s \in Sockets, Ping(s) \/ Answer(s) PROVE WellPlaced' /\ MapsInv'
  <2>0. /\ handler[s].joins \in Nat /\ handler[s] \in Handler
        /\ handler[s].room \in RoomHubs \union {None}
    BY MaxJoinsAssumption DEF TypeOK, Handler
  <2>1. /\ Others(s)
        /\ handler[s].pc \in {"read", "answer"} /\ handler'[s].pc \in {"read", "answer"}
        /\ handler'[s].user = handler[s].user
        /\ handler'[s].joins = handler[s].joins
        /\ handler'[s].code = handler[s].code
        /\ handler'[s].room = handler[s].room
        /\ handler'[s].leaving = handler[s].leaving
    BY <1>7, <2>0 DEF Others, Ping, Answer, TypeOK, Handler
  <2>2. Placed(s)'
    BY <2>1, <2>0 DEF WellPlaced, Placed
  <2>4. UNCHANGED <<conns, members, down, sweeper>>
    BY <1>7 DEF Ping, Answer, rooms, net
  <2>3. Onward(s)
    BY <2>1, <2>0, <2>4 DEF Onward, Serving, Current, WellPlaced, Placed
  <2> QED
    BY <2>1, <2>2, <2>3, <2>4, OneMoves
<1>8. ASSUME NEW s \in Sockets, RoundCommand(s) PROVE WellPlaced' /\ MapsInv'
  <2>0. /\ handler[s].joins \in Nat /\ handler[s] \in Handler
        /\ handler[s].room \in RoomHubs \union {None}
    BY MaxJoinsAssumption DEF TypeOK, Handler
  <2>1. /\ Others(s)
        /\ handler'[s].pc = "broadcast"
        /\ handler'[s].user = handler[s].user
        /\ handler'[s].joins = handler[s].joins
        /\ handler'[s].code = handler[s].code
        /\ handler'[s].room = handler[s].room
        /\ handler'[s].leaving = handler[s].leaving
    BY <1>8, <2>0 DEF Others, RoundCommand, MayCommand, Goto, TypeOK, Handler
  <2>2. Placed(s)'
    BY <1>8, <2>1, <2>0 DEF WellPlaced, Placed, RoundCommand, MayCommand, Goto
  <2>3. Onward(s)
    BY <1>8, <2>1, <2>0 DEF Onward, Serving, Current, WellPlaced, Placed, RoundCommand, MayCommand, Goto
  <2> QED
    BY <1>8, <2>1, <2>2, <2>3, OneMoves DEF RoundCommand
<1>9. ASSUME NEW s \in Sockets, ScoreAdd(s) PROVE WellPlaced' /\ MapsInv'
  <2>0. /\ handler[s].joins \in Nat /\ handler[s] \in Handler
        /\ handler[s].room \in RoomHubs \union {None}
    BY MaxJoinsAssumption DEF TypeOK, Handler
  <2>1. /\ Others(s)
        /\ handler'[s].pc = "upsert"
        /\ handler'[s].user = handler[s].user
        /\ handler'[s].joins = handler[s].joins
        /\ handler'[s].code = handler[s].code
        /\ handler'[s].room = handler[s].room
        /\ handler'[s].leaving = handler[s].leaving
    BY <1>9, <2>0 DEF Others, ScoreAdd, MayCommand, TypeOK, Handler
  <2>2. Placed(s)'
    BY <1>9, <2>1, <2>0 DEF WellPlaced, Placed, ScoreAdd, MayCommand
  <2>4. handler[s].pc = "read" /\ UNCHANGED <<down, sweeper>>
    BY <1>9 DEF ScoreAdd, MayCommand
  <2>3. Onward(s)
    BY <2>1, <2>0, <2>4 DEF Onward, Serving, Current, WellPlaced, Placed
  <2> QED
    BY <1>9, <2>1, <2>2, <2>3, OneMoves DEF ScoreAdd
<1>10. ASSUME NEW s \in Sockets, Bye(s) PROVE WellPlaced' /\ MapsInv'
  <2>0. /\ handler[s].joins \in Nat /\ handler[s] \in Handler
        /\ handler[s].room \in RoomHubs \union {None}
    BY MaxJoinsAssumption DEF TypeOK, Handler
  <2>1. /\ Others(s)
        /\ handler'[s].pc = "gone"
        /\ handler'[s].user = handler[s].user
        /\ handler'[s].joins = handler[s].joins
        /\ handler'[s].code = None
        /\ handler'[s].room = None
        /\ handler'[s].leaving = FALSE
    BY <1>10, <2>0 DEF Others, Bye, Ended, Outside, UserOf, TypeOK, Handler
  <2>2. Placed(s)'
    BY <1>10, <2>1, <2>0 DEF WellPlaced, Placed, Bye, Ended, Outside, UserOf
  <2>3. Onward(s)
    BY <1>10, <2>1, <2>0 DEF Onward, Serving, Current, WellPlaced, Placed, Bye, Ended, Outside, UserOf
  <2> QED
    BY <1>10, <2>1, <2>2, <2>3, OneMoves DEF Bye
<1>11. ASSUME NEW s \in Sockets, ReadFails(s) PROVE WellPlaced' /\ MapsInv'
  <2>0. /\ handler[s].joins \in Nat /\ handler[s] \in Handler
        /\ handler[s].room \in RoomHubs \union {None}
    BY MaxJoinsAssumption DEF TypeOK, Handler
  <2>1. CASE handler[s].room = None
    <3>1. handler'[s] = Outside("gone", handler[s].user, handler[s].joins) /\ Others(s)
      BY <1>11, <2>1 DEF Others, ReadFails, Ended, UserOf, TypeOK
    <3>2. Placed(s)' /\ Onward(s)
      BY <1>11, <3>1, <2>0, <2>1
         DEF Onward, Serving, Outside, WellPlaced, Placed, ReadFails
    <3> QED
      BY <1>11, <3>1, <3>2, OneMoves DEF ReadFails
  <2>2. CASE handler[s].room # None
    <3>1. /\ Others(s)
          /\ handler'[s].pc = "unregister"
          /\ handler'[s].user = handler[s].user
          /\ handler'[s].joins = handler[s].joins
          /\ handler'[s].code = handler[s].code
          /\ handler'[s].room = handler[s].room
      BY <1>11, <2>0, <2>2 DEF Others, ReadFails, Goto, TypeOK, Handler
    <3>2. Placed(s)' /\ Onward(s)
      BY <1>11, <3>1, <2>0, <2>2 DEF Onward, Serving, WellPlaced, Placed, ReadFails
    <3> QED
      BY <1>11, <3>1, <3>2, OneMoves DEF ReadFails
  <2> QED
    BY <2>1, <2>2
<1>12. CASE Tick
  BY <1>12, HandlersStay DEF WellPlaced, Tick, ToVisit
<1>13. CASE CloseSwept
  BY <1>13, HandlersStay DEF WellPlaced, CloseSwept, Current, TypeOK, Sweeper
<1>14. CASE SweepSnapshot
  BY <1>14, HandlersStay DEF WellPlaced, SweepSnapshot, TypeOK, Sweeper
<1>15. CASE SweepSend
  BY <1>15, HandlersStay DEF WellPlaced, SweepSend, TypeOK, Sweeper
<1>16. CASE CheckEmpty \/ DropRoom
  <2>1. /\ handler' = handler /\ conns' = conns /\ members' = members /\ down' = down
        /\ sweeper' \in {[sweeper EXCEPT !.pc = "drop"], NextRoom}
    BY <1>16 DEF CheckEmpty, DropRoom, rooms, net
  <2>2. sweeper.closing = {} /\ sweeper.room \in RoomHubs /\ sweeper.code \in Codes
    BY <1>16 DEF WellPlaced, CheckEmpty, DropRoom
  <2>3. /\ sweeper'.closing = {}
        /\ sweeper'.pc \notin {"wait", "scan"} =>
              sweeper'.room \in RoomHubs /\ sweeper'.code \in Codes
    BY <2>1, <2>2 DEF NextRoom, ToVisit, Waiting, TypeOK, Sweeper
  <2> QED
    BY <2>1, <2>2, <2>3, HandlersStay
<1>17. ASSUME NEW w \in Conn, ConnGoesIdle(w) \/ WriteFails(w) PROVE WellPlaced' /\ MapsInv'
  BY <1>17, HandlersStay DEF WellPlaced, ConnGoesIdle, WriteFails
<1>18. ASSUME NEW r \in RoomHubs, RoomGoesQuiet(r) PROVE WellPlaced' /\ MapsInv'
  BY <1>18, HandlersStay DEF WellPlaced, RoomGoesQuiet
<1>19. CASE UNCHANGED vars
  BY <1>19, HandlersStay DEF WellPlaced, vars
<1> QED
  BY <1>1, <1>2, <1>3, <1>4, <1>5, <1>6, <1>7, <1>8, <1>9, <1>10, <1>11, <1>12, <1>13,
     <1>14, <1>15, <1>16, <1>17, <1>18, <1>19, 
     GetRoomStep, RegisterStep, UpsertMemberStep, SyncMembersStep, UnregisterStep,
     SetConnectedFalseStep, ScanStep, SweepPanicsStep
     DEF Next, HandlerStep, ClientStep, SweeperStep

-----------------------------------------------------------------------------
(* Theorems *)

HInv == TypeOK /\ WellPlaced /\ MapsInv

LEMMA InitHolds == Init => HInv
<1> SUFFICES ASSUME Init PROVE HInv
  OBVIOUS
<1> USE NoneAssumption, MaxJoinsAssumption
<1>1. \A s \in Sockets : handler[s] = Outside("off", None, 0)
  BY DEF Init
<1>2. TypeOK
  <2>1. Outside("off", None, 0) \in Handler
    BY DEF Outside, Handler
  <2>2. Waiting \in Sweeper
    BY DEF Waiting, ToVisit, Sweeper
  <2> QED
    BY <2>1, <2>2 DEF Init, TypeOK, NoConns, NoMembers
<1>3. WellPlaced
  BY <1>1 DEF WellPlaced, Placed, Outside, Init, Waiting, ToVisit
<1>4. \A r \in RoomHubs, u \in Users : conns[r][u] = None /\ members[r][u] = "absent"
  BY DEF Init, NoConns, NoMembers
<1>5. \A s \in Sockets : handler[s].pc = "off"
  BY <1>1 DEF Outside
<1>6. MapsInv
  BY <1>4, <1>5
     DEF MapsInv, OwnConns, LeftBeforeOff, NoPhantomMember, OneSocketIsRegistered,
         RegisteredIsShown, Serving
<1> QED
  BY <1>2, <1>3, <1>6 DEF HInv

\* The inductive invariant: the types, who is where, and the two maps of a room
\* (hub.go:26-40) beside the program counters of the handlers and of the sweeper.
THEOREM Invariance == Spec => []HInv
<1>1. Init => HInv
  BY InitHolds
<1>2. HInv /\ [Next]_vars => HInv'
  BY TypeStep, MapsStep DEF HInv
<1> QED
  BY <1>1, <1>2, PTL DEF Spec

\* The hub's maps, the handlers' locals and the sweeper's keep their types.
THEOREM TypeCorrect == Spec => []TypeOK
<1>1. HInv => TypeOK
  BY DEF HInv
<1> QED
  BY <1>1, Invariance, PTL

\* Nobody stays shown as connected by mistake (handler.go:193-209, :355-375, :435-436).
THEOREM NoPhantom == Spec => []NoPhantomMember
<1>1. HInv => NoPhantomMember
  BY DEF HInv, MapsInv
<1> QED
  BY <1>1, Invariance, PTL

\* A player with one socket is reachable while it is served: SendTo finds its connection
\* (hub.go:129).
THEOREM Reachable == Spec => []OneSocketIsRegistered
<1>1. HInv => OneSocketIsRegistered
  BY DEF HInv, MapsInv
<1> QED
  BY <1>1, Invariance, PTL

\* A player with one socket who is registered is shown, or about to be (handler.go:436).
THEOREM Shown == Spec => []RegisteredIsShown
<1>1. HInv => RegisteredIsShown
  BY DEF HInv, MapsInv
<1> QED
  BY <1>1, Invariance, PTL

\* Only these steps change the hub's map.
LEMMA HubChanges ==
    ASSUME Next, hub' # hub
    PROVE  (\E s \in Sockets : GetRoom(s)) \/ SweepPanics \/ DropRoom
<1>1. ASSUME NEW s \in Sockets, HandlerStep(s) \/ ClientStep(s)
      PROVE  hub' = hub \/ GetRoom(s)
  BY <1>1 DEF HandlerStep, ClientStep, Accept, Join, Register, ListMembers, UpsertMember,
     SyncMembers, SnapshotConns, SendAll, Answer, SendPanics, Ping, RoundCommand, ScoreAdd,
     ReadFails, Unregister, SetConnectedFalse, Bye, rooms
<1>2. SweeperStep => hub' = hub \/ SweepPanics \/ DropRoom
  BY DEF SweeperStep, Tick, Scan, CloseSwept, SweepSnapshot, SweepSend, CheckEmpty, rooms
<1>3. ASSUME NEW w \in Conn, ConnGoesIdle(w) \/ WriteFails(w)
      PROVE  hub' = hub
  BY <1>3 DEF ConnGoesIdle, WriteFails, rooms
<1>4. ASSUME NEW r \in RoomHubs, RoomGoesQuiet(r)
      PROVE  hub' = hub
  BY <1>4 DEF RoomGoesQuiet
<1> QED
  BY <1>1, <1>2, <1>3, <1>4 DEF Next

\* Only this step makes the sweeper about to drop a room, one without connections.
LEMMA DropsEmpty ==
    ASSUME HInv, Next, sweeper'.pc = "drop"
    PROVE  \/ sweeper' = sweeper
           \/ sweeper'.code = sweeper.code /\ conns[hub[sweeper.code]] = NoConns
<1>1. ASSUME NEW s \in Sockets, HandlerStep(s) \/ ClientStep(s)
      PROVE  sweeper' = sweeper
  BY <1>1 DEF HandlerStep, ClientStep, Accept, Join, GetRoom, Register, ListMembers,
     UpsertMember, SyncMembers, SnapshotConns, SendAll, Answer, SendPanics, Ping, RoundCommand,
     ScoreAdd, ReadFails, Unregister, SetConnectedFalse, Bye
<1>2. CASE SweeperStep
  <2>0. sweeper \in Sweeper
    BY DEF HInv, TypeOK
  <2>1. ~Tick /\ ~SweepPanics /\ ~DropRoom
    BY DEF Tick, SweepPanics, DropRoom, NextRoom, Waiting, ToVisit
  <2>2. ~Scan /\ ~CloseSwept /\ ~SweepSnapshot /\ ~SweepSend
    BY <2>0 DEF Scan, CloseSwept, SweepSnapshot, SweepSend, Sweeper
  <2>3. CASE CheckEmpty
    BY <2>0, <2>3 DEF CheckEmpty, NextRoom, Waiting, ToVisit, Sweeper
  <2> QED
    BY <1>2, <2>1, <2>2, <2>3 DEF SweeperStep
<1>3. ASSUME NEW w \in Conn, ConnGoesIdle(w) \/ WriteFails(w)
      PROVE  sweeper' = sweeper
  BY <1>3 DEF ConnGoesIdle, WriteFails
<1>4. ASSUME NEW r \in RoomHubs, RoomGoesQuiet(r)
      PROVE  sweeper' = sweeper
  BY <1>4 DEF RoomGoesQuiet
<1> QED
  BY <1>1, <1>2, <1>3, <1>4 DEF Next

\* Who goes on serving stays in its room.
LEMMA SameRoom ==
    ASSUME HInv, Next, NEW s \in Sockets, Serving(s), Serving(s)'
    PROVE  handler'[s].code = handler[s].code /\ handler'[s].room = handler[s].room
<1>1. /\ handler \in [Sockets -> Handler] /\ handler[s] \in Handler
      /\ handler[s].pc \in {"list", "upsert", "broadcast", "send", "answer", "read"}
      /\ handler'[s].pc \in {"list", "upsert", "broadcast", "send", "answer", "read"}
  BY DEF HInv, TypeOK, Serving
<1>2. ASSUME NEW t \in Sockets, HandlerStep(t) \/ ClientStep(t)
      PROVE  handler'[s].code = handler[s].code /\ handler'[s].room = handler[s].room
  <2>1. CASE t # s
    BY <1>1, <1>2, <2>1 DEF HandlerStep, ClientStep, Accept, Join, GetRoom, Register,
       ListMembers, UpsertMember, SyncMembers, SnapshotConns, SendAll, Answer, SendPanics, Ping,
       RoundCommand, ScoreAdd, MayCommand, ReadFails, Unregister, SetConnectedFalse, Bye, Goto
  <2>2. CASE t = s
    <3>1. ~(\E u \in Users : Accept(s, u)) /\ ~(\E c \in Codes : Join(s, c)) /\ ~GetRoom(s)
      <4>1. ~GetRoom(s)
        BY <1>1 DEF GetRoom
      <4>2. \A u \in Users : ~Accept(s, u)
        BY <1>1 DEF Accept
      <4>3. ASSUME NEW c \in Codes, Join(s, c) PROVE FALSE
        BY <1>1, <4>3 DEF Join, Handler
      <4> QED
        BY <4>1, <4>2, <4>3
    <3>2. ~SendPanics(s) /\ ~ReadFails(s) /\ ~Bye(s)
      BY <1>1 DEF SendPanics, ReadFails, Bye, Ended, Outside, Goto, Handler
    <3>3. ASSUME ListMembers(s) \/ ScoreAdd(s)
          PROVE  handler'[s].code = handler[s].code /\ handler'[s].room = handler[s].room
      <4>1. PICK list, flag : handler' = [handler EXCEPT ![s].pc = "upsert", ![s].todo = list,
                                                         ![s].flag = flag]
        BY <3>3 DEF ListMembers, ScoreAdd
      <4> QED
        BY <1>1, <4>1 DEF Handler
    <3>4. ASSUME Register(s) \/ RoundCommand(s) \/ Unregister(s)
          PROVE  handler'[s].code = handler[s].code /\ handler'[s].room = handler[s].room
      BY <1>1, <3>4 DEF Register, RoundCommand, Unregister, Goto, Handler
    <3>5. ASSUME SyncMembers(s) \/ SetConnectedFalse(s)
          PROVE  handler'[s].code = handler[s].code /\ handler'[s].room = handler[s].room
      BY <1>1, <3>5 DEF SyncMembers, SetConnectedFalse, Handler
    <3>6. ASSUME SnapshotConns(s) \/ SendAll(s)
          PROVE  handler'[s].code = handler[s].code /\ handler'[s].room = handler[s].room
      BY <1>1, <3>6 DEF SnapshotConns, SendAll, Handler
    <3>7. ASSUME Ping(s) \/ Answer(s)
          PROVE  handler'[s].code = handler[s].code /\ handler'[s].room = handler[s].room
      BY <1>1, <3>7 DEF Ping, Answer, Handler
    <3>8. ASSUME NEW u \in Users, UpsertMember(s, u)
          PROVE  handler'[s].code = handler[s].code /\ handler'[s].room = handler[s].room
      BY <1>1, <3>8 DEF UpsertMember, Handler
    <3> QED
      BY <1>2, <2>2, <3>1, <3>2, <3>3, <3>4, <3>5, <3>6, <3>7, <3>8 DEF HandlerStep, ClientStep
  <2> QED
    BY <2>1, <2>2
<1>3. SweepPanics => handler'[s].pc \in {"off", "gone"}
  BY DEF SweepPanics, Ended, Outside
<1>4. SweeperStep => SweepPanics \/ handler' = handler
  BY DEF SweeperStep, Tick, Scan, CloseSwept, SweepSnapshot, SweepSend, CheckEmpty, DropRoom
<1>5. ASSUME NEW w \in Conn, ConnGoesIdle(w) \/ WriteFails(w) PROVE handler' = handler
  BY <1>5 DEF ConnGoesIdle, WriteFails
<1>6. ASSUME NEW r \in RoomHubs, RoomGoesQuiet(r) PROVE handler' = handler
  BY <1>6 DEF RoomGoesQuiet
<1> QED
  BY <1>1, <1>2, <1>3, <1>4, <1>5, <1>6 DEF Next

\* Whoever the sweeper's second look finds served in its room keeps it (hub.go:160-166).
THEOREM RoomStays == Spec => ServedRoomStays
<1>1. ASSUME HInv, Next, NEW s \in Sockets,
             OneSocket(UserOf(s)), Serving(s), Serving(s)', InItsRoom(s)
      PROVE  InItsRoom(s)'
  <2> DEFINE r == handler[s].room
             c == handler[s].code
  <2>1. /\ r \in RoomHubs /\ c \in Codes /\ UserOf(s) \in Users /\ hub[c] = r
        /\ conns[r][UserOf(s)] = Current(s) /\ Current(s) # None
        /\ ~(sweeper.pc = "drop" /\ sweeper.code = c)
    <3>1. TypeOK /\ Placed(s) /\ OneSocketIsRegistered
      BY <1>1 DEF HInv, WellPlaced, MapsInv
    <3>2. handler[s].pc \notin {"off", "get", "gone"} /\ handler[s].room # None
      BY <1>1 DEF Serving
    <3>3. r \in RoomHubs /\ c \in Codes /\ UserOf(s) \in Users /\ handler[s].joins > 0
      BY <3>1, <3>2 DEF Placed, TypeOK, Handler, UserOf
    <3>4. Current(s) \in Conn
      BY <3>1, <3>3, Connections
    <3> QED
      BY <1>1, <3>1, <3>3, <3>4, NoneAssumption DEF OneSocketIsRegistered, InItsRoom, Conn
  <2>2. handler'[s].code = c /\ handler'[s].room = r
    BY <1>1, SameRoom
  <2> HIDE DEF r, c
  <2>3. hub'[c] = r
    <3>1. CASE hub' = hub
      BY <2>1, <3>1
    <3>2. ASSUME NEW t \in Sockets, GetRoom(t)
          PROVE  hub'[c] = r
      <4>1. CASE hub[handler[t].code] = None
        <5>1. PICK q \in RoomHubs \ Held : hub' = [hub EXCEPT ![handler[t].code] = q]
          BY <3>2, <4>1, FreshRoom, NoneAssumption
        <5>2. handler[t].code # c /\ hub \in [Codes -> RoomHubs \union {None}]
          BY <1>1, <2>1, <4>1, NoneAssumption DEF HInv, TypeOK
        <5> QED
          BY <2>1, <5>1, <5>2
      <4>2. CASE hub[handler[t].code] # None
        BY <2>1, <3>2, <4>2 DEF GetRoom, rooms
      <4> QED
        BY <4>1, <4>2
    <3>3. CASE DropRoom
      BY <1>1, <2>1, <3>3 DEF DropRoom, HInv, TypeOK
    <3>4. CASE SweepPanics
      <4>1. handler'[s].pc \in {"off", "gone"}
        BY <3>4 DEF SweepPanics, Ended, Outside
      <4> QED
        BY <1>1, <4>1 DEF Serving
    <3> QED
      BY <1>1, <3>1, <3>2, <3>3, <3>4, HubChanges
  <2>4. ~(sweeper'.pc = "drop" /\ sweeper'.code = c)
    <3>1. conns[r] # NoConns
      BY <2>1 DEF NoConns
    <3> QED
      BY <1>1, <2>1, <3>1, DropsEmpty
  <2> QED
    BY <2>2, <2>3, <2>4 DEF InItsRoom
<1>2. HInv /\ [Next]_vars =>
        [\A s \in Sockets :
            OneSocket(UserOf(s)) /\ Serving(s) /\ Serving(s)' /\ InItsRoom(s)
            => InItsRoom(s)']_vars
  BY <1>1
<1> QED
  BY <1>2, Invariance, PTL DEF Spec, ServedRoomStays

-----------------------------------------------------------------------------
(* Hub implements Registry *)

\* A connection on its way to Register.
Coming(s) == handler[s].pc \in {"get", "register"}

\* What a handler's step leaves of its connections: a join makes one that is coming.
SameConns(s) ==
    \/ handler'[s].joins = handler[s].joins /\ (Coming(s)' <=> Coming(s))
    \/ handler'[s].joins = handler[s].joins + 1 /\ Coming(s)' /\ ~Coming(s)

LEMMA OpenedKept ==
    ASSUME TypeOK, \A s \in Sockets : SameConns(s)
    PROVE  Opened' = Opened
<1>1. ASSUME NEW w \in Conn
      PROVE  w \in Opened' <=> w \in Opened
  <2>1. PICK s \in Sockets, n \in 1 .. MaxJoins : w = <<s, n>>
    BY DEF Conn
  <2>2. handler[s].joins \in Nat /\ n \in Nat /\ SameConns(s)
    BY MaxJoinsAssumption DEF TypeOK, Handler
  <2>3. w \in Opened <=> n <= handler[s].joins /\ (n = handler[s].joins => ~Coming(s))
    BY <2>1 DEF Opened, Current, Coming
  <2>4. w \in Opened' <=> n <= handler'[s].joins /\ (n = handler'[s].joins => ~Coming(s)')
    BY <2>1 DEF Opened, Current, Coming
  <2> QED
    BY <2>2, <2>3, <2>4 DEF SameConns
<1> QED
  BY <1>1 DEF Opened

\* Register opens the handler's connection.
LEMMA OpenedRegisters ==
    ASSUME HInv, NEW s \in Sockets, Register(s)
    PROVE  Current(s) \in Conn \ Opened /\ Opened' = Opened \union {Current(s)}
<1>1. /\ handler[s].pc = "register" /\ handler' = [handler EXCEPT ![s].pc = "list"]
      /\ handler[s].joins \in Nat
  BY MaxJoinsAssumption DEF Register, Goto, HInv, TypeOK, Handler
<1>2. handler[s].joins > 0
  BY <1>1, NoneAssumption DEF HInv, WellPlaced, Placed
<1>3. Current(s) \in Conn /\ Current(s) \notin Opened
  BY <1>1, <1>2, Connections DEF HInv, Opened, Current
<1>4. /\ handler'[s].pc = "list" /\ handler'[s].joins = handler[s].joins
      /\ \A t \in Sockets \ {s} : handler'[t] = handler[t]
  BY <1>1 DEF HInv, TypeOK, Handler
<1>5. ASSUME NEW w \in Conn
      PROVE  w \in Opened' <=> w \in Opened \/ w = Current(s)
  <2>1. PICK t \in Sockets, n \in 1 .. MaxJoins : w = <<t, n>>
    BY DEF Conn
  <2>2. CASE t = s
    BY <1>1, <1>4, <2>1, <2>2 DEF Opened, Current
  <2>3. CASE t # s
    BY <1>4, <2>1, <2>3 DEF Opened, Current
  <2> QED
    BY <2>2, <2>3
<1> QED
  BY <1>3, <1>5 DEF Opened

\* What is registered, or about to be closed by the sweeper, has been opened.
OnlyOpened ==
    /\ \A r \in RoomHubs, u \in Users : conns[r][u] # None => conns[r][u] \in Opened
    /\ sweeper.closing \subseteq Opened

\* A step of Registry that keeps it.
Implements == [R!Next]_(R!vars) /\ OnlyOpened'

LEMMA ImplementsByStuttering ==
    ASSUME OnlyOpened, Opened' = Opened, UNCHANGED <<conns, closed>>,
           sweeper'.closing \subseteq Opened
    PROVE  Implements
BY DEF Implements, OnlyOpened, R!vars

LEMMA ImplementsByRemoval ==
    ASSUME TypeOK, TypeOK', OnlyOpened, Opened' = Opened, closed' = closed,
           sweeper'.closing \subseteq Opened,
           NEW r \in RoomHubs, NEW users \in SUBSET Users,
           \A q \in RoomHubs, u \in Users :
               conns'[q][u] = IF q = r /\ u \in users THEN None ELSE conns[q][u]
    PROVE  Implements
<1>1. /\ conns \in [RoomHubs -> [Users -> Conn \union {None}]]
      /\ conns' \in [RoomHubs -> [Users -> Conn \union {None}]]
  BY DEF TypeOK
<1>2. conns' = [conns EXCEPT ![r] = [u \in Users |-> IF u \in users THEN None ELSE @[u]]]
  <2> DEFINE emptied == [u \in Users |-> IF u \in users THEN None ELSE conns[r][u]]
  <2>1. conns'[r] = emptied
    BY <1>1
  <2>2. \A q \in RoomHubs \ {r} : conns'[q] = conns[q]
    <3>1. ASSUME NEW q \in RoomHubs \ {r}
          PROVE  conns'[q] = conns[q]
      <4>1. \A u \in Users : conns'[q][u] = conns[q][u]
        OBVIOUS
      <4> QED
        BY <1>1, <4>1
    <3> QED
      BY <3>1
  <2> HIDE DEF emptied
  <2>3. conns' = [conns EXCEPT ![r] = emptied]
    BY <1>1, <2>1, <2>2
  <2> QED
    BY <2>3 DEF emptied
<1>3. R!Remove(r, users)
  BY <1>2 DEF R!Remove
<1> QED
  BY <1>3 DEF Implements, OnlyOpened, R!Next

LEMMA ImplementsByClosing ==
    ASSUME OnlyOpened, Opened' = Opened, conns' = conns, sweeper'.closing \subseteq Opened,
           NEW ws \in SUBSET Opened, closed' = closed \union ws
    PROVE  Implements
<1>1. R!Close(ws)
  BY DEF R!Close
<1> QED
  BY <1>1 DEF Implements, OnlyOpened, R!Next

LEMMA ImplementsByRegister ==
    ASSUME HInv, HInv', OnlyOpened, NEW s \in Sockets, Register(s)
    PROVE  Implements
<1> DEFINE r == handler[s].room
           u == UserOf(s)
           w == Current(s)
<1>1. /\ r \in RoomHubs /\ u \in Users /\ w \in Conn \ Opened
      /\ Opened' = Opened \union {w}
  BY OpenedRegisters DEF Register, HInv, WellPlaced, Placed, UserOf
<1>2. /\ conns' = [conns EXCEPT ![r][u] = w]
      /\ closed' = closed \union ({conns[r][u]} \ {None})
      /\ sweeper' = sweeper
  BY DEF Register
<1>3. conns \in [RoomHubs -> [Users -> Conn \union {None}]]
  BY DEF HInv, TypeOK
<1> HIDE DEF r, u, w
<1>4. R!Register(r, u, w)
  BY <1>1, <1>2 DEF R!Register
<1>5. \A q \in RoomHubs, v \in Users :
          conns'[q][v] = IF q = r /\ v = u THEN w ELSE conns[q][v]
  BY <1>1, <1>2, <1>3
<1> QED
  BY <1>1, <1>2, <1>4, <1>5 DEF Implements, OnlyOpened, R!Next

LEMMA ImplementsByCrash ==
    ASSUME TypeOK, SweepPanics
    PROVE  Implements
<1>1. /\ conns' = [r \in RoomHubs |-> [u \in Users |-> None]]
      /\ sweeper'.closing = {}
      /\ closed' = {w \in Conn : w[2] <= handler[w[1]].joins}
      /\ \A s \in Sockets : handler'[s].joins = handler[s].joins /\ ~Coming(s)'
  BY DEF SweepPanics, NoConns, Waiting, ToVisit, Ended, Outside, Coming
<1>2. \A w \in Conn : w[1] \in Sockets
  BY DEF Conn
<1>3. Opened' = closed' /\ Opened \subseteq Opened'
  BY <1>1, <1>2 DEF Opened, Coming
<1>4. R!Crash
  <2>1. Opened' \subseteq Conn /\ Opened' = Opened \union Opened'
    BY <1>3 DEF Opened
  <2>2. \E ws \in SUBSET Conn : Opened' = Opened \union ws
    BY <2>1
  <2> QED
    BY <1>1, <1>3, <2>2 DEF R!Crash, R!Empty
<1> QED
  BY <1>1, <1>4 DEF Implements, OnlyOpened, R!Next

\* Of a handler's steps only Register opens a connection.
LEMMA HandlerKeepsOpened ==
    ASSUME HInv, NEW s \in Sockets, (HandlerStep(s) /\ ~Register(s)) \/ ClientStep(s)
    PROVE  Opened' = Opened
<1>1. /\ handler \in [Sockets -> Handler] /\ handler[s] \in Handler
      /\ handler[s].joins \in Nat /\ handler[s].user \in Users \union {None}
      /\ handler[s].pc = "off" => handler[s].joins = 0
  BY MaxJoinsAssumption DEF HInv, TypeOK, Handler, WellPlaced, Placed
<1>2. ASSUME \A t \in Sockets \ {s} : handler'[t] = handler[t], SameConns(s)
      PROVE  Opened' = Opened
  <2>1. \A t \in Sockets : SameConns(t)
    BY <1>2 DEF SameConns, Coming
  <2> QED
    BY <2>1, OpenedKept DEF HInv
<1>3. ASSUME NEW u \in Users, Accept(s, u) PROVE Opened' = Opened
  BY <1>1, <1>2, <1>3 DEF Accept, Outside, SameConns, Coming
<1>4. ASSUME NEW c \in Codes, Join(s, c) PROVE Opened' = Opened
  BY <1>1, <1>2, <1>4 DEF Join, SameConns, Coming, Handler
<1>5. CASE GetRoom(s)
  BY <1>1, <1>2, <1>5 DEF GetRoom, SameConns, Coming, Handler
<1>6. CASE ListMembers(s) \/ ScoreAdd(s)
  <2>1. /\ handler[s].pc \in {"list", "read"} /\ handler'[s].pc = "upsert"
        /\ handler'[s].joins = handler[s].joins
        /\ \A t \in Sockets \ {s} : handler'[t] = handler[t]
    <3>1. PICK list, flag : handler' = [handler EXCEPT ![s].pc = "upsert", ![s].todo = list,
                                                       ![s].flag = flag]
      BY <1>6 DEF ListMembers, ScoreAdd
    <3> QED
      BY <1>1, <1>6, <3>1 DEF ListMembers, ScoreAdd, MayCommand, Handler
  <2> QED
    BY <1>2, <2>1 DEF SameConns, Coming
<1>7. ASSUME NEW u \in Users, UpsertMember(s, u) PROVE Opened' = Opened
  BY <1>1, <1>2, <1>7 DEF UpsertMember, SameConns, Coming, Handler
<1>8. CASE SyncMembers(s) \/ RoundCommand(s) \/ Unregister(s)
  BY <1>1, <1>2, <1>8 DEF SyncMembers, RoundCommand, Unregister, MayCommand, Goto,
     SameConns, Coming, Handler
<1>9. CASE SnapshotConns(s) \/ SendAll(s) \/ SetConnectedFalse(s)
  BY <1>1, <1>2, <1>9 DEF SnapshotConns, SendAll, SetConnectedFalse, SameConns, Coming, Handler
<1>10. CASE SendPanics(s) \/ Bye(s)
  BY <1>1, <1>2, <1>10 DEF SendPanics, Bye, Ended, Outside, SameConns, Coming, Handler
<1>11. CASE ReadFails(s)
  BY <1>1, <1>2, <1>11 DEF ReadFails, Ended, Outside, Goto, SameConns, Coming, Handler
<1>12. CASE Ping(s) \/ Answer(s)
  BY <1>1, <1>2, <1>12 DEF Ping, Answer, SameConns, Coming, Handler
<1> QED
  BY <1>3, <1>4, <1>5, <1>6, <1>7, <1>8, <1>9, <1>10, <1>11, <1>12 DEF HandlerStep, ClientStep

LEMMA RegistryStep ==
    ASSUME HInv, HInv', OnlyOpened, [Next]_vars
    PROVE  Implements
<1>1. TypeOK /\ TypeOK' /\ sweeper.closing \subseteq Opened
  BY DEF HInv, OnlyOpened
<1>2. ASSUME NEW s \in Sockets, HandlerStep(s) \/ ClientStep(s)
      PROVE  Implements
  <2>1. CASE Register(s)
    BY <2>1, ImplementsByRegister
  <2>2. ASSUME ~Register(s)
        PROVE  Opened' = Opened /\ sweeper' = sweeper
    <3>1. sweeper' = sweeper
      BY <1>2 DEF HandlerStep, ClientStep, Accept, Join, GetRoom, Register, ListMembers,
         UpsertMember, SyncMembers, SnapshotConns, SendAll, Answer, SendPanics, Ping,
         RoundCommand, ScoreAdd, ReadFails, Unregister, SetConnectedFalse, Bye
    <3> QED
      BY <1>2, <2>2, <3>1, HandlerKeepsOpened
  <2>3. CASE GetRoom(s)
    <3>1. ~Register(s) /\ closed' = closed
      BY <2>3 DEF GetRoom, Register, net
    <3>2. CASE conns' = conns
      BY <1>1, <2>2, <3>1, <3>2, ImplementsByStuttering
    <3>3. ASSUME NEW r \in RoomHubs, conns' = [conns EXCEPT ![r] = NoConns]
          PROVE  Implements
      <4>1. \A q \in RoomHubs, u \in Users :
                conns'[q][u] = IF q = r /\ u \in Users THEN None ELSE conns[q][u]
        BY <1>1, <3>3 DEF TypeOK, NoConns
      <4> QED
        BY <1>1, <2>2, <3>1, <4>1, ImplementsByRemoval
    <3> QED
      BY <2>3, <3>2, <3>3, FreshRoom, NoneAssumption DEF GetRoom, rooms
  <2>4. CASE Unregister(s)
    <3>1. ~Register(s) /\ closed' = closed /\ handler[s].room \in RoomHubs /\ UserOf(s) \in Users
      BY <2>4 DEF Unregister, Register, net, HInv, WellPlaced, Placed, UserOf
    <3>2. PICK r \in RoomHubs, v \in Users : conns' = [conns EXCEPT ![r][v] = None]
      BY <2>4, <3>1 DEF Unregister
    <3>3. PICK users \in SUBSET Users : users = {v}
      OBVIOUS
    <3>4. \A q \in RoomHubs, u \in Users :
              conns'[q][u] = IF q = r /\ u \in users THEN None ELSE conns[q][u]
      BY <1>1, <3>2, <3>3 DEF TypeOK
    <3> QED
      BY <1>1, <2>2, <3>1, <3>4, ImplementsByRemoval
  <2>5. CASE Bye(s)
    <3>1. ~Register(s) /\ conns' = conns /\ closed' = closed \union {Current(s)}
      BY <2>5 DEF Bye, Register, rooms
    <3>2. Current(s) \in Opened
      <4>1. handler[s].room \in RoomHubs /\ handler[s].pc = "bye" /\ handler[s].joins > 0
        BY <2>5, NoneAssumption DEF Bye, HInv, WellPlaced, Placed
      <4>2. Current(s) \in Conn /\ handler[s].joins \in Nat
        BY <1>1, <4>1, Connections, MaxJoinsAssumption
      <4> QED
        BY <4>1, <4>2 DEF Opened, Current
    <3> QED
      BY <1>1, <2>2, <3>1, <3>2, ImplementsByClosing
  <2>6. CASE ~Register(s) /\ ~GetRoom(s) /\ ~Unregister(s) /\ ~Bye(s)
    <3>1. UNCHANGED <<conns, closed>>
      BY <1>2, <2>6 DEF HandlerStep, ClientStep, Accept, Join, ListMembers, UpsertMember,
         SyncMembers, SnapshotConns, SendAll, Answer, SendPanics, Ping, RoundCommand, ScoreAdd,
         ReadFails, SetConnectedFalse, rooms, net
    <3> QED
      BY <1>1, <2>2, <2>6, <3>1, ImplementsByStuttering
  <2> QED
    BY <2>1, <2>3, <2>4, <2>5, <2>6
<1>3. ASSUME handler' = handler
      PROVE  Opened' = Opened
  BY <1>3 DEF Opened, Current
<1>4. CASE Scan
  <2>1. PICK t \in sweeper.todo :
            /\ conns' = [conns EXCEPT ![t[2]] =
                  [u \in Users |-> IF conns[t[2]][u] \in Sweepable(t[2]) THEN None
                                   ELSE conns[t[2]][u]]]
            /\ sweeper'.closing = Sweepable(t[2])
    BY <1>1, <1>4 DEF Scan, TypeOK, Sweeper
  <2>2. t[2] \in RoomHubs /\ UNCHANGED <<closed, handler>>
    BY <1>1, <1>4 DEF Scan, net, TypeOK, Sweeper
  <2>3. PICK r \in RoomHubs : r = t[2]
    BY <2>2
  <2> DEFINE users == {u \in Users : conns[r][u] \in Sweepable(r)}
  <2>4. \A q \in RoomHubs, u \in Users :
            conns'[q][u] = IF q = r /\ u \in users THEN None ELSE conns[q][u]
    BY <1>1, <2>1, <2>3 DEF TypeOK
  <2>5. Sweepable(r) \subseteq Opened
    BY DEF Sweepable, Registered, Range, OnlyOpened, HInv, TypeOK
  <2> HIDE DEF users
  <2>6. users \in SUBSET Users
    BY DEF users
  <2> QED
    BY <1>1, <1>3, <2>1, <2>2, <2>3, <2>4, <2>5, <2>6, ImplementsByRemoval
<1>5. CASE CloseSwept
  <2>1. UNCHANGED <<conns, handler>> /\ closed' = closed \union sweeper.closing
    BY <1>5 DEF CloseSwept, rooms
  <2>2. sweeper'.closing \subseteq Opened
    BY <1>1, <1>5 DEF CloseSwept, TypeOK, Sweeper
  <2> QED
    BY <1>1, <1>3, <2>1, <2>2, ImplementsByClosing
<1>6. CASE SweepPanics
  BY <1>1, <1>6, ImplementsByCrash
<1>7. CASE Tick \/ SweepSnapshot \/ SweepSend \/ CheckEmpty \/ DropRoom
  <2>1. UNCHANGED <<conns, closed, handler>>
    BY <1>7 DEF Tick, SweepSnapshot, SweepSend, CheckEmpty, DropRoom, rooms, net
  <2>2. sweeper'.closing \subseteq Opened
    <3>1. Tick \/ DropRoom => sweeper'.closing = {}
      BY DEF Tick, DropRoom, NextRoom, Waiting, ToVisit
    <3>2. CheckEmpty => sweeper'.closing \in {{}, sweeper.closing}
      BY <1>1 DEF CheckEmpty, NextRoom, Waiting, ToVisit, TypeOK, Sweeper
    <3>3. SweepSnapshot \/ SweepSend => sweeper'.closing = sweeper.closing
      BY <1>1 DEF SweepSnapshot, SweepSend, TypeOK, Sweeper
    <3> QED
      BY <1>1, <1>7, <3>1, <3>2, <3>3
  <2> QED
    BY <1>3, <2>1, <2>2, ImplementsByStuttering
<1>8. ASSUME NEW w \in Conn, WriteFails(w)
      PROVE  Implements
  <2>1. UNCHANGED <<conns, handler, sweeper>> /\ closed' = closed \union {w} /\ w \in Opened
    BY <1>8 DEF WriteFails, rooms
  <2> QED
    BY <1>1, <1>3, <2>1, ImplementsByClosing
<1>9. CASE (\E w \in Conn : ConnGoesIdle(w)) \/ (\E r \in RoomHubs : RoomGoesQuiet(r)) \/ UNCHANGED vars
  <2>1. UNCHANGED <<conns, closed, handler, sweeper>>
    BY <1>9 DEF ConnGoesIdle, RoomGoesQuiet, vars, rooms, net
  <2> QED
    BY <1>1, <1>3, <2>1, ImplementsByStuttering
<1> QED
  BY <1>2, <1>4, <1>5, <1>6, <1>7, <1>8, <1>9 DEF Next, SweeperStep

\* The handlers of any number of sockets and the sweeper are one registry of connections,
\* whatever their interleaving, reconnects and panics (hub.go:76-97, sweeper.go:30-49).
THEOREM Refinement == Spec => ImplementsRegistry
<1>1. Init => R!Init /\ OnlyOpened
  <2> SUFFICES ASSUME Init PROVE R!Init /\ OnlyOpened
    OBVIOUS
  <2>1. /\ conns = [r \in RoomHubs |-> [u \in Users |-> None]] /\ closed = {}
        /\ sweeper.closing = {} /\ \A s \in Sockets : handler[s].joins = 0
    BY DEF Init, NoConns, Waiting, ToVisit, Outside
  <2>2. Opened = {}
    <3>1. ASSUME NEW w \in Conn PROVE w \notin Opened
      <4>1. w[1] \in Sockets /\ w[2] \in 1 .. MaxJoins
        BY DEF Conn
      <4> QED
        BY <2>1, <4>1 DEF Opened
    <3> QED
      BY <3>1 DEF Opened
  <2> QED
    BY <2>1, <2>2 DEF R!Init, R!Empty, OnlyOpened
<1>2. HInv /\ HInv' /\ OnlyOpened /\ [Next]_vars => [R!Next]_(R!vars) /\ OnlyOpened'
  BY RegistryStep DEF Implements
<1> QED
  BY <1>1, <1>2, Invariance, PTL DEF Spec, ImplementsRegistry, R!Spec
=============================================================================
