-------------------------------- MODULE Hub --------------------------------
(***************************************************************************)
(* The hub (src/internal/ws/hub.go), the part of every socket's handler    *)
(* that uses it (handler.go: join, the host's commands, ping, disconnect)  *)
(* and the sweeper (sweeper.go), all running at once.                      *)
(*                                                                         *)
(* Each step between two lock regions, database calls or sends is an       *)
(* action.  A socket s is a handler goroutine; its n-th join makes the     *)
(* WSConn <<s, n>>.  A RoomHub is an object: a handler or the sweeper may  *)
(* hold one that the hub's map no longer names, and one nobody holds is    *)
(* garbage.  Clocks are sets: the connections last seen, and the rooms     *)
(* last active, longer ago than the sweeper's timeouts.  What a WSConn     *)
(* does inside is WSConn's business; here it is closed or not, and a Send  *)
(* to a closed one may panic, which WSConn shows.                          *)
(***************************************************************************)
EXTENDS FiniteSets, Functions, Naturals

CONSTANTS
    Sockets, Users, Codes,
    Hosts,      \* the users that own the rooms
    RoomHubs,   \* the RoomHub objects
    MaxJoins,   \* bound: room:join messages per socket
    None        \* Go's nil

ASSUME HostsAssumption == Hosts \subseteq Users
ASSUME MaxJoinsAssumption == MaxJoins \in Nat
ASSUME NoneAssumption == None \notin Users \union RoomHubs \union Codes \union (Sockets \X Nat)

VARIABLES
    hub,        \* Hub.rooms
    conns,      \* RoomHub.conns
    members,    \* RoomHub.members[u].Connected, "absent" when u has no entry
    quiet,      \* rooms with lastActivity older than RoomIdleTimeout
    idle,       \* WSConns with lastSeen older than ConnIdleTimeout
    closed,     \* WSConns on which Close has run
    down,       \* sockets that are closed
    db,         \* room_members, by room
    handler,    \* the handlers' program counters and locals
    sweeper     \* the sweeper's

rooms == <<hub, conns, members, quiet>>
net == <<idle, closed, down>>
vars == <<hub, conns, members, quiet, idle, closed, down, db, handler, sweeper>>

Conn == Sockets \X (1 .. MaxJoins)

Handler ==
    [pc : {"off", "read", "get", "register", "list", "upsert", "broadcast", "send",
           "answer", "unregister", "setoff", "bye", "gone"},
     user : Users \union {None}, joins : 0 .. MaxJoins, code : Codes \union {None}, room : RoomHubs \union {None},
     todo : SUBSET Users, flag : {"off", "on"}, targets : SUBSET Conn, leaving : BOOLEAN]

Sweeper ==
    [pc : {"wait", "scan", "close", "broadcast", "send", "delete", "drop"},
     todo : SUBSET (Codes \X RoomHubs), code : Codes \union {None},
     room : RoomHubs \union {None}, closing : SUBSET Conn, targets : SUBSET Conn,
     empty : BOOLEAN]

TypeOK ==
    /\ hub \in [Codes -> RoomHubs \union {None}]
    /\ conns \in [RoomHubs -> [Users -> Conn \union {None}]]
    /\ members \in [RoomHubs -> [Users -> {"absent", "off", "on"}]]
    /\ quiet \in SUBSET RoomHubs
    /\ idle \in SUBSET Conn /\ closed \in SUBSET Conn /\ down \in SUBSET Sockets
    /\ db \in [Codes -> SUBSET Users]
    /\ handler \in [Sockets -> Handler]
    /\ sweeper \in Sweeper

-----------------------------------------------------------------------------
\* The handler's locals userID, from the token that opened the socket, and wsconn.
UserOf(s) == handler[s].user
Current(s) == <<s, handler[s].joins>>

\* An operator named Bug... is a faulty version of the one after it; no action uses
\* it, it stands for a bug the checks must find.
BugNilConns(r) == Range(conns[r])

\* The connections registered in a room.
Registered(r) == Range(conns[r]) \ {None}

\* The connections that have been registered, if the process lived: one on its way to
\* Register has nothing to write yet.
Opened == {w \in Conn : /\ w[2] <= handler[w[1]].joins
                        /\ w = Current(w[1]) => handler[w[1]].pc \notin {"get", "register"}}

\* The RoomHub objects somebody can still reach.
Held == Range(hub) \union {handler[s].room : s \in Sockets}
          \union {sweeper.room} \union {t[2] : t \in sweeper.todo}

\* Any other one is a new one.
NewRoomHub == CHOOSE r \in RoomHubs : r \notin Held

NoConns == [u \in Users |-> None]
NoMembers == [u \in Users |-> "absent"]

\* The handler of user u that is in no room and has joined n times.
Outside(pc, u, n) ==
    [pc |-> pc, user |-> u, joins |-> n, code |-> None, room |-> None, todo |-> {},
     flag |-> "off", targets |-> {}, leaving |-> FALSE]

Ended(s) == Outside("gone", UserOf(s), handler[s].joins)

\* The sweeper between two rooms, with these still to visit.
ToVisit(pc, todo) ==
    [pc |-> pc, todo |-> todo, code |-> None, room |-> None,
     closing |-> {}, targets |-> {}, empty |-> FALSE]

Waiting == ToVisit("wait", {})

NextRoom == IF sweeper.todo = {} THEN Waiting ELSE ToVisit("scan", sweeper.todo)

Goto(s, pc) == handler' = [handler EXCEPT ![s].pc = pc]

Init ==
    /\ hub = [c \in Codes |-> None]
    /\ conns = [r \in RoomHubs |-> NoConns]
    /\ members = [r \in RoomHubs |-> NoMembers]
    /\ quiet = {} /\ idle = {} /\ closed = {} /\ down = {}
    /\ db = [c \in Codes |-> {}]
    /\ handler = [s \in Sockets |-> Outside("off", None, 0)]
    /\ sweeper = Waiting

-----------------------------------------------------------------------------
(* The handler: connecting and joining *)

Accept(s, u) ==
    /\ handler[s].pc = "off"
    /\ handler' = [handler EXCEPT ![s] = Outside("read", u, 0)]
    /\ UNCHANGED <<rooms, net, db, sweeper>>

\* room:join passes its checks and the member's row is written; wsconn is replaced,
\* room is not yet.
Join(s, c) ==
    /\ handler[s].pc = "read" /\ s \notin down
    /\ handler[s].joins < MaxJoins
    /\ db' = [db EXCEPT ![c] = @ \union {UserOf(s)}]
    /\ handler' = [handler EXCEPT ![s].pc = "get", ![s].code = c, ![s].joins = @ + 1]
    /\ UNCHANGED <<rooms, net, sweeper>>

\* Not while TryDeleteEmptyRoom has the hub's lock.
GetRoom(s) ==
    /\ handler[s].pc = "get" /\ sweeper.pc # "drop"
    /\ LET c == handler[s].code IN
       \/ /\ hub[c] # None
          /\ handler' = [handler EXCEPT ![s].pc = "register", ![s].room = hub[c]]
          /\ UNCHANGED rooms
       \/ /\ hub[c] = None /\ RoomHubs \ Held # {}
          /\ LET r == NewRoomHub IN
             /\ hub' = [hub EXCEPT ![c] = r]
             /\ conns' = [conns EXCEPT ![r] = NoConns]
             /\ members' = [members EXCEPT ![r] = NoMembers]
             /\ quiet' = quiet \ {r}
             /\ handler' = [handler EXCEPT ![s].pc = "register", ![s].room = r]
    /\ UNCHANGED <<net, db, sweeper>>

BugOldNotClosed(s) ==
    /\ handler[s].pc = "register"
    /\ conns' = [conns EXCEPT ![handler[s].room][UserOf(s)] = Current(s)]
    /\ quiet' = quiet \ {handler[s].room}
    /\ Goto(s, "list")
    /\ UNCHANGED <<hub, members, net, db, sweeper>>

\* The user's connection in the room, if any, is closed and replaced.
Register(s) ==
    LET r == handler[s].room
        old == conns[r][UserOf(s)]
    IN
    /\ handler[s].pc = "register"
    /\ conns' = [conns EXCEPT ![r][UserOf(s)] = Current(s)]
    /\ IF old = None
       THEN UNCHANGED <<closed, down>>
       ELSE closed' = closed \union {old} /\ down' = down \union {old[1]}
    /\ quiet' = quiet \ {r}
    /\ Goto(s, "list")
    /\ UNCHANGED <<hub, members, idle, db, sweeper>>

\* ListRoomMembers.  Its error is ignored, and with an error it returns what it has read.
ListMembers(s) ==
    /\ handler[s].pc = "list"
    /\ \E list \in SUBSET db[handler[s].code] :
          handler' = [handler EXCEPT ![s].pc = "upsert", ![s].todo = list, ![s].flag = "off"]
    /\ UNCHANGED <<rooms, net, db, sweeper>>

\* One UpsertMemberState of the loop over the listed members.
UpsertMember(s, u) ==
    /\ handler[s].pc = "upsert" /\ u \in handler[s].todo
    /\ members' = [members EXCEPT ![handler[s].room][u] = handler[s].flag]
    /\ handler' = [handler EXCEPT ![s].todo = @ \ {u}]
    /\ UNCHANGED <<hub, conns, quiet, net, db, sweeper>>

BugNotRecomputed(s) ==
    /\ handler[s].pc = "upsert" /\ handler[s].todo = {}
    /\ handler' = [handler EXCEPT ![s].pc = "broadcast", ![s].flag = "off"]
    /\ UNCHANGED <<rooms, net, db, sweeper>>

\* Connected is recomputed from conns for every member, in one lock region.
SyncMembers(s) ==
    LET r == handler[s].room IN
    /\ handler[s].pc = "upsert" /\ handler[s].todo = {}
    /\ members' = [members EXCEPT ![r] =
          [u \in Users |-> IF @[u] = "absent" THEN "absent"
                           ELSE IF conns[r][u] = None THEN "off" ELSE "on"]]
    /\ handler' = [handler EXCEPT ![s].pc = "broadcast", ![s].flag = "off"]
    /\ UNCHANGED <<hub, conns, quiet, net, db, sweeper>>

-----------------------------------------------------------------------------
(* The handler: replies and broadcasts *)

\* BroadcastPresence copies the connections and leaves the lock.  The reply to the
\* handler's own client, sent just before, is one more target.
SnapshotConns(s) ==
    /\ handler[s].pc = "broadcast"
    /\ handler' = [handler EXCEPT
          ![s].pc = "send",
          ![s].targets = Registered(handler[s].room)
                           \union (IF handler[s].leaving THEN {} ELSE {Current(s)})]
    /\ UNCHANGED <<rooms, net, db, sweeper>>

\* The sends return.  A handler that goes on touches its current connection.
SendAll(s) ==
    /\ handler[s].pc = "send"
    /\ quiet' = quiet \ {handler[s].room}
    /\ IF handler[s].leaving
       THEN handler' = [handler EXCEPT ![s].pc = "bye", ![s].targets = {}] /\ UNCHANGED idle
       ELSE /\ handler' = [handler EXCEPT ![s].pc = "read", ![s].targets = {}]
            /\ idle' = idle \ {Current(s)}
    /\ UNCHANGED <<hub, conns, members, closed, down, db, sweeper>>

\* A target was closed before its send.  net/http recovers the panic; of the handler's
\* clean-up only the deferred close of the socket runs.
SendPanics(s) ==
    /\ handler[s].pc \in {"send", "answer"}
    /\ handler[s].targets \intersect closed # {}
    /\ handler' = [handler EXCEPT ![s] = Ended(s)]
    /\ down' = down \union {s}
    /\ UNCHANGED <<rooms, idle, closed, db, sweeper>>

\* client:ping, or a message that is refused.
Ping(s) ==
    /\ handler[s].pc = "read" /\ s \notin down /\ handler[s].joins > 0
    /\ handler' = [handler EXCEPT ![s].pc = "answer", ![s].targets = {Current(s)}]
    /\ UNCHANGED <<rooms, net, db, sweeper>>

\* The answer is sent.  A ping touches the connection, a refusal does not.
Answer(s) ==
    /\ handler[s].pc = "answer"
    /\ handler' = [handler EXCEPT ![s].pc = "read", ![s].targets = {}]
    /\ idle' \in {idle, idle \ {Current(s)}}
    /\ UNCHANGED <<rooms, closed, down, db, sweeper>>

MayCommand(s) ==
    /\ handler[s].pc = "read" /\ s \notin down
    /\ handler[s].room # None /\ UserOf(s) \in Hosts

\* host:start_round and host:end_round change no state of the hub but by broadcasting.
RoundCommand(s) ==
    /\ MayCommand(s)
    /\ Goto(s, "broadcast")
    /\ UNCHANGED <<rooms, net, db, sweeper>>

\* host:score_add refreshes every listed member as connected, then recomputes.
ScoreAdd(s) ==
    /\ MayCommand(s)
    /\ \E list \in SUBSET db[handler[s].code] :
          handler' = [handler EXCEPT ![s].pc = "upsert", ![s].todo = list, ![s].flag = "on"]
    /\ UNCHANGED <<rooms, net, db, sweeper>>

-----------------------------------------------------------------------------
(* The handler: leaving *)

\* The read fails: the client left, or the server closed the socket.
ReadFails(s) ==
    /\ handler[s].pc = "read"
    /\ down' = down \union {s}
    /\ IF handler[s].room = None
       THEN handler' = [handler EXCEPT ![s] = Ended(s)]
       ELSE Goto(s, "unregister")
    /\ UNCHANGED <<rooms, idle, closed, db, sweeper>>

\* Whatever connection the user has in the room is removed.
Unregister(s) ==
    LET r == handler[s].room IN
    /\ handler[s].pc = "unregister"
    /\ conns' = [conns EXCEPT ![r][UserOf(s)] = None]
    /\ quiet' = quiet \ {r}
    /\ Goto(s, "setoff")
    /\ UNCHANGED <<hub, members, net, db, sweeper>>

SetConnectedFalse(s) ==
    LET r == handler[s].room
        u == UserOf(s)
    IN
    /\ handler[s].pc = "setoff"
    /\ members' = [members EXCEPT ![r][u] = IF @ = "absent" THEN @ ELSE "off"]
    /\ handler' = [handler EXCEPT ![s].pc = "broadcast", ![s].leaving = TRUE]
    /\ UNCHANGED <<hub, conns, quiet, net, db, sweeper>>

Bye(s) ==
    /\ handler[s].pc = "bye"
    /\ closed' = closed \union {Current(s)}
    /\ down' = down \union {s}
    /\ handler' = [handler EXCEPT ![s] = Ended(s)]
    /\ UNCHANGED <<rooms, idle, db, sweeper>>

-----------------------------------------------------------------------------
(* The sweeper *)

BugTickSkipsEmptyRooms ==
    /\ sweeper.pc = "wait"
    /\ \E c \in Codes : hub[c] # None /\ Registered(hub[c]) # {}
    /\ sweeper' = ToVisit("scan", {<<c, hub[c]>> : c \in
          {d \in Codes : hub[d] # None /\ Registered(hub[d]) # {}}})
    /\ UNCHANGED <<rooms, net, db, handler>>

\* RoomSnapshot: the sweep visits the rooms that exist now.
Tick ==
    /\ sweeper.pc = "wait"
    /\ \E c \in Codes : hub[c] # None
    /\ sweeper' = ToVisit("scan", {<<c, hub[c]>> : c \in {d \in Codes : hub[d] # None}})
    /\ UNCHANGED <<rooms, net, db, handler>>

BugSweepSkipsClosed(r) == (Registered(r) \intersect idle) \ closed

Sweepable(r) == Registered(r) \intersect idle

\* Under the room's lock: idle connections leave conns, their members go off, and
\* whether the room is empty and long inactive is noted.
Scan ==
    /\ sweeper.pc = "scan"
    /\ \E t \in sweeper.todo :
       LET r == t[2]
           swept == Sweepable(r)
           kept == [u \in Users |-> IF conns[r][u] \in swept THEN None ELSE conns[r][u]]
       IN
       /\ conns' = [conns EXCEPT ![r] = kept]
       /\ members' = [members EXCEPT ![r] =
             [u \in Users |-> IF conns[r][u] \in swept /\ @[u] # "absent" THEN "off" ELSE @[u]]]
       /\ sweeper' = [sweeper EXCEPT
             !.pc = IF swept = {} THEN "delete" ELSE "close",
             !.todo = @ \ {t}, !.code = t[1], !.room = r, !.closing = swept,
             !.empty = (kept = NoConns /\ r \in quiet)]
    /\ UNCHANGED <<hub, quiet, net, db, handler>>

BugSweptNotClosed ==
    /\ sweeper.pc = "close"
    /\ sweeper' = [sweeper EXCEPT !.pc = "broadcast", !.closing = {}]
    /\ UNCHANGED <<rooms, net, db, handler>>

CloseSwept ==
    /\ sweeper.pc = "close"
    /\ closed' = closed \union sweeper.closing
    /\ down' = down \union {w[1] : w \in sweeper.closing}
    /\ sweeper' = [sweeper EXCEPT !.pc = "broadcast", !.closing = {}]
    /\ UNCHANGED <<rooms, idle, db, handler>>

SweepSnapshot ==
    /\ sweeper.pc = "broadcast"
    /\ sweeper' = [sweeper EXCEPT !.pc = "send", !.targets = Registered(sweeper.room)]
    /\ UNCHANGED <<rooms, net, db, handler>>

SweepSend ==
    /\ sweeper.pc = "send"
    /\ quiet' = quiet \ {sweeper.room}
    /\ sweeper' = [sweeper EXCEPT !.pc = "delete", !.targets = {}]
    /\ UNCHANGED <<hub, conns, members, net, db, handler>>

\* Nobody recovers a panic of the sweeper's goroutine: the process dies, and with it
\* every room and socket.  The database stays.
SweepPanics ==
    /\ sweeper.pc = "send"
    /\ sweeper.targets \intersect closed # {}
    /\ hub' = [c \in Codes |-> None]
    /\ conns' = [r \in RoomHubs |-> NoConns]
    /\ members' = [r \in RoomHubs |-> NoMembers]
    /\ quiet' = {}
    /\ handler' = [s \in Sockets |-> IF handler[s].pc = "off" THEN handler[s] ELSE Ended(s)]
    /\ closed' = {w \in Conn : w[2] <= handler[w[1]].joins}
    /\ down' = {s \in Sockets : handler[s].pc # "off"}
    /\ sweeper' = Waiting
    /\ UNCHANGED <<idle, db>>

BugDeleteUnchecked ==
    /\ sweeper.pc = "delete"
    /\ sweeper' = IF sweeper.empty THEN [sweeper EXCEPT !.pc = "drop"] ELSE NextRoom
    /\ UNCHANGED <<rooms, net, db, handler>>

\* TryDeleteEmptyRoom takes the hub's lock, looks the code up again and looks again,
\* under the room's lock, whether it is empty.
CheckEmpty ==
    LET c == sweeper.code
        gone == sweeper.empty /\ hub[c] # None /\ conns[hub[c]] = NoConns
    IN
    /\ sweeper.pc = "delete"
    /\ sweeper' = IF gone THEN [sweeper EXCEPT !.pc = "drop"] ELSE NextRoom
    /\ UNCHANGED <<rooms, net, db, handler>>

\* It has left the room's lock: who holds the room may have registered in it since.
DropRoom ==
    /\ sweeper.pc = "drop"
    /\ hub' = [hub EXCEPT ![sweeper.code] = None]
    /\ sweeper' = NextRoom
    /\ UNCHANGED <<conns, members, quiet, net, db, handler>>

-----------------------------------------------------------------------------
(* Time and the network *)

\* Half a minute goes by only while the handler waits for its client or in a send: its
\* other steps take a lock or a database call of at most 3 s.
Resting(s) == handler[s].pc \in {"off", "read", "send", "answer", "gone"}

\* 30 s pass without a message that touches w.  (Only a registered one is looked at.)  The
\* sweeper compares with the time of its tick: what ages during a sweep ages for the next.
ConnGoesIdle(w) ==
    /\ w \notin idle
    /\ \E c \in Codes : hub[c] # None /\ w \in Registered(hub[c])
    /\ sweeper.pc = "wait" /\ Resting(w[1])
    /\ idle' = idle \union {w}
    /\ UNCHANGED <<rooms, closed, down, db, handler, sweeper>>

\* 40 s pass without activity in r.
RoomGoesQuiet(r) ==
    /\ r \in Range(hub) \ quiet
    /\ sweeper.pc = "wait" /\ \A s \in Sockets : handler[s].room = r => Resting(s)
    /\ quiet' = quiet \union {r}
    /\ UNCHANGED <<hub, conns, members, net, db, handler, sweeper>>

\* writeLoop fails to write and closes its own connection.
WriteFails(w) ==
    /\ w \in Opened \ closed
    /\ closed' = closed \union {w}
    /\ down' = down \union {w[1]}
    /\ UNCHANGED <<rooms, idle, db, handler, sweeper>>

-----------------------------------------------------------------------------
\* What a handler does of itself once it has read a message, or failed to.
HandlerStep(s) ==
    \/ GetRoom(s) \/ Register(s) \/ ListMembers(s)
    \/ (\E u \in Users : UpsertMember(s, u)) \/ SyncMembers(s)
    \/ SnapshotConns(s) \/ SendAll(s) \/ Answer(s) \/ SendPanics(s)
    \/ Unregister(s) \/ SetConnectedFalse(s) \/ Bye(s)
    \/ (s \in down /\ ReadFails(s))

SweeperStep ==
    \/ Tick \/ Scan \/ CloseSwept \/ SweepSnapshot \/ SweepSend \/ SweepPanics
    \/ CheckEmpty \/ DropRoom

\* What clients send, and when they leave.
ClientStep(s) ==
    \/ (\E u \in Users : Accept(s, u)) \/ (\E c \in Codes : Join(s, c))
    \/ Ping(s) \/ RoundCommand(s) \/ ScoreAdd(s) \/ ReadFails(s)

Next ==
    \/ \E s \in Sockets : HandlerStep(s) \/ ClientStep(s)
    \/ SweeperStep
    \/ \E w \in Conn : ConnGoesIdle(w) \/ WriteFails(w)
    \/ \E r \in RoomHubs : RoomGoesQuiet(r)

Spec == Init /\ [][Next]_vars

\* A host in a room broadcasts as often as it likes, whether it is registered or not.
HostInside(r) == \E s \in Sockets : handler[s].room = r /\ UserOf(s) \in Hosts /\ s \notin down

\* Goroutines are scheduled, calls return, and time passes: a socket that is down sends
\* nothing, so 30 s go by on its connection, and 40 s in a room no host is in.  No client
\* has to send anything, nor to leave.
FairSpec ==
    /\ Spec
    /\ \A s \in Sockets : WF_vars(HandlerStep(s))
    /\ WF_vars(SweeperStep)
    /\ \A w \in Conn : SF_vars(w[1] \in down /\ ConnGoesIdle(w))
    /\ \A r \in RoomHubs : SF_vars(~HostInside(r) /\ RoomGoesQuiet(r))

-----------------------------------------------------------------------------
(* Safety *)

\* A member shown as connected is: in a room, a member without a connection can be "on"
\* only while a handler still has to correct it, the one that removed the connection
\* (handler.go:435-436) or one between its upserts and its recomputation (:193-209,
\* :355-375).  Whatever the interleaving, nobody stays connected for ever by mistake.
Correcting(s, r, u) ==
    /\ handler[s].room = r
    /\ handler[s].pc = "upsert" \/ (handler[s].pc = "setoff" /\ UserOf(s) = u)

NoPhantomMember ==
    \A r \in RoomHubs, u \in Users :
        members[r][u] = "on" /\ conns[r][u] = None => \E s \in Sockets : Correcting(s, r, u)

\* A handler that has joined and serves its client, over an open socket the sweeper has
\* not just picked to close.
Serving(s) ==
    /\ handler[s].pc \in {"list", "upsert", "broadcast", "send", "answer", "read"}
    /\ handler[s].room # None /\ ~handler[s].leaving
    /\ s \notin down /\ Current(s) \notin sweeper.closing

\* "Send each player all OTHER players' assignments" (handler.go:279): whoever is being
\* served is reachable, conns has the connection and SendTo finds it.  It fails when a
\* user reconnects: Unregister removes by user (hub.go:93).
ServedIsRegistered ==
    \A s \in Sockets :
        Serving(s) => conns[handler[s].room][UserOf(s)] = Current(s)

\* The user has opened at most one socket.
OneSocket(u) == \A s, t \in Sockets : UserOf(s) = u /\ UserOf(t) = u => s = t

\* A second socket is the only way to that: while a user opens none, no join, leave,
\* sweep or panic of anybody takes its connection from the map as long as it is served.
OneSocketIsRegistered ==
    \A s \in Sockets :
        OneSocket(UserOf(s)) /\ Serving(s) => conns[handler[s].room][UserOf(s)] = Current(s)

\* A registered member that has an entry is shown as connected, or a handler of the room
\* is on its way to the recomputation (handler.go:189-209, :355-375): no upsert, leave or
\* sweep leaves it shown as gone.  SetConnected(false) of a leaving handler (:436) is why
\* it is said of a user with one socket only.
Recomputing(s, r) == handler[s].room = r /\ handler[s].pc \in {"list", "upsert"}

RegisteredIsShown ==
    \A r \in RoomHubs, u \in Users :
        OneSocket(u) /\ conns[r][u] # None /\ members[r][u] = "off"
        => \E s \in Sockets : Recomputing(s, r)

\* Everybody served under a code is in the room the hub has under that code: a host's
\* broadcast (handler.go:255-260, :315) reaches every player of the code.
ServedIsInTheRoom ==
    \A s \in Sockets : Serving(s) => hub[handler[s].code] = handler[s].room

\* The hub has the handler's room under its code, and is not about to drop it.
InItsRoom(s) ==
    /\ hub[handler[s].code] = handler[s].room
    /\ ~(sweeper.pc = "drop" /\ sweeper.code = handler[s].code)

\* Whoever the sweeper's second look (hub.go:160-162) finds served keeps its room: between
\* that look and the delete (:165), and between its own GetRoom and Register, a joining
\* client may lose the room it gets, one that is served in it never does, however long ago
\* the sweeper saw the room empty (sweeper.go:47).
ServedRoomStays ==
    [][ \A s \in Sockets :
          OneSocket(UserOf(s)) /\ Serving(s) /\ Serving(s)' /\ InItsRoom(s) => InItsRoom(s)' ]_vars

\* The goroutines are one registry: whoever registers, unregisters, sweeps or fails in
\* the middle, a connection is registered once, is closed when another takes its place,
\* and never comes back (hub.go:78-95, :151-169).
R == INSTANCE Registry WITH Rooms <- RoomHubs, opened <- Opened
ImplementsRegistry == R!Spec

\* ConnIdleTimeout (sweeper.go:9): the sweeper picks a connection of a client that has
\* been silent for 30 s.  A client whose handler is back at its read, its current
\* connection touched since, has not been silent and keeps its socket.
SweepsOnlySilent ==
    [][ Scan =>
          \A w \in sweeper'.closing :
              w[1] \notin down /\ handler[w[1]].pc = "read" => Current(w[1]) \in idle ]_vars

-----------------------------------------------------------------------------
(* Liveness *)

InRoom(c, w) == hub[c] # None /\ w \in Registered(hub[c])

\* The connection of a client that has gone leaves the room it is registered in, even
\* when its handler panicked before unregistering it (sweeper.go:30-46).
DeadConnsLeave ==
    \A c \in Codes, w \in Conn : []<>~(InRoom(c, w) /\ w[1] \in down)

\* A room without connections is deleted, or somebody joins it (sweeper.go:58-60), unless
\* a host is still inside, whose connection a reconnect took out of the map and whose
\* commands keep the room active (hub.go:121-123).
EmptyRoomsGo ==
    \A c \in Codes : []<>(hub[c] = None \/ Registered(hub[c]) # {} \/ HostInside(hub[c]))
=============================================================================
