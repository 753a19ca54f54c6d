---------------------------- MODULE GameSession ----------------------------
(***************************************************************************)
(* A round from the host's command to the players' cards: host:start_round *)
(* and host:end_round of src/internal/ws/handler.go, on top of the store   *)
(* (RoundLedger, which RoundStore implements) and of the connections that  *)
(* are registered in the hub's rooms (Registry, which Hub implements),     *)
(* while players and host come and go.  The sweeper may delete a RoomHub   *)
(* under a handler, so two handlers of the host may be in different ones,  *)
(* with other players each, and command the same row of the database.      *)
(*                                                                         *)
(* A store call may time out, or its process die, with its COMMIT on the   *)
(* way: the transaction keeps the room's row until the database has        *)
(* committed it or dropped it.  A host that reconnects has two handlers,   *)
(* the old one perhaps in the middle of a command.                         *)
(***************************************************************************)
CONSTANTS
    Users, Host,      \* the room's owner, who plays as well: conns holds everybody
    Room, RoomHubs,   \* the host's room in the database, the hub's rooms
    Characters, RoundIds, None,
    Conn, UserOf,     \* the connections, none of which is registered twice, and their users
    Hosting           \* the host's connections under the room's code, each with a handler

ASSUME HostAssumption == Host \in Users
ASSUME UserOfAssumption == UserOf \in [Conn -> Users]
ASSUME HostingAssumption == Hosting \subseteq {w \in Conn : UserOf[w] = Host}
ASSUME NoneAssumption == None \notin RoundIds \union Conn \union {Room} \union RoomHubs

VARIABLES
    conns, opened, closed,                      \* the connections, as in Registry
    current, roundRoom, ended, assignments,     \* the tables, as in RoundLedger
    inflight,    \* the transaction whose caller is not waiting for its COMMIT any more
    handler,     \* the host's handlers, by their connection
    home,        \* the RoomHub each of them is in
    got,         \* the round:assigned messages queued on each connection
    last         \* history: the handler of the host's last command, if nothing overlapped it

sockets == <<conns, opened, closed, home>>
ledger == <<current, roundRoom, ended, assignments>>
vars == <<sockets, ledger, inflight, handler, got, last>>

Registry == INSTANCE Registry WITH Rooms <- RoomHubs
Ledger == INSTANCE RoundLedger WITH Rooms <- {Room}

Connected == [Users -> Conn \union {None}]
Assignment == [round : RoundIds, user : Users, character : Characters]
Message == [round : RoundIds, cards : SUBSET Assignment]

NoHandler == [pc |-> "none", snapshot |-> [u \in Users |-> None], round |-> None,
              assigns |-> {}, todo |-> {}, target |-> None, answer |-> "none"]

Handler ==
    [pc : {"none", "read", "asked", "start", "locked", "send", "reply", "end", "ending"},
     snapshot : Connected, round : RoundIds \union {None},
     assigns : SUBSET Assignment, todo : SUBSET Users, target : Conn \union {None},
     answer : {"none", "started", "ended", "failed"}]

Transaction == [op : {"start", "end"}, round : RoundIds \union {None}, players : SUBSET Users]

TypeOK ==
    /\ conns \in [RoomHubs -> Connected]
    /\ opened \in SUBSET Conn /\ closed \in SUBSET Conn
    /\ current \in [{Room} -> RoundIds \union {None}]
    /\ roundRoom \in [RoundIds -> {Room, None}]
    /\ ended \in SUBSET RoundIds /\ assignments \in SUBSET Assignment
    /\ inflight \in Transaction \union {None}
    /\ handler \in [Hosting -> Handler] /\ home \in [Hosting -> RoomHubs \union {None}]
    /\ got \in [Conn -> SUBSET Message]
    /\ last \in Hosting \union {None}

Init ==
    /\ Registry!Init
    /\ Ledger!Init
    /\ inflight = None
    /\ handler = [h \in Hosting |-> NoHandler]
    /\ home = [h \in Hosting |-> None]
    /\ got = [w \in Conn |-> {}]
    /\ last = None

\* The connections registered where the handler is, by user.
Here(h) == IF home[h] = None THEN NoHandler.snapshot ELSE conns[home[h]]

At(h, pc) == handler[h].pc = pc

\* The users a round is dealt to: all that were registered when the host asked.
Players(h) == {u \in Users : handler[h].snapshot[u] # None}

\* No transaction holds the room's row.
RowFree == inflight = None /\ \A h \in Hosting : handler[h].pc \notin {"locked", "ending"}

\* The handlers that wait for the store.
Calling == {h \in Hosting : handler[h].pc \in {"start", "locked", "end", "ending"}}

\* The handler is at pc, and of its command only the answer and its round matter.
Forget(h, pc, answer, round) ==
    handler' = [handler EXCEPT ![h] =
                  [NoHandler EXCEPT !.pc = pc, !.answer = answer, !.round = round]]

\* The store's part is over and there is nothing to deliver.
Answer(h, answer) == Forget(h, "reply", answer, None)

-----------------------------------------------------------------------------
(* Connections, which the hub gives and takes at any time.  An operator named Bug... *)
(* below is a faulty version of the one after it; no action uses it, it stands for a *)
(* bug the checks must find. *)

\* A user joins.  A host that joins again on its socket counts as another handler.
Register(r, w) ==
    /\ Registry!Register(r, UserOf[w], w)
    /\ IF w \in Hosting
       THEN handler' = [handler EXCEPT ![w].pc = "read"] /\ home' = [home EXCEPT ![w] = r]
       ELSE UNCHANGED <<handler, home>>
    /\ UNCHANGED <<ledger, inflight, got, last>>

\* A handler that ends takes its user's connection, whichever that is, out of the map;
\* the sweeper takes silent ones.
Remove(r, users) ==
    /\ Registry!Remove(r, users)
    /\ UNCHANGED <<home, ledger, inflight, handler, got, last>>

\* A handler that ends, a write that fails or the sweeper.
Close(ws) ==
    /\ Registry!Close(ws)
    /\ UNCHANGED <<home, ledger, inflight, handler, got, last>>

\* A handler of the host that is not in the middle of a command reads no more.
ReadFails(h) ==
    /\ At(h, "read")
    /\ Forget(h, "none", "none", None)
    /\ UNCHANGED <<sockets, ledger, inflight, got, last>>

\* The transaction of a handler that is about to commit.
Starting(h) == [op |-> "start", round |-> handler[h].round, players |-> Players(h)]
Ending == [op |-> "end", round |-> None, players |-> {}]

\* The process dies, and is started again.  A transaction is rolled back, unless its
\* COMMIT has left.
Crash ==
    /\ Registry!Crash
    /\ handler' = [h \in Hosting |-> NoHandler]
    /\ \/ \E h \in Hosting : At(h, "locked") /\ inflight' = Starting(h)
       \/ \E h \in Hosting : At(h, "ending") /\ current[Room] # None /\ inflight' = Ending
       \/ UNCHANGED inflight
    /\ UNCHANGED <<home, ledger, got, last>>

-----------------------------------------------------------------------------
(* host:start_round *)

\* The command is read.  It is served even if the connection is closed meanwhile.
ReadStart(h) ==
    /\ At(h, "read") /\ h \notin closed
    /\ Forget(h, "asked", "none", None)
    /\ UNCHANGED <<sockets, ledger, inflight, got, last>>

\* The registered users are its players.
StartRound(h) ==
    /\ At(h, "asked")
    /\ \E u \in Users : Here(h)[u] # None
    /\ handler' = [handler EXCEPT ![h] = [NoHandler EXCEPT !.pc = "start", !.snapshot = Here(h)]]
    /\ last' = IF Calling = {} THEN h ELSE None
    /\ UNCHANGED <<sockets, ledger, inflight, got>>

\* SELECT ... FOR UPDATE finds no round, and the round's row is inserted.
LockToStart(h) ==
    /\ At(h, "start") /\ RowFree
    /\ current[Room] = None
    /\ \E id \in RoundIds :
          /\ roundRoom[id] = None
          /\ handler' = [handler EXCEPT ![h].pc = "locked", ![h].round = id]
    /\ UNCHANGED <<sockets, ledger, inflight, got, last>>

BugHostNotDealt(h) ==
    /\ At(h, "locked")
    /\ Ledger!Open(Room, handler[h].round, Players(h))
    /\ handler' = [handler EXCEPT ![h].pc = "send", ![h].answer = "started",
                      ![h].assigns = assignments' \ assignments,
                      ![h].todo = Players(h) \ {Host}]
    /\ UNCHANGED <<sockets, inflight, got, last>>

\* The store has dealt and committed, and says so.
Started(h) ==
    /\ At(h, "locked")
    /\ Ledger!Open(Room, handler[h].round, Players(h))
    /\ handler' = [handler EXCEPT ![h].pc = "send", ![h].answer = "started",
                      ![h].assigns = assignments' \ assignments, ![h].todo = Players(h)]
    /\ UNCHANGED <<sockets, inflight, got, last>>

\* Nobody is registered, a round is open, the characters do not suffice, a statement
\* fails, or 8 s are over: nothing is written.
StartFails(h) ==
    /\ \/ handler[h].pc \in {"start", "locked"}
       \/ At(h, "asked") /\ \A u \in Users : Here(h)[u] = None
    /\ Answer(h, "failed")
    /\ UNCHANGED <<sockets, ledger, inflight, got, last>>

\* The 8 s are over while COMMIT is on its way.
StartUnanswered(h) ==
    /\ At(h, "locked")
    /\ inflight' = Starting(h)
    /\ Answer(h, "failed")
    /\ UNCHANGED <<sockets, ledger, got, last>>

\* SendTo, for the next of the dealt players: the connection is looked up under the lock.
SendTo(h, u) ==
    /\ At(h, "send") /\ handler[h].target = None /\ u \in handler[h].todo
    /\ handler' = [handler EXCEPT ![h].todo = @ \ {u}, ![h].target = Here(h)[u]]
    /\ UNCHANGED <<sockets, ledger, inflight, got, last>>

BugOwnCardSent(h) ==
    LET to == handler[h].target IN
    /\ At(h, "send") /\ to # None
    /\ got' = IF to \in closed THEN got
              ELSE [got EXCEPT ![to] = @ \union {[round |-> handler[h].round,
                                                 cards |-> handler[h].assigns]}]
    /\ handler' = [handler EXCEPT ![h].target = None]
    /\ UNCHANGED <<sockets, ledger, inflight, last>>

\* Send: the cards of the others are queued, or the connection is closed.
Deliver(h) ==
    LET to == handler[h].target
        cards == {a \in handler[h].assigns : a.user # UserOf[to]}
    IN
    /\ At(h, "send") /\ to # None
    /\ got' = IF to \in closed THEN got
              ELSE [got EXCEPT ![to] = @ \union {[round |-> handler[h].round, cards |-> cards]}]
    /\ handler' = [handler EXCEPT ![h].target = None]
    /\ UNCHANGED <<sockets, ledger, inflight, last>>

-----------------------------------------------------------------------------
(* host:end_round *)

EndRound(h) ==
    /\ At(h, "read") /\ h \notin closed
    /\ handler' = [handler EXCEPT ![h] = [NoHandler EXCEPT !.pc = "end"]]
    /\ last' = IF Calling = {} THEN h ELSE None
    /\ UNCHANGED <<sockets, ledger, inflight, got>>

BugEndWithoutForUpdate(h) ==
    /\ At(h, "end")
    /\ handler' = [handler EXCEPT ![h].pc = "ending"]
    /\ UNCHANGED <<sockets, ledger, inflight, got, last>>

LockToEnd(h) ==
    /\ At(h, "end") /\ RowFree
    /\ handler' = [handler EXCEPT ![h].pc = "ending"]
    /\ UNCHANGED <<sockets, ledger, inflight, got, last>>

BugEndsNothing(h) ==
    /\ At(h, "ending")
    /\ current' = [current EXCEPT ![Room] = None] /\ ended' = ended \union {current[Room]}
    /\ Answer(h, "ended")
    /\ UNCHANGED <<sockets, roundRoom, assignments, inflight, got, last>>

\* Without an open round there is nothing to do, which is no error.
Ended(h) ==
    /\ At(h, "ending")
    /\ Ledger!Close(Room) \/ (current[Room] = None /\ UNCHANGED ledger)
    /\ Answer(h, "ended")
    /\ UNCHANGED <<sockets, inflight, got, last>>

EndFails(h) ==
    /\ handler[h].pc \in {"end", "ending"}
    /\ Answer(h, "failed")
    /\ UNCHANGED <<sockets, ledger, inflight, got, last>>

EndUnanswered(h) ==
    /\ At(h, "ending") /\ current[Room] # None
    /\ inflight' = Ending
    /\ Answer(h, "failed")
    /\ UNCHANGED <<sockets, ledger, got, last>>

-----------------------------------------------------------------------------
(* The database and the answers *)

\* A COMMIT nobody waits for any more takes effect ...
LateCommit ==
    /\ inflight # None
    /\ \/ inflight.op = "start" /\ Ledger!Open(Room, inflight.round, inflight.players)
       \/ inflight.op = "end" /\ Ledger!Close(Room)
    /\ inflight' = None
    /\ UNCHANGED <<sockets, handler, got, last>>

\* ... or is lost with its connection, and the database rolls back.
LateRollback ==
    /\ inflight # None
    /\ inflight' = None
    /\ UNCHANGED <<sockets, ledger, handler, got, last>>

\* The handler has sent everything it had to send.
Sent(h) == At(h, "reply") \/ (At(h, "send") /\ handler[h].todo = {} /\ handler[h].target = None)

\* The answer is sent, the presence is broadcast, and the next command is read.
Reply(h) ==
    /\ Sent(h)
    /\ Forget(h, "read", handler[h].answer, handler[h].round)
    /\ UNCHANGED <<sockets, ledger, inflight, got, last>>

\* A send meets a closed channel: the handler ends without unregistering anybody.
SendPanics(h) ==
    /\ \/ At(h, "send") /\ handler[h].target \in closed
       \/ Sent(h) /\ closed \intersect ({h} \union {Here(h)[u] : u \in Users}) # {}
    /\ Forget(h, "none", "none", None)
    /\ UNCHANGED <<sockets, ledger, inflight, got, last>>

Command(h) ==
    \/ ReadStart(h) \/ StartRound(h) \/ LockToStart(h)
    \/ Started(h) \/ StartFails(h) \/ StartUnanswered(h)
    \/ (\E u \in Users : SendTo(h, u)) \/ Deliver(h)
    \/ EndRound(h) \/ LockToEnd(h) \/ Ended(h) \/ EndFails(h) \/ EndUnanswered(h)
    \/ Reply(h) \/ SendPanics(h)

Next ==
    \/ \E r \in RoomHubs :
          \/ \E w \in Conn : Register(r, w)
          \/ \E users \in SUBSET {u \in Users : conns[r][u] # None} : users # {} /\ Remove(r, users)
    \/ \E ws \in SUBSET (opened \ closed) : ws # {} /\ Close(ws)
    \/ \E h \in Hosting : Command(h) \/ ReadFails(h)
    \/ Crash \/ LateCommit \/ LateRollback

Spec == Init /\ [][Next]_vars

-----------------------------------------------------------------------------
\* "all OTHER players' assignments (they need to guess their own)" (handler.go:279):
\* what a player is sent are the recorded cards of all the others of a recorded round in
\* which it plays, and never its own, whoever reconnects and whatever is answered late.
OnlyOthersCards ==
    \A w \in Conn : \A m \in got[w] :
        /\ m.cards = {a \in assignments : a.round = m.round /\ a.user # UserOf[w]}
        /\ \E a \in assignments : a.round = m.round /\ a.user = UserOf[w]

\* When a start has sent all it had to send, every player that still has the connection
\* it had when the host asked, open, has been sent the cards of the round.  Only who
\* came, left or came back meanwhile may lack them (handler.go:255-260, :295).
StayersHaveTheirCards ==
    \A h \in Hosting :
        At(h, "send") /\ handler[h].todo = {} /\ handler[h].target = None =>
            \A u \in Players(h) :
                Here(h)[u] = handler[h].snapshot[u] /\ Here(h)[u] \notin closed =>
                    \E m \in got[Here(h)[u]] : m.round = handler[h].round

\* A COMMIT that was given up for lost cannot come true behind the back of a later
\* answer: while no other command overlaps, the host that is told a round started has
\* that round open, also while its cards are dealt, and the host that is told the round
\* ended has none (handler.go:269, :403; ws_game_store.go:88, :199).
AnswerIsTrue ==
    last # None /\ handler[last].pc \in {"send", "read"} =>
        /\ handler[last].answer = "started" => current[Room] = handler[last].round
        /\ handler[last].answer = "ended" => current[Room] = None
=============================================================================
