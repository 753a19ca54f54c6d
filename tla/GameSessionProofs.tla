------------------------- MODULE GameSessionProofs -------------------------
(***************************************************************************)
(* GameSession for any number of users, connections, rounds and characters:*)
(* what players are sent, who is sent it, and what the host's answers are  *)
(* worth when commits come late.                                           *)
(***************************************************************************)
EXTENDS GameSession, TLAPS

-----------------------------------------------------------------------------
(* The inductive invariant *)

Holding == {"locked", "ending"}

\* The room's row has one holder, a handler or a transaction nobody waits for.
Locking ==
    \A h \in Hosting : handler[h].pc \in Holding =>
        inflight = None /\ \A m \in Hosting \ {h} : handler[m].pc \notin Holding

\* A transaction that will insert a round has an id for it, and no card is under way.
Identified ==
    /\ \A h \in Hosting : At(h, "locked") => handler[h].round \in RoundIds
    /\ \A h \in Hosting : handler[h].pc \in {"start", "locked"} => handler[h].target = None
    /\ inflight # None /\ inflight.op = "start" => inflight.round \in RoundIds

Recorded == \A a \in assignments : roundRoom[a.round] = Room

\* A handler that sends cards has all the cards of its round, and only players to send to.
Dealing ==
    \A h \in Hosting : At(h, "send") =>
        /\ handler[h].round \in RoundIds /\ roundRoom[handler[h].round] = Room
        /\ handler[h].assigns = {a \in assignments : a.round = handler[h].round}
        /\ \A u \in Players(h) : \E a \in handler[h].assigns : a.user = u
        /\ handler[h].todo \subseteq Players(h)
        /\ handler[h].target # None => UserOf[handler[h].target] \in Players(h)

NoOne == [u \in Users |-> None]

\* A user's connections are the hub's, and one that is yet to come has no handler.
Known ==
    /\ \A r \in RoomHubs, u \in Users : conns[r][u] # None =>
          conns[r][u] \in opened /\ UserOf[conns[r][u]] = u
    /\ \A h \in Hosting, u \in Users : handler[h].snapshot[u] # None =>
          handler[h].snapshot[u] \in opened /\ UserOf[handler[h].snapshot[u]] = u
    /\ \A h \in Hosting : h \notin opened => handler[h] = NoHandler

\* A player whose turn has come and who stays has the cards or is about to be sent them.
Served(h, u) ==
    Here(h)[u] = handler[h].snapshot[u] /\ Here(h)[u] \notin closed =>
        \/ handler[h].target = Here(h)[u]
        \/ \E m \in got[Here(h)[u]] : m.round = handler[h].round

Serving == \A h \in Hosting : At(h, "send") => \A u \in Players(h) \ handler[h].todo : Served(h, u)

\* The handler of the last command is the only one that waits for the store, and once it
\* has its answer no transaction is left.
LastWord ==
    last # None =>
        /\ last \in Hosting /\ Calling \subseteq {last}
        /\ last \in Calling => handler[last].answer = "none"
        /\ handler[last].answer \in {"started", "ended"} => inflight = None
        /\ handler[last].answer = "started" => current[Room] = handler[last].round
        /\ handler[last].answer = "ended" => current[Room] = None

GInv == TypeOK /\ Locking /\ Identified /\ Recorded /\ Dealing /\ Known /\ Serving
            /\ LastWord /\ OnlyOthersCards
-----------------------------------------------------------------------------
(* Connections and rounds *)

LEMMA ConnFacts ==
    /\ Hosting \subseteq Conn /\ None \notin Conn
    /\ \A w \in Conn : UserOf[w] \in Users
BY HostingAssumption, UserOfAssumption, NoneAssumption

\* The fields of a handler that runs no command, and of one that has just joined.
LEMMA AtRest ==
    /\ NoHandler.pc = "none" /\ NoHandler.snapshot = NoOne /\ NoHandler.answer = "none"
    /\ NoHandler.target = None
    /\ LET g == [NoHandler EXCEPT !.pc = "read"] IN
          g.pc = "read" /\ g.snapshot = NoOne /\ g.answer = "none" /\ g.target = None
BY DEF NoHandler, NoOne

\* A handler sees the connections of its RoomHub, and nobody before it has one.
LEMMA HereTyped ==
    ASSUME TypeOK, NEW h \in Hosting
    PROVE  /\ Here(h) \in Connected /\ \A u \in Users : Here(h)[u] \in Conn \union {None}
           /\ \A u \in Users : Here(h)[u] # None =>
                 home[h] \in RoomHubs /\ Here(h)[u] = conns[home[h]][u]
<1>1. CASE home[h] = None
    BY <1>1 DEF Here, NoHandler, Connected
<1>2. CASE home[h] \in RoomHubs
    BY <1>2, NoneAssumption DEF Here, TypeOK, Connected
<1> QED
    BY <1>1, <1>2 DEF TypeOK

LEMMA HereKnown ==
    ASSUME TypeOK, Known, NEW h \in Hosting, NEW u \in Users, Here(h)[u] # None
    PROVE  Here(h)[u] \in opened /\ UserOf[Here(h)[u]] = u
BY HereTyped DEF Known

\* What it sees afterwards.
LEMMA HereNext ==
    ASSUME NEW h \in Hosting
    PROVE  Here(h)' = IF home'[h] = None THEN NoOne ELSE conns'[home'[h]]
BY DEF Here, NoHandler, NoOne

\* What opening a round does to the tables.
LEMMA OpenFacts ==
    ASSUME TypeOK, Recorded, NEW id \in RoundIds, NEW players \in SUBSET Users,
           Ledger!Open(Room, id, players)
    PROVE  /\ roundRoom[id] = None /\ roundRoom' = [roundRoom EXCEPT ![id] = Room]
           /\ current' = [current EXCEPT ![Room] = id] /\ ended' = ended
           /\ assignments \subseteq assignments' /\ assignments' \in SUBSET Assignment
           /\ \A a \in assignments' \ assignments : a.round = id
           /\ \A a \in assignments : a.round # id
           /\ \A u \in players : \E a \in assignments' \ assignments : a.user = u
<1>1. PICK deal \in Ledger!Injection(players, Characters \ Ledger!Given(Room)) :
          assignments' = assignments \union Ledger!RowsOf(id, deal)
    BY DEF Ledger!Open
<1>2. deal \in [players -> Characters]
    BY <1>1 DEF Ledger!Injection
<1>3. /\ roundRoom[id] = None /\ roundRoom' = [roundRoom EXCEPT ![id] = Room]
      /\ current' = [current EXCEPT ![Room] = id] /\ ended' = ended
    BY DEF Ledger!Open
<1>4. \A a \in assignments : a.round # id
    BY <1>3, NoneAssumption DEF Recorded
<1>5. Ledger!RowsOf(id, deal) \in SUBSET Assignment
    BY <1>2 DEF Ledger!RowsOf, Assignment
<1>6. \A a \in Ledger!RowsOf(id, deal) : a.round = id
    BY DEF Ledger!RowsOf
<1>7. \A u \in players : \E a \in Ledger!RowsOf(id, deal) : a.user = u
    <2>1. ASSUME NEW u \in players
          PROVE  [round |-> id, user |-> u, character |-> deal[u]] \in Ledger!RowsOf(id, deal)
        BY <1>2 DEF Ledger!RowsOf
    <2> QED
        BY <2>1
<1>8. assignments' \ assignments = Ledger!RowsOf(id, deal)
    BY <1>1, <1>4, <1>6
<1> QED
    BY <1>1, <1>3, <1>4, <1>5, <1>6, <1>7, <1>8 DEF TypeOK

\* What closing one does.
LEMMA CloseFacts ==
    ASSUME TypeOK, Ledger!Close(Room) \/ (current[Room] = None /\ UNCHANGED ledger)
    PROVE  /\ UNCHANGED <<roundRoom, assignments>> /\ current'[Room] = None
           /\ current' \in [{Room} -> RoundIds \union {None}] /\ ended' \in SUBSET RoundIds
<1>1. CASE Ledger!Close(Room)
    BY <1>1 DEF TypeOK, Ledger!Close
<1>2. CASE current[Room] = None /\ UNCHANGED ledger
    BY <1>2 DEF TypeOK, ledger
<1> QED
    BY <1>1, <1>2

-----------------------------------------------------------------------------
(* What the actions do to the handlers *)

Others(h) == \A m \in Hosting \ {h} : handler'[m] = handler[m]

LEMMA RestTyped == NoHandler \in Handler
<1>1. NoOne \in Connected
    BY DEF NoOne, Connected
<1> QED
    BY <1>1 DEF NoHandler, Handler, NoOne

\* A handler's next state is one.
LEMMA Retyped ==
    ASSUME NEW h \in Handler
    PROVE  /\ \A c \in Connected : [NoHandler EXCEPT !.pc = "start", !.snapshot = c] \in Handler
           /\ [NoHandler EXCEPT !.pc = "end"] \in Handler
           /\ \A id \in RoundIds : [h EXCEPT !.pc = "locked", !.round = id] \in Handler
           /\ [h EXCEPT !.pc = "read"] \in Handler /\ [h EXCEPT !.pc = "ending"] \in Handler
           /\ \A rows \in SUBSET Assignment, us \in SUBSET Users :
                 [h EXCEPT !.pc = "send", !.answer = "started", !.assigns = rows,
                           !.todo = us] \in Handler
           /\ \A u : \A w \in Conn \union {None} :
                 [h EXCEPT !.todo = @ \ {u}, !.target = w] \in Handler
           /\ [h EXCEPT !.target = None] \in Handler
           /\ \A pc \in {"asked", "reply", "read", "none"}, answer \in {"none", "started", "ended", "failed"},
                 round \in RoundIds \union {None} :
                 [NoHandler EXCEPT !.pc = pc, !.answer = answer, !.round = round] \in Handler
BY RestTyped DEF Handler

\* A new command: nothing is left of the last one.
Begins(h, pc, snapshot) ==
    /\ handler[h].pc \in {"read", "asked"} /\ handler'[h].pc = pc
    /\ handler'[h].snapshot = snapshot /\ handler'[h].answer = "none"
    /\ handler'[h].target = None

\* The command is over, or the handler is.
Forgets(h, pc, answer, round) ==
    /\ handler'[h].pc = pc /\ handler'[h].answer = answer /\ handler'[h].round = round
    /\ handler'[h].snapshot = NoOne

LEMMA BeginEffect ==
    ASSUME TypeOK, NEW h \in Hosting, StartRound(h) \/ EndRound(h)
    PROVE  /\ \/ Begins(h, "start", Here(h))
              \/ Begins(h, "end", NoOne)
           /\ Others(h) /\ handler' \in [Hosting -> Handler]
<1>1. handler \in [Hosting -> Handler] /\ Here(h) \in Connected
    BY HereTyped DEF TypeOK
<1>2. CASE StartRound(h)
    <2>1. handler' = [handler EXCEPT ![h] = [NoHandler EXCEPT !.pc = "start", !.snapshot = Here(h)]]
        BY <1>2 DEF StartRound
    <2>2. handler'[h] = [NoHandler EXCEPT !.pc = "start", !.snapshot = Here(h)] /\ Others(h)
        BY <1>1, <2>1 DEF Others
    <2>3. handler' \in [Hosting -> Handler]
        BY <1>1, <2>1, Retyped
    <2>4. Begins(h, "start", Here(h))
        BY <1>2, <2>2 DEF Begins, NoHandler, StartRound, At
    <2> QED
        BY <2>2, <2>3, <2>4
<1>3. CASE EndRound(h)
    <2>1. handler' = [handler EXCEPT ![h] = [NoHandler EXCEPT !.pc = "end"]]
        BY <1>3 DEF EndRound
    <2>2. handler'[h] = [NoHandler EXCEPT !.pc = "end"] /\ Others(h)
        BY <1>1, <2>1 DEF Others
    <2>3. handler' \in [Hosting -> Handler]
        BY <1>1, <2>1, Retyped
    <2>4. Begins(h, "end", NoOne)
        BY <1>3, <2>2 DEF Begins, NoHandler, NoOne, EndRound, At
    <2> QED
        BY <2>2, <2>3, <2>4
<1> QED
    BY <1>2, <1>3

LEMMA ForgetEffect ==
    ASSUME TypeOK, NEW h \in Hosting, NEW pc \in {"asked", "reply", "read", "none"},
           NEW answer \in {"none", "started", "ended", "failed"},
           NEW round \in RoundIds \union {None}, Forget(h, pc, answer, round)
    PROVE  Forgets(h, pc, answer, round) /\ Others(h) /\ handler' \in [Hosting -> Handler]
<1>1. handler \in [Hosting -> Handler]
    BY DEF TypeOK
<1>2. handler' = [handler EXCEPT ![h] =
                    [NoHandler EXCEPT !.pc = pc, !.answer = answer, !.round = round]]
    BY DEF Forget
<1>3. /\ handler'[h] = [NoHandler EXCEPT !.pc = pc, !.answer = answer, !.round = round]
      /\ Others(h)
    BY <1>1, <1>2 DEF Others
<1>4. handler' \in [Hosting -> Handler]
    BY <1>1, <1>2, Retyped
<1> QED
    BY <1>3, <1>4 DEF Forgets, NoHandler, NoOne

\* A step inside a command keeps its players.
LockEffectOf(h, pc, round) ==
    /\ handler'[h].pc = pc /\ handler'[h].round = round
    /\ handler'[h].snapshot = handler[h].snapshot /\ handler'[h].answer = handler[h].answer
    /\ handler'[h].target = handler[h].target

LEMMA LockEffect ==
    ASSUME TypeOK, NEW h \in Hosting, LockToStart(h) \/ LockToEnd(h)
    PROVE  /\ \/ At(h, "start") /\ \E id \in RoundIds : LockEffectOf(h, "locked", id)
              \/ At(h, "end") /\ LockEffectOf(h, "ending", handler[h].round)
           /\ Others(h) /\ handler' \in [Hosting -> Handler]
<1>1. handler \in [Hosting -> Handler]
    BY DEF TypeOK
<1>2. CASE LockToStart(h)
    <2>1. PICK id \in RoundIds : handler' = [handler EXCEPT ![h].pc = "locked", ![h].round = id]
        BY <1>2 DEF LockToStart
    <2>2. Others(h) /\ LockEffectOf(h, "locked", id)
        BY <1>1, <2>1 DEF Others, LockEffectOf, Handler
    <2>3. handler' \in [Hosting -> Handler]
        BY <1>1, <2>1, Retyped
    <2> QED
        BY <1>2, <2>2, <2>3 DEF LockToStart
<1>3. CASE LockToEnd(h)
    <2>1. handler' = [handler EXCEPT ![h].pc = "ending"]
        BY <1>3 DEF LockToEnd
    <2>2. Others(h) /\ LockEffectOf(h, "ending", handler[h].round)
        BY <1>1, <2>1 DEF Others, LockEffectOf, Handler
    <2>3. handler' \in [Hosting -> Handler]
        BY <1>1, <2>1, Retyped
    <2> QED
        BY <1>3, <2>2, <2>3 DEF LockToEnd
<1> QED
    BY <1>2, <1>3

StartedEffectOf(h) ==
    /\ handler'[h].pc = "send" /\ handler'[h].answer = "started"
    /\ handler'[h].round = handler[h].round /\ handler'[h].snapshot = handler[h].snapshot
    /\ handler'[h].assigns = assignments' \ assignments /\ handler'[h].todo = Players(h)
    /\ handler'[h].target = handler[h].target

LEMMA StartedEffect ==
    ASSUME TypeOK, NEW h \in Hosting, Started(h), assignments' \in SUBSET Assignment
    PROVE  StartedEffectOf(h) /\ Others(h) /\ handler' \in [Hosting -> Handler]
<1>1. handler \in [Hosting -> Handler]
    BY DEF TypeOK
<1>2. handler' = [handler EXCEPT ![h].pc = "send", ![h].answer = "started",
                      ![h].assigns = assignments' \ assignments, ![h].todo = Players(h)]
    BY DEF Started
<1>3. Others(h) /\ StartedEffectOf(h)
    BY <1>1, <1>2 DEF Others, StartedEffectOf, Handler
<1>4. assignments' \ assignments \in SUBSET Assignment /\ Players(h) \in SUBSET Users
    BY DEF Players
<1>5. handler' \in [Hosting -> Handler]
    BY <1>1, <1>2, <1>4, Retyped
<1> QED
    BY <1>3, <1>5

\* A send keeps the round and its cards.
SendEffectOf(h, todo, target) ==
    /\ handler'[h].pc = handler[h].pc /\ handler'[h].answer = handler[h].answer
    /\ handler'[h].round = handler[h].round /\ handler'[h].snapshot = handler[h].snapshot
    /\ handler'[h].assigns = handler[h].assigns
    /\ handler'[h].todo = todo /\ handler'[h].target = target

LEMMA SendToEffect ==
    ASSUME TypeOK, NEW h \in Hosting, NEW u \in Users, SendTo(h, u)
    PROVE  /\ SendEffectOf(h, handler[h].todo \ {u}, Here(h)[u])
           /\ Others(h) /\ handler' \in [Hosting -> Handler]
<1>1. handler \in [Hosting -> Handler] /\ Here(h) \in Connected
    BY HereTyped DEF TypeOK
<1>2. Here(h)[u] \in Conn \union {None}
    BY HereTyped
<1>3. handler' = [handler EXCEPT ![h].todo = @ \ {u}, ![h].target = Here(h)[u]]
    BY DEF SendTo
<1>4. Others(h) /\ SendEffectOf(h, handler[h].todo \ {u}, Here(h)[u])
    BY <1>1, <1>3 DEF Others, SendEffectOf, Handler
<1>5. handler' \in [Hosting -> Handler]
    BY <1>1, <1>2, <1>3, Retyped
<1> QED
    BY <1>4, <1>5

LEMMA DeliverEffect ==
    ASSUME TypeOK, NEW h \in Hosting, Deliver(h)
    PROVE  /\ SendEffectOf(h, handler[h].todo, None) /\ Others(h)
           /\ handler' \in [Hosting -> Handler]
<1>1. handler \in [Hosting -> Handler] /\ handler' = [handler EXCEPT ![h].target = None]
    BY DEF TypeOK, Deliver
<1>2. Others(h) /\ SendEffectOf(h, handler[h].todo, None)
    BY <1>1 DEF Others, SendEffectOf, Handler
<1>3. handler' \in [Hosting -> Handler]
    BY <1>1, Retyped
<1> QED
    BY <1>2, <1>3

-----------------------------------------------------------------------------
(* The steps, by what they leave alone *)

\* Handler h's step that sends nothing and writes nothing to the tables.
Silent(h) ==
    \/ ReadStart(h) \/ StartRound(h) \/ EndRound(h) \/ LockToStart(h) \/ LockToEnd(h)
    \/ StartFails(h) \/ EndFails(h) \/ StartUnanswered(h) \/ EndUnanswered(h)
    \/ Reply(h) \/ SendPanics(h) \/ ReadFails(h)

\* Connections come and go.
SocketStep ==
    \/ \E r \in RoomHubs, w \in Conn : Register(r, w)
    \/ \E r \in RoomHubs, users \in SUBSET Users : Remove(r, users)
    \/ \E ws \in SUBSET Conn : Close(ws)

LEMMA StepCases ==
    ASSUME TypeOK, [Next]_vars
    PROVE  \/ SocketStep \/ Crash \/ LateCommit \/ LateRollback \/ UNCHANGED vars
           \/ \E h \in Hosting :
                 Silent(h) \/ Started(h) \/ Ended(h) \/ Deliver(h) \/ (\E u \in Users : SendTo(h, u))
BY DEF Next, Command, SocketStep, Silent, TypeOK

\* A silent step leaves its handler where it does not send.
LEMMA SilentEffect ==
    ASSUME TypeOK, NEW h \in Hosting, Silent(h)
    PROVE  /\ handler'[h].pc # "send" /\ Others(h) /\ handler' \in [Hosting -> Handler]
           /\ \/ handler'[h].snapshot = Here(h)
              \/ handler'[h].snapshot = handler[h].snapshot
              \/ handler'[h].snapshot = NoOne
           /\ UNCHANGED <<sockets, ledger, got>> /\ handler[h].pc # "none"
<1>1. handler \in [Hosting -> Handler]
    BY DEF TypeOK
<1>2. CASE StartRound(h) \/ EndRound(h)
    BY <1>2, BeginEffect DEF StartRound, EndRound, Begins, At
<1>3. CASE LockToStart(h) \/ LockToEnd(h)
    BY <1>3, LockEffect DEF LockToStart, LockToEnd, LockEffectOf, At
<1>4. CASE StartFails(h) \/ EndFails(h) \/ StartUnanswered(h) \/ EndUnanswered(h)
    <2>1. Forget(h, "reply", "failed", None)
        BY <1>4 DEF StartFails, EndFails, StartUnanswered, EndUnanswered, Answer
    <2>2. /\ UNCHANGED <<sockets, ledger, got>> /\ handler[h].pc # "none"
        BY <1>4 DEF StartFails, EndFails, StartUnanswered, EndUnanswered, At
    <2> QED
        BY <2>1, <2>2, ForgetEffect DEF Forgets
<1>5. CASE Reply(h)
    <2>1. Forget(h, "read", handler[h].answer, handler[h].round)
        BY <1>5 DEF Reply
    <2>2. /\ handler[h].answer \in {"none", "started", "ended", "failed"}
          /\ handler[h].round \in RoundIds \union {None}
        BY <1>1 DEF Handler
    <2>3. Forgets(h, "read", handler[h].answer, handler[h].round) /\ Others(h)
              /\ handler' \in [Hosting -> Handler]
        BY <2>1, <2>2, ForgetEffect
    <2> QED
        BY <1>5, <2>3 DEF Forgets, Reply, Sent, At
<1>6. CASE SendPanics(h)
    <2>1. Forget(h, "none", "none", None)
        BY <1>6 DEF SendPanics
    <2>2. Forgets(h, "none", "none", None) /\ Others(h) /\ handler' \in [Hosting -> Handler]
        BY <2>1, ForgetEffect
    <2> QED
        BY <1>6, <2>2 DEF Forgets, SendPanics, Sent, At
<1>7. CASE ReadStart(h)
    <2>1. Forgets(h, "asked", "none", None) /\ Others(h) /\ handler' \in [Hosting -> Handler]
        BY <1>7, ForgetEffect DEF ReadStart
    <2> QED
        BY <1>7, <2>1 DEF Forgets, ReadStart, At
<1>8. CASE ReadFails(h)
    <2>1. Forgets(h, "none", "none", None) /\ Others(h) /\ handler' \in [Hosting -> Handler]
        BY <1>8, ForgetEffect DEF ReadFails
    <2> QED
        BY <1>8, <2>1 DEF Forgets, ReadFails, At
<1> QED
    BY <1>2, <1>3, <1>4, <1>5, <1>6, <1>7, <1>8 DEF Silent

\* A handler goes on where it is, or it is new, as its connection is.
Stays(h) == handler'[h] = handler[h] /\ home'[h] = home[h]
Joins(h) ==
    /\ h \notin opened /\ h \in opened' /\ handler[h] = NoHandler
    /\ handler'[h] = [NoHandler EXCEPT !.pc = "read"]

\* Connections leave a room or are new, and none comes back.
Moves ==
    \A r \in RoomHubs, u \in Users :
        \/ conns'[r][u] \in {conns[r][u], None}
        \/ conns'[r][u] \in opened' \ opened /\ UserOf[conns'[r][u]] = u

LEMMA SocketEffect ==
    ASSUME TypeOK, Known, SocketStep
    PROVE  /\ UNCHANGED <<ledger, inflight, got, last>>
           /\ handler' \in [Hosting -> Handler] /\ home' \in [Hosting -> RoomHubs \union {None}]
           /\ \A h \in Hosting : Stays(h) \/ Joins(h)
           /\ conns' \in [RoomHubs -> Connected] /\ Moves
           /\ opened \subseteq opened' /\ opened' \in SUBSET Conn
           /\ closed \subseteq closed' /\ closed' \in SUBSET Conn
<1>1. /\ handler \in [Hosting -> Handler] /\ conns \in [RoomHubs -> Connected]
      /\ home \in [Hosting -> RoomHubs \union {None}]
      /\ opened \in SUBSET Conn /\ closed \in SUBSET Conn
    BY DEF TypeOK
<1>2. ASSUME NEW r \in RoomHubs, NEW w \in Conn, Register(r, w)
      PROVE  /\ UNCHANGED <<ledger, inflight, got, last>>
             /\ handler' \in [Hosting -> Handler] /\ home' \in [Hosting -> RoomHubs \union {None}]
             /\ \A h \in Hosting : Stays(h) \/ Joins(h)
             /\ conns' \in [RoomHubs -> Connected] /\ Moves
             /\ opened \subseteq opened' /\ opened' \in SUBSET Conn
             /\ closed \subseteq closed' /\ closed' \in SUBSET Conn
    <2>1. /\ w \notin opened /\ opened' = opened \union {w}
          /\ closed' = closed \union ({conns[r][UserOf[w]]} \ {None})
          /\ conns' = [conns EXCEPT ![r][UserOf[w]] = w]
          /\ UNCHANGED <<ledger, inflight, got, last>>
        BY <1>2 DEF Register, Registry!Register
    <2>2. UserOf[w] \in Users
        BY ConnFacts
    <2>3. /\ conns' \in [RoomHubs -> Connected] /\ closed' \in SUBSET Conn
          /\ \A q \in RoomHubs, u \in Users :
                conns'[q][u] = IF q = r /\ u = UserOf[w] THEN w ELSE conns[q][u]
        BY <1>1, <2>1, <2>2 DEF Connected
    <2>4. CASE w \in Hosting
        <3>1. handler' = [handler EXCEPT ![w].pc = "read"] /\ home' = [home EXCEPT ![w] = r]
            BY <1>2, <2>4 DEF Register
        <3>2. handler[w] = NoHandler
            BY <2>1, <2>4 DEF Known
        <3>3. /\ handler' \in [Hosting -> Handler] /\ home' \in [Hosting -> RoomHubs \union {None}]
              /\ \A h \in Hosting : h # w => Stays(h)
            BY <1>1, <2>4, <3>1, Retyped DEF Stays
        <3>4. Joins(w)
            BY <1>1, <2>1, <2>4, <3>1, <3>2 DEF Joins
        <3> QED
            BY <1>1, <2>1, <2>3, <3>3, <3>4 DEF Moves
    <2>5. CASE w \notin Hosting
        BY <1>1, <1>2, <2>1, <2>3, <2>5 DEF Register, Stays, Moves
    <2> QED
        BY <2>4, <2>5
<1>3. ASSUME NEW r \in RoomHubs, NEW users \in SUBSET Users, Remove(r, users)
      PROVE  /\ UNCHANGED <<ledger, inflight, got, last, handler, home, opened, closed>>
             /\ conns' \in [RoomHubs -> Connected] /\ Moves
    <2>1. /\ conns' = [conns EXCEPT ![r] = [u \in Users |-> IF u \in users THEN None ELSE @[u]]]
          /\ UNCHANGED <<ledger, inflight, got, last, handler, home, opened, closed>>
        BY <1>3 DEF Remove, Registry!Remove
    <2>2. \A q \in RoomHubs, u \in Users :
              conns'[q][u] = IF q = r /\ u \in users THEN None ELSE conns[q][u]
        BY <1>1, <2>1 DEF Connected
    <2> QED
        BY <1>1, <2>1, <2>2 DEF Connected, Moves
<1>4. ASSUME NEW ws \in SUBSET Conn, Close(ws)
      PROVE  /\ UNCHANGED <<ledger, inflight, got, last, handler, home, opened, conns>>
             /\ closed' = closed \union ws
    BY <1>4 DEF Close, Registry!Close
<1>5. CASE \E r \in RoomHubs, users \in SUBSET Users : Remove(r, users)
    BY <1>1, <1>3, <1>5 DEF Stays
<1>6. CASE \E ws \in SUBSET Conn : Close(ws)
    BY <1>1, <1>4, <1>6 DEF Stays, Moves
<1> QED
    BY <1>2, <1>5, <1>6 DEF SocketStep

\* The process takes everything with it but the tables and the transaction in its COMMIT.
LEMMA CrashEffect ==
    ASSUME TypeOK, Identified, Crash
    PROVE  /\ UNCHANGED <<home, ledger, got, last>> /\ handler' = [h \in Hosting |-> NoHandler]
           /\ handler' \in [Hosting -> Handler] /\ inflight' \in Transaction \union {None}
           /\ inflight' # None /\ inflight'.op = "start" => inflight'.round \in RoundIds
           /\ conns' = [r \in RoomHubs |-> NoOne] /\ conns' \in [RoomHubs -> Connected]
           /\ opened \subseteq opened' /\ opened' \in SUBSET Conn
           /\ closed' \in SUBSET Conn
<1>1. /\ handler' = [h \in Hosting |-> NoHandler] /\ UNCHANGED <<home, ledger, got, last>>
      /\ conns' = [r \in RoomHubs |-> NoOne]
      /\ opened \subseteq opened' /\ opened' \in SUBSET Conn /\ closed' = opened'
    BY DEF Crash, Registry!Crash, Registry!Empty, NoOne
<1>2. ASSUME NEW h \in Hosting, At(h, "locked"), inflight' = Starting(h)
      PROVE  inflight' \in Transaction /\ inflight'.round \in RoundIds
    BY <1>2 DEF Starting, Transaction, Identified, Players
<1>3. inflight' = Ending => inflight' \in Transaction /\ inflight'.op # "start"
    BY DEF Ending, Transaction
<1>4. /\ inflight' \in Transaction \union {None}
      /\ inflight' # None /\ inflight'.op = "start" => inflight'.round \in RoundIds
    BY <1>2, <1>3 DEF Crash, TypeOK, Identified
<1>5. conns' \in [RoomHubs -> Connected]
    BY <1>1 DEF NoOne, Connected
<1> QED
    BY <1>1, <1>4, <1>5, RestTyped

-----------------------------------------------------------------------------
(* Types *)

LEMMA InflightTyped ==
    ASSUME TypeOK, NEW h \in Hosting, StartUnanswered(h) \/ EndUnanswered(h)
    PROVE  inflight' \in Transaction
<1>1. handler[h].round \in RoundIds \union {None} /\ Players(h) \in SUBSET Users
    BY DEF TypeOK, Handler, Players
<1> QED
    BY <1>1 DEF StartUnanswered, EndUnanswered, Starting, Ending, Transaction

\* What a send queues: at most one message, on the handler's target.
LEMMA GotStep ==
    ASSUME TypeOK, Dealing, NEW h \in Hosting, Deliver(h)
    PROVE  LET w == handler[h].target
               m == [round |-> handler[h].round,
                     cards |-> {a \in handler[h].assigns : a.user # UserOf[w]}]
           IN  /\ w \in Conn /\ got' \in [Conn -> SUBSET Message]
               /\ \A v \in Conn : got[v] \subseteq got'[v]
               /\ \A v \in Conn : \A x \in got'[v] : x \in got[v] \/ (v = w /\ x = m)
               /\ w \notin closed => m \in got'[w]
<1> DEFINE w == handler[h].target
           m == [round |-> handler[h].round,
                 cards |-> {a \in handler[h].assigns : a.user # UserOf[w]}]
<1>1. got \in [Conn -> SUBSET Message] /\ handler[h].assigns \in SUBSET Assignment
            /\ w \in Conn
    BY DEF TypeOK, Handler, Deliver
<1>2. m \in Message
    BY <1>1 DEF Dealing, Deliver, Message
<1>3. got' = IF w \in closed THEN got ELSE [got EXCEPT ![w] = @ \union {m}]
    BY DEF Deliver
<1> HIDE DEF w, m
<1>4. got' \in [Conn -> SUBSET Message]
    BY <1>1, <1>2, <1>3
<1>5. /\ \A v \in Conn : got[v] \subseteq got'[v]
      /\ \A v \in Conn : \A x \in got'[v] : x \in got[v] \/ (v = w /\ x = m)
      /\ w \notin closed => m \in got'[w]
    BY <1>1, <1>3
<1> QED
    BY <1>1, <1>4, <1>5 DEF w, m

LEMMA TypeStep ==
    ASSUME TypeOK, Identified, Recorded, Dealing, Known, [Next]_vars
    PROVE  TypeOK'
<1>1. CASE SocketStep
    BY <1>1, SocketEffect DEF TypeOK, ledger
<1>2. CASE LateRollback \/ UNCHANGED vars
    BY <1>2 DEF LateRollback, TypeOK, vars, sockets, ledger
<1>9. CASE Crash
    BY <1>9, CrashEffect DEF TypeOK, ledger
<1>3. CASE LateCommit
    <2>1. UNCHANGED <<sockets, handler, got, last>> /\ inflight' = None
        BY <1>3 DEF LateCommit
    <2>2. /\ current' \in [{Room} -> RoundIds \union {None}]
          /\ roundRoom' \in [RoundIds -> {Room, None}]
          /\ ended' \in SUBSET RoundIds /\ assignments' \in SUBSET Assignment
        <3>1. CASE inflight.op = "start" /\ Ledger!Open(Room, inflight.round, inflight.players)
            <4>1. inflight.round \in RoundIds /\ inflight.players \in SUBSET Users
                BY <1>3, <3>1 DEF LateCommit, Identified, TypeOK, Transaction
            <4> QED
                BY <3>1, <4>1, OpenFacts DEF TypeOK
        <3>2. CASE Ledger!Close(Room)
            BY <3>2, CloseFacts DEF TypeOK
        <3> QED
            BY <1>3, <3>1, <3>2 DEF LateCommit
    <2> QED
        BY <2>1, <2>2 DEF TypeOK, sockets
<1>4. ASSUME NEW h \in Hosting, Silent(h)
      PROVE  TypeOK'
    <2>1. inflight' \in Transaction \union {None}
        <3>1. CASE StartUnanswered(h) \/ EndUnanswered(h)
            BY <3>1, InflightTyped
        <3>2. CASE UNCHANGED inflight
            BY <3>2 DEF TypeOK
        <3> QED
            BY <1>4, <3>1, <3>2 DEF Silent, ReadStart, StartRound, EndRound, LockToStart, LockToEnd,
               StartFails, EndFails, Reply, SendPanics, ReadFails
    <2>2. last' \in Hosting \union {None}
        BY <1>4 DEF TypeOK, Silent, ReadStart, StartRound, EndRound, LockToStart, LockToEnd,
               StartFails, EndFails, Reply, SendPanics, ReadFails, StartUnanswered, EndUnanswered
    <2> QED
        BY <1>4, <2>1, <2>2, SilentEffect DEF TypeOK, sockets, ledger
<1>5. ASSUME NEW h \in Hosting, Started(h)
      PROVE  TypeOK'
    <2>1. handler[h].round \in RoundIds /\ Players(h) \in SUBSET Users
        BY <1>5 DEF Started, Identified, Players
    <2>2. /\ roundRoom' \in [RoundIds -> {Room, None}] /\ assignments' \in SUBSET Assignment
          /\ current' \in [{Room} -> RoundIds \union {None}] /\ ended' = ended
        BY <1>5, <2>1, OpenFacts DEF Started, TypeOK
    <2>3. handler' \in [Hosting -> Handler]
        BY <1>5, <2>2, StartedEffect
    <2> QED
        BY <1>5, <2>2, <2>3 DEF Started, TypeOK, sockets
<1>6. ASSUME NEW h \in Hosting, Ended(h)
      PROVE  TypeOK'
    <2>1. Forget(h, "reply", "ended", None)
        BY <1>6 DEF Ended, Answer
    <2>2. handler' \in [Hosting -> Handler]
        BY <2>1, ForgetEffect
    <2> QED
        BY <1>6, <2>2, CloseFacts DEF Ended, TypeOK, sockets
<1>7. ASSUME NEW h \in Hosting, Deliver(h)
      PROVE  TypeOK'
    BY <1>7, GotStep, DeliverEffect DEF Deliver, TypeOK, sockets, ledger
<1>8. ASSUME NEW h \in Hosting, NEW u \in Users, SendTo(h, u)
      PROVE  TypeOK'
    BY <1>8, SendToEffect DEF SendTo, TypeOK, sockets, ledger
<1> QED
    BY <1>1, <1>2, <1>3, <1>4, <1>5, <1>6, <1>7, <1>8, <1>9, StepCases

-----------------------------------------------------------------------------
(* The room's row *)

\* What the steps do to the row's holders and to the answers.
LEMMA HolderStep ==
    ASSUME TypeOK, Locking, Identified, Known, [Next]_vars
    PROVE  Locking' /\ Identified'
<1>1. CASE SocketStep
    <2>1. \A h \in Hosting : handler'[h] = handler[h] \/ handler'[h].pc = "read"
        BY <1>1, SocketEffect, AtRest DEF Stays, Joins
    <2>2. inflight' = inflight
        BY <1>1, SocketEffect
    <2> QED
        BY <2>1, <2>2 DEF Locking, Identified, Holding, At
<1>8. CASE Crash
    BY <1>8, CrashEffect, AtRest DEF Locking, Identified, Holding, At
<1>2. CASE LateCommit \/ LateRollback \/ UNCHANGED vars
    <2>1. handler' = handler /\ (inflight' = None \/ inflight' = inflight)
        BY <1>2 DEF LateCommit, LateRollback, vars
    <2> QED
        BY <2>1 DEF Locking, Identified, At
<1>3. ASSUME NEW h \in Hosting, Others(h), inflight' = inflight, handler'[h].pc \notin Holding,
             handler'[h].pc = "start" => handler'[h].target = None
      PROVE  Locking' /\ Identified'
    BY <1>3 DEF Others, Locking, Identified, Holding, At
<1>4. ASSUME NEW h \in Hosting, ReadStart(h) \/ StartRound(h) \/ EndRound(h) \/ StartFails(h)
                                   \/ EndFails(h) \/ Reply(h) \/ SendPanics(h) \/ ReadFails(h)
      PROVE  Locking' /\ Identified'
    <2>1. inflight' = inflight
        BY <1>4 DEF ReadStart, StartRound, EndRound, StartFails, EndFails, Reply, SendPanics, ReadFails
    <2>2. Others(h)
        BY <1>4, SilentEffect DEF Silent
    <2>3. handler'[h].pc \notin Holding /\ (handler'[h].pc = "start" => handler'[h].target = None)
        <3>1. CASE StartRound(h) \/ EndRound(h)
            BY <3>1, BeginEffect DEF Begins, Holding
        <3>2. CASE ReadStart(h) \/ StartFails(h) \/ EndFails(h) \/ Reply(h) \/ SendPanics(h)
                   \/ ReadFails(h)
            <4>1. /\ handler[h].answer \in {"none", "started", "ended", "failed"}
                  /\ handler[h].round \in RoundIds \union {None}
                BY DEF TypeOK, Handler
            <4>2. \E pc \in {"asked", "reply", "read", "none"},
                     answer \in {"none", "started", "ended", "failed"},
                     round \in RoundIds \union {None} : Forget(h, pc, answer, round)
                BY <3>2, <4>1 DEF ReadStart, StartFails, EndFails, Reply, SendPanics, ReadFails, Answer
            <4> QED
                BY <4>2, ForgetEffect DEF Forgets, Holding
        <3> QED
            BY <1>4, <3>1, <3>2
    <2> QED
        BY <1>3, <2>1, <2>2, <2>3
<1>5. ASSUME NEW h \in Hosting, LockToStart(h) \/ LockToEnd(h)
      PROVE  Locking' /\ Identified'
    <2>1. Others(h) /\ (handler'[h].pc = "locked" => handler'[h].round \in RoundIds)
            /\ (handler'[h].pc \in {"start", "locked"} => handler'[h].target = None)
        BY <1>5, LockEffect DEF LockEffectOf, Identified, At
    <2>2. /\ inflight = None /\ inflight' = None
          /\ \A m \in Hosting : handler[m].pc \notin Holding
        BY <1>5 DEF LockToStart, LockToEnd, RowFree, Holding
    <2> QED
        BY <2>1, <2>2 DEF Others, Locking, Identified, At
<1>6. ASSUME NEW h \in Hosting, StartUnanswered(h) \/ EndUnanswered(h)
      PROVE  Locking' /\ Identified'
    <2>1. Others(h) /\ handler'[h].pc \notin Holding /\ handler'[h].pc # "start"
        <3>1. Forget(h, "reply", "failed", None)
            BY <1>6 DEF StartUnanswered, EndUnanswered, Answer
        <3> QED
            BY <3>1, ForgetEffect DEF Forgets, Holding
    <2>2. handler[h].pc \in Holding
        BY <1>6 DEF StartUnanswered, EndUnanswered, At, Holding
    <2>3. \A m \in Hosting : /\ handler'[m].pc \notin Holding
                             /\ handler'[m].pc = "start" => handler'[m].target = None
        BY <2>1, <2>2 DEF Locking, Others, Identified
    <2>4. inflight'.op = "start" => inflight'.round \in RoundIds
        BY <1>6 DEF StartUnanswered, EndUnanswered, Starting, Ending, Identified
    <2> QED
        BY <2>3, <2>4 DEF Locking, Identified, At, Holding
<1>7. ASSUME NEW h \in Hosting, Started(h) \/ Ended(h) \/ Deliver(h) \/ (\E u \in Users : SendTo(h, u))
      PROVE  Locking' /\ Identified'
    <2>1. inflight' = inflight
        BY <1>7 DEF Started, Ended, Deliver, SendTo
    <2>2. Others(h) /\ handler'[h].pc \notin Holding /\ handler'[h].pc # "start"
        <3>1. CASE Started(h)
            BY <3>1 DEF Started, Others, TypeOK, Handler, Holding
        <3>2. CASE Ended(h)
            <4>1. Forget(h, "reply", "ended", None)
                BY <3>2 DEF Ended, Answer
            <4> QED
                BY <4>1, ForgetEffect DEF Forgets, Holding
        <3>3. CASE Deliver(h)
            BY <3>3, DeliverEffect DEF SendEffectOf, Deliver, Holding, At
        <3>4. CASE \E u \in Users : SendTo(h, u)
            BY <3>4, SendToEffect DEF SendEffectOf, SendTo, Holding, At
        <3> QED
            BY <1>7, <3>1, <3>2, <3>3, <3>4
    <2> QED
        BY <1>3, <2>1, <2>2
<1> QED
    BY <1>1, <1>2, <1>4, <1>5, <1>6, <1>7, <1>8, StepCases DEF Silent

-----------------------------------------------------------------------------
(* Rounds and their cards *)

\* The rows of a round are complete from the beginning.
LEMMA TablesStep ==
    ASSUME TypeOK, Identified, Recorded, [Next]_vars
    PROVE  /\ Recorded' /\ assignments \subseteq assignments'
           /\ \A id \in RoundIds : roundRoom[id] = Room =>
                 /\ roundRoom'[id] = Room
                 /\ \A a \in assignments' : a.round = id => a \in assignments
<1>1. CASE UNCHANGED <<roundRoom, assignments>>
    BY <1>1 DEF Recorded
<1>2. ASSUME NEW id \in RoundIds, NEW players \in SUBSET Users, Ledger!Open(Room, id, players)
      PROVE  /\ Recorded' /\ assignments \subseteq assignments'
             /\ \A i \in RoundIds : roundRoom[i] = Room =>
                   /\ roundRoom'[i] = Room
                   /\ \A a \in assignments' : a.round = i => a \in assignments
    <2>1. /\ roundRoom[id] = None /\ roundRoom' = [roundRoom EXCEPT ![id] = Room]
          /\ assignments \subseteq assignments' /\ assignments' \in SUBSET Assignment
          /\ \A a \in assignments' \ assignments : a.round = id
          /\ \A a \in assignments : a.round # id
        BY <1>2, OpenFacts
    <2>2. roundRoom \in [RoundIds -> {Room, None}] /\ None # Room
        BY NoneAssumption DEF TypeOK
    <2>3. \A i \in RoundIds : roundRoom'[i] = IF i = id THEN Room ELSE roundRoom[i]
        BY <2>1, <2>2
    <2>4. \A a \in assignments' : a.round \in RoundIds
        BY <2>1 DEF Assignment
    <2>5. Recorded'
        BY <2>1, <2>3, <2>4 DEF Recorded
    <2> QED
        BY <2>1, <2>2, <2>3, <2>5
<1>3. CASE SocketStep \/ Crash \/ LateRollback \/ UNCHANGED vars
    BY <1>1, <1>3 DEF SocketStep, Register, Remove, Close, Crash, LateRollback, vars, ledger
<1>4. CASE LateCommit
    <2>1. CASE inflight.op = "start" /\ Ledger!Open(Room, inflight.round, inflight.players)
        <3>1. inflight.round \in RoundIds /\ inflight.players \in SUBSET Users
            BY <1>4, <2>1 DEF LateCommit, Identified, TypeOK, Transaction
        <3> QED
            BY <1>2, <2>1, <3>1
    <2>2. CASE Ledger!Close(Room)
        BY <1>1, <2>2, CloseFacts
    <2> QED
        BY <1>4, <2>1, <2>2 DEF LateCommit
<1>5. ASSUME NEW h \in Hosting, Silent(h)
      PROVE  UNCHANGED <<roundRoom, assignments>>
    BY <1>5, SilentEffect DEF ledger
<1>6. ASSUME NEW h \in Hosting, Started(h)
      PROVE  handler[h].round \in RoundIds /\ Players(h) \in SUBSET Users
                /\ Ledger!Open(Room, handler[h].round, Players(h))
    BY <1>6 DEF Started, Identified, Players
<1>7. ASSUME NEW h \in Hosting, Ended(h)
      PROVE  UNCHANGED <<roundRoom, assignments>>
    BY <1>7, CloseFacts DEF Ended
<1>8. ASSUME NEW h \in Hosting, Deliver(h) \/ (\E u \in Users : SendTo(h, u))
      PROVE  UNCHANGED <<roundRoom, assignments>>
    BY <1>8 DEF Deliver, SendTo, ledger
<1>9. CASE \E h \in Hosting : Started(h)
    BY <1>2, <1>6, <1>9
<1>10. CASE \E h \in Hosting :
              Silent(h) \/ Ended(h) \/ Deliver(h) \/ (\E u \in Users : SendTo(h, u))
    BY <1>1, <1>5, <1>7, <1>8, <1>10
<1> QED
    BY <1>3, <1>4, <1>9, <1>10, StepCases

\* What becomes of a handler that sends afterwards.
LEMMA SenderCases ==
    ASSUME TypeOK, Identified, Known, [Next]_vars, NEW h \in Hosting, handler'[h].pc = "send"
    PROVE  \/ handler'[h] = handler[h] \/ Started(h) \/ Deliver(h)
           \/ \E u \in Users : SendTo(h, u)
<1>1. CASE SocketStep \/ Crash
    BY <1>1, SocketEffect, CrashEffect, AtRest DEF Stays, Joins
<1>2. CASE LateCommit \/ LateRollback \/ UNCHANGED vars
    BY <1>2 DEF LateCommit, LateRollback, vars
<1>3. ASSUME NEW m \in Hosting, Silent(m)
      PROVE  handler'[h] = handler[h]
    BY <1>3, SilentEffect DEF Others
<1>4. ASSUME NEW m \in Hosting, m # h,
             Started(m) \/ Ended(m) \/ Deliver(m) \/ (\E u \in Users : SendTo(m, u))
      PROVE  handler'[h] = handler[h]
    BY <1>4 DEF Started, Ended, Deliver, SendTo, Answer, Forget, TypeOK
<1>5. ~ Ended(h)
    <2>1. SUFFICES ASSUME Ended(h)
                   PROVE  FALSE
        OBVIOUS
    <2>2. Forget(h, "reply", "ended", None)
        BY <2>1 DEF Ended, Answer
    <2> QED
        BY <2>2, ForgetEffect DEF Forgets
<1> QED
    BY <1>1, <1>2, <1>3, <1>4, <1>5, StepCases

LEMMA DealingStep ==
    ASSUME TypeOK, Identified, Recorded, Known, Dealing, [Next]_vars
    PROVE  Dealing'
<1> SUFFICES ASSUME NEW h \in Hosting, handler'[h].pc = "send"
             PROVE  /\ handler'[h].round \in RoundIds /\ roundRoom'[handler'[h].round] = Room
                    /\ handler'[h].assigns = {a \in assignments' : a.round = handler'[h].round}
                    /\ \A u \in Players(h)' : \E a \in handler'[h].assigns : a.user = u
                    /\ handler'[h].todo \subseteq Players(h)'
                    /\ handler'[h].target # None => UserOf[handler'[h].target] \in Players(h)'
    BY DEF Dealing, At
<1>1. \A id \in RoundIds : roundRoom[id] = Room =>
          /\ roundRoom'[id] = Room
          /\ {a \in assignments' : a.round = id} = {a \in assignments : a.round = id}
    BY TablesStep
<1>2. handler'[h].snapshot = handler[h].snapshot => Players(h)' = Players(h)
    BY DEF Players
<1>3. CASE handler'[h] = handler[h]
    BY <1>1, <1>2, <1>3 DEF Dealing, At
<1>4. CASE Started(h)
    <2>1. handler[h].round \in RoundIds /\ Players(h) \in SUBSET Users
        BY <1>4 DEF Started, Identified, Players
    <2>2. /\ roundRoom' = [roundRoom EXCEPT ![handler[h].round] = Room]
          /\ assignments' \in SUBSET Assignment /\ assignments \subseteq assignments'
          /\ \A a \in assignments' \ assignments : a.round = handler[h].round
          /\ \A a \in assignments : a.round # handler[h].round
          /\ \A u \in Players(h) : \E a \in assignments' \ assignments : a.user = u
        BY <1>4, <2>1, OpenFacts DEF Started
    <2>3. StartedEffectOf(h)
        BY <1>4, <2>2, StartedEffect
    <2>4. roundRoom'[handler[h].round] = Room
        BY <2>1, <2>2 DEF TypeOK
    <2>5. handler[h].target = None
        BY <1>4 DEF Started, Identified, At
    <2> QED
        BY <1>2, <2>1, <2>2, <2>3, <2>4, <2>5 DEF StartedEffectOf
<1>5. CASE Deliver(h)
    <2>1. SendEffectOf(h, handler[h].todo, None) /\ handler[h].pc = "send"
        BY <1>5, DeliverEffect DEF Deliver, At
    <2> QED
        BY <1>1, <1>2, <2>1 DEF SendEffectOf, Dealing, At
<1>6. ASSUME NEW u \in Users, SendTo(h, u)
      PROVE  /\ handler'[h].round \in RoundIds /\ roundRoom'[handler'[h].round] = Room
             /\ handler'[h].assigns = {a \in assignments' : a.round = handler'[h].round}
             /\ \A v \in Players(h)' : \E a \in handler'[h].assigns : a.user = v
             /\ handler'[h].todo \subseteq Players(h)'
             /\ handler'[h].target # None => UserOf[handler'[h].target] \in Players(h)'
    <2>1. /\ SendEffectOf(h, handler[h].todo \ {u}, Here(h)[u])
          /\ handler[h].pc = "send" /\ u \in handler[h].todo
        BY <1>6, SendToEffect DEF SendTo, At
    <2> QED
        BY <1>1, <1>2, <2>1, HereKnown DEF SendEffectOf, Dealing, At
<1> QED
    BY <1>3, <1>4, <1>5, <1>6, SenderCases

LEMMA CardsStep ==
    ASSUME TypeOK, Identified, Recorded, Known, Dealing, OnlyOthersCards, [Next]_vars
    PROVE  OnlyOthersCards'
<1> SUFFICES ASSUME NEW w \in Conn, NEW m \in got'[w]
             PROVE  /\ m.cards = {a \in assignments' : a.round = m.round /\ a.user # UserOf[w]}
                    /\ \E a \in assignments' : a.round = m.round /\ a.user = UserOf[w]
    BY DEF OnlyOthersCards
<1>1. assignments \subseteq assignments'
        /\ \A id \in RoundIds : roundRoom[id] = Room =>
               \A a \in assignments' : a.round = id => a \in assignments
    BY TablesStep
<1>2. CASE m \in got[w]
    <2>1. PICK a \in assignments : a.round = m.round /\ a.user = UserOf[w]
        BY <1>2 DEF OnlyOthersCards
    <2>2. m.round \in RoundIds /\ roundRoom[m.round] = Room
        BY <2>1 DEF TypeOK, Assignment, Recorded
    <2>3. m.cards = {b \in assignments : b.round = m.round /\ b.user # UserOf[w]}
        BY <1>2 DEF OnlyOthersCards
    <2> QED
        BY <1>1, <2>1, <2>2, <2>3
<1>3. ASSUME NEW h \in Hosting, Deliver(h), m \notin got[w]
      PROVE  /\ m.cards = {a \in assignments' : a.round = m.round /\ a.user # UserOf[w]}
             /\ \E a \in assignments' : a.round = m.round /\ a.user = UserOf[w]
    <2>1. /\ w = handler[h].target
          /\ m = [round |-> handler[h].round,
                  cards |-> {a \in handler[h].assigns : a.user # UserOf[w]}]
        BY <1>3, GotStep
    <2>2. /\ handler[h].assigns = {a \in assignments : a.round = handler[h].round}
          /\ \E a \in handler[h].assigns : a.user = UserOf[w]
        BY <1>3, <2>1 DEF Deliver, Dealing, At
    <2>3. assignments' = assignments
        BY <1>3 DEF Deliver, ledger
    <2> QED
        BY <2>1, <2>2, <2>3
<1>4. got' = got \/ \E h \in Hosting : Deliver(h)
    <2>1. CASE SocketStep \/ Crash
        BY <2>1 DEF SocketStep, Register, Remove, Close, Crash
    <2>2. CASE LateCommit \/ LateRollback \/ UNCHANGED vars
        BY <2>2 DEF LateCommit, LateRollback, vars
    <2>3. ASSUME NEW h \in Hosting, Silent(h)
          PROVE  got' = got
        BY <2>3, SilentEffect
    <2>4. ASSUME NEW h \in Hosting, Started(h) \/ Ended(h) \/ (\E u \in Users : SendTo(h, u))
          PROVE  got' = got
        BY <2>4 DEF Started, Ended, SendTo
    <2> QED
        BY <2>1, <2>2, <2>3, <2>4, StepCases
<1> QED
    BY <1>2, <1>3, <1>4

-----------------------------------------------------------------------------
(* Connections and those a start found *)

LEMMA KnownStep ==
    ASSUME TypeOK, Identified, Known, [Next]_vars
    PROVE  Known'
<1>1. CASE SocketStep
    <2>1. opened \subseteq opened' /\ \A r \in RoomHubs, u \in Users : conns'[r][u] # None =>
              conns'[r][u] \in opened' /\ UserOf[conns'[r][u]] = u
        BY <1>1, SocketEffect DEF Known, Moves
    <2>2. \A h \in Hosting :
              \/ handler'[h] = handler[h]
              \/ handler'[h].snapshot = NoOne /\ h \in opened'
        BY <1>1, SocketEffect, AtRest DEF Stays, Joins
    <2>3. \A u \in Users : NoOne[u] = None
        BY DEF NoOne
    <2> QED
        BY <2>1, <2>2, <2>3 DEF Known
<1>2. CASE Crash
    <2>1. \A u \in Users : NoHandler.snapshot[u] = None /\ NoOne[u] = None
        BY AtRest DEF NoOne
    <2> QED
        BY <1>2, <2>1, CrashEffect DEF Known
<1>3. CASE LateCommit \/ LateRollback \/ UNCHANGED vars
    BY <1>3 DEF LateCommit, LateRollback, vars, sockets, Known
<1>4. ASSUME NEW h \in Hosting, Others(h), UNCHANGED sockets,
             handler[h].pc # "none",
             handler'[h].snapshot \in {Here(h), handler[h].snapshot, NoOne}
      PROVE  Known'
    <2>1. opened' = opened /\ conns' = conns
        BY <1>4 DEF sockets
    <2>2. h \in opened
        BY <1>4, AtRest DEF Known
    <2>3. \A u \in Users : handler'[h].snapshot[u] # None =>
              handler'[h].snapshot[u] \in opened /\ UserOf[handler'[h].snapshot[u]] = u
        BY <1>4, HereTyped DEF Known, NoOne
    <2> QED
        BY <1>4, <2>1, <2>2, <2>3 DEF Known, Others
<1>5. ASSUME NEW h \in Hosting, Silent(h)
      PROVE  Known'
    BY <1>4, <1>5, SilentEffect
<1>6. ASSUME NEW h \in Hosting, Started(h)
      PROVE  Known'
    <2>1. handler'[h].snapshot = handler[h].snapshot /\ Others(h)
        BY <1>6 DEF Started, Others, TypeOK, Handler
    <2> QED
        BY <1>4, <1>6, <2>1 DEF Started, At
<1>7. ASSUME NEW h \in Hosting, Ended(h)
      PROVE  Known'
    <2>1. Forget(h, "reply", "ended", None)
        BY <1>7 DEF Ended, Answer
    <2> QED
        BY <1>4, <1>7, <2>1, ForgetEffect DEF Forgets, Ended, At
<1>8. ASSUME NEW h \in Hosting, Deliver(h) \/ (\E u \in Users : SendTo(h, u))
      PROVE  Known'
    <2>1. handler'[h].snapshot = handler[h].snapshot /\ Others(h)
        BY <1>8, DeliverEffect, SendToEffect DEF SendEffectOf
    <2> QED
        BY <1>4, <1>8, <2>1 DEF Deliver, SendTo, At
<1> QED
    BY <1>1, <1>2, <1>3, <1>5, <1>6, <1>7, <1>8, StepCases

\* A connection that is no longer the one a player had is never so again.
LEMMA Moved ==
    ASSUME TypeOK, Identified, Known, [Next]_vars, NEW h \in Hosting, NEW u \in Players(h),
           Here(h)'[u] = handler[h].snapshot[u], Here(h)'[u] \notin closed'
    PROVE  Here(h)[u] = handler[h].snapshot[u] /\ Here(h)[u] \notin closed
<1>1. /\ u \in Users /\ handler[h].snapshot[u] # None
      /\ handler[h].snapshot[u] \in opened
    BY DEF Players, Known
<1>2. CASE SocketStep
    <2>1. closed \subseteq closed' /\ Moves /\ (Stays(h) \/ Joins(h))
        BY <1>2, SocketEffect
    <2>2. Stays(h) /\ home[h] \in RoomHubs \union {None}
        BY <1>1, <2>1, AtRest DEF Joins, NoOne, TypeOK
    <2>3. home[h] # None /\ Here(h) = conns[home[h]] /\ Here(h)' = conns'[home[h]]
        BY <1>1, <2>2, HereNext DEF Stays, Here, NoOne
    <2> QED
        BY <1>1, <2>1, <2>2, <2>3 DEF Moves
<1>3. CASE Crash
    <2>1. conns' = [r \in RoomHubs |-> NoOne] /\ home'[h] \in RoomHubs \union {None}
        BY <1>3, CrashEffect DEF TypeOK
    <2> QED
        BY <1>1, <2>1, HereNext DEF NoOne
<1>4. CASE UNCHANGED <<conns, closed, home>>
    BY <1>4 DEF Here
<1>5. LateCommit \/ LateRollback \/ UNCHANGED vars => UNCHANGED <<conns, closed, home>>
    BY DEF LateCommit, LateRollback, vars, sockets
<1>6. ASSUME NEW m \in Hosting, Silent(m)
      PROVE  UNCHANGED <<conns, closed, home>>
    BY <1>6, SilentEffect DEF sockets
<1>7. ASSUME NEW m \in Hosting,
             Started(m) \/ Ended(m) \/ Deliver(m) \/ (\E v \in Users : SendTo(m, v))
      PROVE  UNCHANGED <<conns, closed, home>>
    BY <1>7 DEF Started, Ended, Deliver, SendTo, sockets
<1> QED
    BY <1>2, <1>3, <1>4, <1>5, <1>6, <1>7, StepCases

LEMMA ServingStep ==
    ASSUME TypeOK, Identified, Recorded, Known, Dealing, Serving, [Next]_vars
    PROVE  Serving'
<1> SUFFICES ASSUME NEW h \in Hosting, handler'[h].pc = "send",
                    NEW u \in Players(h)', u \notin handler'[h].todo,
                    Here(h)'[u] = handler'[h].snapshot[u], Here(h)'[u] \notin closed'
             PROVE  \/ handler'[h].target = Here(h)'[u]
                    \/ \E m \in got'[Here(h)'[u]] : m.round = handler'[h].round
    BY DEF Serving, Served, At
<1>1. \A w \in Conn : got[w] \subseteq got'[w]
    <2>1. CASE \E m \in Hosting : Deliver(m)
        BY <2>1, GotStep
    <2>2. CASE SocketStep \/ Crash \/ LateCommit \/ LateRollback \/ UNCHANGED vars
        BY <2>2, SocketEffect, CrashEffect DEF LateCommit, LateRollback, vars
    <2>3. ASSUME NEW m \in Hosting, Silent(m)
          PROVE  got' = got
        BY <2>3, SilentEffect
    <2>4. ASSUME NEW m \in Hosting, Started(m) \/ Ended(m) \/ (\E v \in Users : SendTo(m, v))
          PROVE  got' = got
        BY <2>4 DEF Started, Ended, SendTo
    <2> QED
        BY <2>1, <2>2, <2>3, <2>4, StepCases
<1>2. ASSUME handler'[h].snapshot = handler[h].snapshot, handler[h].pc = "send"
      PROVE  /\ u \in Players(h) /\ u \in Users /\ Here(h)'[u] = Here(h)[u]
             /\ Here(h)[u] \notin closed /\ Here(h)[u] \in Conn /\ UserOf[Here(h)[u]] = u
             /\ u \notin handler[h].todo =>
                   \/ handler[h].target = Here(h)[u]
                   \/ \E m \in got[Here(h)[u]] : m.round = handler[h].round
    <2>1. u \in Players(h) /\ u \in Users /\ handler[h].snapshot[u] # None
        BY <1>2 DEF Players
    <2>2. Here(h)[u] = handler[h].snapshot[u] /\ Here(h)[u] \notin closed
        BY <1>2, <2>1, Moved
    <2>3. Here(h)[u] \in Conn /\ UserOf[Here(h)[u]] = u
        BY <2>1, <2>2, HereTyped, HereKnown
    <2> QED
        BY <1>2, <2>1, <2>2, <2>3 DEF Serving, Served, At
<1>3. CASE handler'[h] = handler[h]
    BY <1>1, <1>2, <1>3
<1>4. CASE Started(h)
    <2>1. assignments' \in SUBSET Assignment
        BY <1>4, OpenFacts DEF Started, Identified, Players
    <2>2. handler'[h].todo = Players(h) /\ handler'[h].snapshot = handler[h].snapshot
        BY <1>4, <2>1, StartedEffect DEF StartedEffectOf
    <2> QED
        BY <2>2 DEF Players
<1>5. CASE Deliver(h)
    <2>1. SendEffectOf(h, handler[h].todo, None) /\ handler[h].pc = "send"
        BY <1>5, DeliverEffect DEF Deliver, At
    <2>2. \/ handler[h].target = Here(h)[u]
          \/ \E m \in got[Here(h)[u]] : m.round = handler[h].round
        BY <1>2, <2>1 DEF SendEffectOf
    <2>3. CASE handler[h].target = Here(h)[u]
        <3>1. \E m \in got'[Here(h)[u]] : m.round = handler[h].round
            <4>1. Here(h)[u] \notin closed /\ Here(h)[u] \in Conn
                BY <1>2, <2>1 DEF SendEffectOf
            <4>2. [round |-> handler[h].round,
                   cards |-> {a \in handler[h].assigns : a.user # UserOf[Here(h)[u]]}]
                        \in got'[Here(h)[u]]
                BY <1>5, <2>3, <4>1, GotStep
            <4> QED
                BY <4>2
        <3> QED
            BY <1>2, <2>1, <3>1 DEF SendEffectOf
    <2> QED
        BY <1>1, <1>2, <2>1, <2>2, <2>3 DEF SendEffectOf
<1>6. ASSUME NEW v \in Users, SendTo(h, v)
      PROVE  \/ handler'[h].target = Here(h)'[u]
             \/ \E m \in got'[Here(h)'[u]] : m.round = handler'[h].round
    <2>1. /\ SendEffectOf(h, handler[h].todo \ {v}, Here(h)[v])
          /\ handler[h].pc = "send" /\ handler[h].target = None
        BY <1>6, SendToEffect DEF SendTo, At
    <2>2. CASE u = v
        BY <1>2, <2>1, <2>2 DEF SendEffectOf
    <2>3. CASE u # v
        <3>1. None # Here(h)[u]
            BY <1>2, <2>1, NoneAssumption DEF SendEffectOf
        <3> QED
            BY <1>1, <1>2, <2>1, <2>3, <3>1 DEF SendEffectOf
    <2> QED
        BY <2>2, <2>3
<1> QED
    BY <1>3, <1>4, <1>5, <1>6, SenderCases

-----------------------------------------------------------------------------
(* The answers *)

LEMMA LastWordStep ==
    ASSUME TypeOK, Locking, Identified, Recorded, Known, LastWord, [Next]_vars
    PROVE  LastWord'
<1>1. /\ None \notin Hosting /\ last \in Hosting \union {None}
      /\ \A h \in Hosting : h \in Calling <=> handler[h].pc \in {"start", "locked", "end", "ending"}
    BY ConnFacts DEF TypeOK, Calling
<1>2. CASE SocketStep
    <2>1. /\ UNCHANGED <<ledger, inflight, last>>
          /\ \A h \in Hosting : \/ handler'[h] = handler[h]
                                \/ handler'[h].pc = "read" /\ handler'[h].answer = "none"
        BY <1>2, SocketEffect, AtRest DEF Stays, Joins
    <2> QED
        BY <2>1 DEF LastWord, Calling, ledger
<1>3. CASE LateRollback \/ UNCHANGED vars
    BY <1>3 DEF LateRollback, LastWord, Calling, vars, ledger
<1>4. CASE LateCommit
    BY <1>4 DEF LateCommit, LastWord, Calling
<1>16. CASE Crash
    <2>1. last' = last /\ \A h \in Hosting : handler'[h] = NoHandler
        BY <1>16, CrashEffect
    <2>2. Calling' = {}
        BY <2>1, AtRest DEF Calling
    <2> QED
        BY <1>1, <2>1, <2>2, AtRest DEF LastWord
<1>5. ASSUME NEW h \in Hosting, Others(h), handler'[h].pc \in {"start", "locked", "end", "ending"},
             handler'[h].answer = "none",
             \/ last' = h /\ Calling = {}
             \/ last' = None
             \/ last' = last /\ h \in Calling
      PROVE  LastWord'
    <2>1. Calling' \subseteq Calling \union {h}
        BY <1>5 DEF Calling, Others
    <2> QED
        BY <1>1, <1>5, <2>1 DEF LastWord
<1>6. ASSUME NEW h \in Hosting, StartRound(h) \/ EndRound(h)
      PROVE  LastWord'
    <2>1. /\ Others(h) /\ handler'[h].pc \in {"start", "end"} /\ handler'[h].answer = "none"
        BY <1>6, BeginEffect DEF Begins
    <2>2. (last' = h /\ Calling = {}) \/ last' = None
        BY <1>6 DEF StartRound, EndRound
    <2> QED
        BY <1>5, <2>1, <2>2
<1>7. ASSUME NEW h \in Hosting, LockToStart(h) \/ LockToEnd(h)
      PROVE  LastWord'
    <2>1. /\ Others(h) /\ handler'[h].pc \in {"locked", "ending"} /\ handler'[h].answer = handler[h].answer
          /\ h \in Calling
        BY <1>1, <1>7, LockEffect DEF LockEffectOf, At
    <2>2. last' = last
        BY <1>7 DEF LockToStart, LockToEnd
    <2>3. CASE last = None
        BY <2>2, <2>3 DEF LastWord
    <2>4. CASE last # None
        BY <1>5, <2>1, <2>2, <2>4 DEF LastWord
    <2> QED
        BY <2>3, <2>4
<1>8. ASSUME NEW h \in Hosting, Others(h), handler'[h].pc \notin {"start", "locked", "end", "ending"},
             h \in Calling, last' = last,
             \/ handler'[h].answer = "failed"
             \/ /\ inflight' = None
                /\ \/ handler'[h].answer = "started" /\ current'[Room] = handler'[h].round
                   \/ handler'[h].answer = "ended" /\ current'[Room] = None
      PROVE  LastWord'
    <2>1. CASE last = None
        BY <1>8, <2>1 DEF LastWord
    <2>2. CASE last # None
        <3>1. last = h /\ Calling \subseteq {h}
            BY <1>8, <2>2 DEF LastWord
        <3>2. Calling' = {}
            BY <1>8, <3>1 DEF Calling, Others
        <3> QED
            BY <1>8, <3>1, <3>2 DEF LastWord
    <2> QED
        BY <2>1, <2>2
<1>9. ASSUME NEW h \in Hosting, ~ At(h, "asked"),
             StartFails(h) \/ EndFails(h) \/ StartUnanswered(h) \/ EndUnanswered(h)
      PROVE  LastWord'
    <2>1. Forget(h, "reply", "failed", None)
        BY <1>9 DEF StartFails, EndFails, StartUnanswered, EndUnanswered, Answer
    <2>2. Others(h) /\ handler'[h].pc = "reply" /\ handler'[h].answer = "failed"
        BY <2>1, ForgetEffect DEF Forgets
    <2>3. last' = last /\ h \in Calling
        BY <1>1, <1>9 DEF StartFails, EndFails, StartUnanswered, EndUnanswered, At
    <2> QED
        BY <1>8, <2>2, <2>3
<1>10. ASSUME NEW h \in Hosting, Started(h)
       PROVE  LastWord'
    <2>1. handler[h].round \in RoundIds /\ h \in Calling
        BY <1>1, <1>10 DEF Started, Identified, At
    <2>2. inflight' = None /\ last' = last
        BY <1>10 DEF Started, Locking, Holding, At
    <2>3. assignments' \in SUBSET Assignment /\ current' = [current EXCEPT ![Room] = handler[h].round]
        BY <1>10, <2>1, OpenFacts DEF Started, Players
    <2>4. StartedEffectOf(h) /\ Others(h)
        BY <1>10, <2>3, StartedEffect
    <2>5. current'[Room] = handler'[h].round
        BY <2>3, <2>4 DEF StartedEffectOf, TypeOK
    <2> QED
        BY <1>8, <2>1, <2>2, <2>4, <2>5 DEF StartedEffectOf
<1>11. ASSUME NEW h \in Hosting, Ended(h)
       PROVE  LastWord'
    <2>1. inflight' = None /\ last' = last /\ h \in Calling
        BY <1>1, <1>11 DEF Ended, Locking, Holding, At
    <2>2. Forget(h, "reply", "ended", None) /\ current'[Room] = None
        BY <1>11, CloseFacts DEF Ended, Answer
    <2>3. Others(h) /\ handler'[h].pc = "reply" /\ handler'[h].answer = "ended"
        BY <2>2, ForgetEffect DEF Forgets
    <2> QED
        BY <1>8, <2>1, <2>2, <2>3
<1>12. ASSUME NEW h \in Hosting, Others(h), UNCHANGED <<ledger, inflight, last>>, h \notin Calling,
              handler'[h].pc \notin {"start", "locked", "end", "ending"},
              \/ handler'[h].answer \in {"none", "failed"}
              \/ handler'[h].answer = handler[h].answer /\ handler'[h].round = handler[h].round
       PROVE  LastWord'
    <2>1. Calling' = Calling
        BY <1>12 DEF Calling, Others
    <2> QED
        BY <1>12, <2>1 DEF LastWord, Others, ledger
<1>13. ASSUME NEW h \in Hosting,
              Reply(h) \/ SendPanics(h) \/ ReadFails(h) \/ Deliver(h) \/ (\E u \in Users : SendTo(h, u))
       PROVE  LastWord'
    <2>1. UNCHANGED <<ledger, inflight, last>> /\ h \notin Calling
        BY <1>1, <1>13 DEF Reply, SendPanics, ReadFails, Deliver, SendTo, Sent, At
    <2>2. CASE Reply(h)
        <3>1. /\ handler[h].answer \in {"none", "started", "ended", "failed"}
              /\ handler[h].round \in RoundIds \union {None}
            BY DEF TypeOK, Handler
        <3>2. Others(h) /\ Forgets(h, "read", handler[h].answer, handler[h].round)
            BY <2>2, <3>1, ForgetEffect DEF Reply
        <3> QED
            BY <1>12, <2>1, <3>2 DEF Forgets
    <2>3. CASE SendPanics(h) \/ ReadFails(h)
        <3>1. Others(h) /\ Forgets(h, "none", "none", None)
            BY <2>3, ForgetEffect DEF SendPanics, ReadFails
        <3> QED
            BY <1>12, <2>1, <3>1 DEF Forgets
    <2>4. CASE Deliver(h) \/ (\E u \in Users : SendTo(h, u))
        <3>1. /\ Others(h) /\ handler'[h].pc = handler[h].pc /\ handler'[h].answer = handler[h].answer
              /\ handler'[h].round = handler[h].round
            BY <2>4, DeliverEffect, SendToEffect DEF SendEffectOf
        <3> QED
            BY <1>1, <1>12, <2>1, <3>1
    <2> QED
        BY <1>13, <2>2, <2>3, <2>4
<1>14. ASSUME NEW h \in Hosting, ReadStart(h) \/ (At(h, "asked") /\ StartFails(h))
       PROVE  LastWord'
    <2>1. UNCHANGED <<ledger, inflight, last>> /\ h \notin Calling
        BY <1>1, <1>14 DEF ReadStart, StartFails, At
    <2>2. Forget(h, "asked", "none", None) \/ Forget(h, "reply", "failed", None)
        BY <1>14 DEF ReadStart, StartFails, Answer
    <2>3. /\ Others(h) /\ handler'[h].pc \in {"asked", "reply"}
          /\ handler'[h].answer \in {"none", "failed"}
        BY <2>2, ForgetEffect DEF Forgets
    <2> QED
        BY <1>12, <2>1, <2>3
<1>15. \A h \in Hosting : At(h, "asked") => ~ (EndFails(h) \/ StartUnanswered(h) \/ EndUnanswered(h))
    BY DEF EndFails, StartUnanswered, EndUnanswered, At
<1> QED
    BY <1>2, <1>3, <1>4, <1>6, <1>7, <1>9, <1>10, <1>11, <1>13, <1>14, <1>15, <1>16, StepCases DEF Silent

-----------------------------------------------------------------------------
(* The theorems *)

LEMMA InitInv ==
    ASSUME Init
    PROVE  GInv
<1>1. NoHandler \in Handler /\ Room \in {Room} /\ NoOne \in Connected
    BY RestTyped DEF NoOne, Connected
<1>2. conns = [r \in RoomHubs |-> NoOne] /\ opened = {} /\ closed = {}
    BY DEF Init, Registry!Init, Registry!Empty, NoOne
<1>3. TypeOK
    BY <1>1, <1>2 DEF Init, TypeOK, Ledger!Init
<1>4. \A h \in Hosting : handler[h] = NoHandler
    BY DEF Init
<1>5. Locking /\ Identified /\ Dealing /\ Serving
    BY <1>4, AtRest DEF Init, Locking, Identified, Dealing, Serving, Holding, At
<1>6. Recorded /\ OnlyOthersCards /\ LastWord
    BY DEF Init, Ledger!Init, Recorded, OnlyOthersCards, LastWord
<1>7. Known
    BY <1>2, <1>4, AtRest DEF Known, NoOne
<1> QED
    BY <1>3, <1>5, <1>6, <1>7 DEF GInv

LEMMA StepInv ==
    ASSUME GInv, [Next]_vars
    PROVE  GInv'
BY TypeStep, HolderStep, TablesStep, DealingStep, CardsStep, KnownStep, ServingStep,
   LastWordStep DEF GInv

\* The invariant the next theorems are read off.
THEOREM Invariance == Spec => []GInv
BY InitInv, StepInv, PTL DEF Spec

\* Every variable keeps its type; in particular no message is queued on a connection that
\* the hub does not have (hub.go:126, a nil connection is not sent to).
THEOREM TypeCorrect == Spec => []TypeOK
BY Invariance, PTL DEF GInv

\* A player is sent the recorded cards of all the others and never its own, for any number
\* of players and connections and whenever a commit comes (handler.go:279-302).
THEOREM OthersOnly == Spec => []OnlyOthersCards
BY Invariance, PTL DEF GInv

\* A player that stays on its connection while a round is started has been sent the cards
\* when the last one has been sent (handler.go:255-260, :295).
THEOREM Stayers == Spec => []StayersHaveTheirCards
<1>1. GInv => StayersHaveTheirCards
    <2> SUFFICES ASSUME GInv, NEW h \in Hosting, At(h, "send"), handler[h].todo = {},
                        handler[h].target = None, NEW u \in Players(h),
                        Here(h)[u] = handler[h].snapshot[u], Here(h)[u] \notin closed
                 PROVE  \E m \in got[Here(h)[u]] : m.round = handler[h].round
        BY DEF StayersHaveTheirCards
    <2>1. Served(h, u)
        BY DEF GInv, Serving
    <2>2. Here(h)[u] \in Conn
        BY HereTyped DEF GInv, Players
    <2> QED
        BY <2>1, <2>2, NoneAssumption DEF Served
<1> QED
    BY <1>1, Invariance, PTL

\* What the host is told of a command nothing overlapped is still so: no commit given up
\* for lost comes true after a later answer (handler.go:269, ws_game_store.go:88, :199).
THEOREM AnswersTrue == Spec => []AnswerIsTrue
<1>1. GInv => AnswerIsTrue
    BY DEF GInv, LastWord, AnswerIsTrue
<1> QED
    BY <1>1, Invariance, PTL

=============================================================================
