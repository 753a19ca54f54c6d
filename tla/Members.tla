------------------------------ MODULE Members ------------------------------
(***************************************************************************)
(* Rooms, their members and their scores: the tables rooms and             *)
(* room_members (src/internal/storage/room_store.go, AddMemberScore in     *)
(* ws_game_store.go), the requests that write them (room_handlers.go) and  *)
(* the part of a socket's handler that does (handler.go: room:join and     *)
(* host:score_add), with the copy of the scores it keeps in the room's     *)
(* presence list.                                                          *)
(*                                                                         *)
(* A handler reads the members in one database call and writes them to the *)
(* list one lock region each, while other handlers score, join and write.  *)
(* Codes name rooms one to one, and a room has one list: what becomes of a *)
(* list the sweeper drops under a handler is in Hub.  The history variable *)
(* `disturbed` holds the entries of a list that nobody may correct.        *)
(***************************************************************************)
EXTENDS Integers

CONSTANTS
    Codes, Users, Sockets,
    UserOf,              \* the user whose token opened a socket
    Deltas,              \* what a host may add to a score
    MinScore, MaxScore,  \* the range of the column score (an int4)
    Targets,             \* bound: the users that score commands name, whose entries
                         \* in the lists are followed; the others' scores stay 0
    None

Scores == MinScore .. MaxScore

ASSUME UserOfAssumption == UserOf \in [Sockets -> Users]
ASSUME DeltasAssumption == Deltas \subseteq Int \ {0}
ASSUME ScoresAssumption ==
    MinScore \in Int /\ MaxScore \in Int /\ MinScore <= 0 /\ 0 <= MaxScore
ASSUME TargetsAssumption == Targets \subseteq Users
ASSUME NoneAssumption == None \notin Users /\ None \notin Codes /\ None \notin Scores

VARIABLES
    owner,      \* rooms.owner_user_id, None while there is no row
    member,     \* the users with a row in room_members; its name and role are left out
    score,      \* room_members.score, 0 while there is no row
    presence,   \* RoomHub.members[u].Score, None while u has no entry
    handler,    \* each socket's handler: its program counter and locals
    create,     \* the code of each user's POST /rooms that is between its statements
                \* (bound: one at a time)
    answered,   \* the rooms a user has been given the code of
    late,       \* the UPDATEs of AddMemberScore that nobody awaits any more
                \* (bound: one of a kind at a time)
    disturbed

tables == <<owner, member, score>>
vars == <<owner, member, score, presence, handler, create, answered, late, disturbed>>

Late == [code : Codes, user : Users, delta : Deltas]

NoRows == [u \in Users |-> None]

\* A handler that has not joined a room.
Outside == [pc |-> "read", code |-> None, role |-> "player", list |-> NoRows]

Handler ==
    [pc : {"read", "list", "write"}, code : Codes \union {None},
     role : {"host", "player"}, list : [Users -> Scores \union {None}]]

TypeOK ==
    /\ owner \in [Codes -> Users \union {None}]
    /\ member \in [Codes -> SUBSET Users]
    /\ score \in [Codes -> [Users -> Scores]]
    /\ presence \in [Codes -> [Users -> Scores \union {None}]]
    /\ handler \in [Sockets -> Handler]
    /\ create \in [Users -> Codes \union {None}]
    /\ answered \in [Users -> SUBSET Codes]
    /\ late \subseteq Late
    /\ disturbed \in [Codes -> SUBSET Users]

Init ==
    /\ owner = [c \in Codes |-> None]
    /\ member = [c \in Codes |-> {}]
    /\ score = [c \in Codes |-> [u \in Users |-> 0]]
    /\ presence = [c \in Codes |-> NoRows]
    /\ handler = [s \in Sockets |-> Outside]
    /\ create = NoRows
    /\ answered = [u \in Users |-> {}]
    /\ late = {}
    /\ disturbed = [c \in Codes |-> {}]

-----------------------------------------------------------------------------
\* What GetRoomByCode finds.
RoomExists(c) == owner[c] # None

\* The rows ListRoomMembers finds.
Rows(c) == member[c] \intersect Targets

\* The rows that it has read, by user.
Listed(c, read) == [u \in Users |-> IF u \in read THEN score[c][u] ELSE None]

\* Socket s's handler has yet to write what it read about u to room c's list.
Holds(s, c, u) ==
    handler[s].pc = "write" /\ handler[s].code = c /\ handler[s].list[u] # None

\* The entries of room c that differ from the table.
Wrong(c) == {u \in Users : presence[c][u] # None /\ presence[c][u] # score[c][u]}

-----------------------------------------------------------------------------
(* POST /rooms *)

\* An operator named Bug... is a faulty version of the one after it; no action uses
\* it, it stands for a bug the checks must find.
\* The insert as ON CONFLICT (code) DO UPDATE ... RETURNING.
BugTakenCodeReturned(u, c) ==
    /\ create[u] = None
    /\ owner' = [owner EXCEPT ![c] = IF @ = None THEN u ELSE @]
    /\ create' = [create EXCEPT ![u] = c]
    /\ UNCHANGED <<member, score, presence, handler, answered, late, disturbed>>

\* The first statement of CreateRoom, with a code drawn at random.  A code that is
\* taken (23505) changes nothing: the request draws again or gives up.
InsertRoom(u, c) ==
    /\ create[u] = None /\ owner[c] = None
    /\ owner' = [owner EXCEPT ![c] = u]
    /\ create' = [create EXCEPT ![u] = c]
    /\ UNCHANGED <<member, score, presence, handler, answered, late, disturbed>>

\* The second statement, and the answer with the code.
InsertHost(u) ==
    LET c == create[u] IN
    /\ c # None
    /\ member' = [member EXCEPT ![c] = @ \union {u}]
    /\ answered' = [answered EXCEPT ![u] = @ \union {c}]
    /\ create' = [create EXCEPT ![u] = None]
    /\ UNCHANGED <<owner, score, presence, handler, late, disturbed>>

\* Any other error, the 3 s timeout included: the request ends and the rows stay, the
\* member's too when only its answer is lost.  One that is written later still is as
\* good as a Join of the same user.
CreateFails(u) ==
    /\ create[u] # None
    /\ member' \in {member, [member EXCEPT ![create[u]] = @ \union {u}]}
    /\ create' = [create EXCEPT ![u] = None]
    /\ UNCHANGED <<owner, score, presence, handler, answered, late, disturbed>>

-----------------------------------------------------------------------------
(* Joining *)

\* One transaction; a member's score is kept.  A room that is not active is refused,
\* and every room is: no statement of the program sets another status.
JoinRoom(u, c) ==
    /\ member' = [member EXCEPT ![c] = @ \union {u}]
    /\ UNCHANGED <<owner, score>>

\* POST /rooms/join.
Join(u, c) ==
    /\ RoomExists(c)
    /\ JoinRoom(u, c)
    /\ UNCHANGED <<presence, handler, create, answered, late, disturbed>>

\* room:join may ask for a role.  A room's row never changes owner, so what the
\* handler read of it still holds when it writes.
MayJoin(s, c, r) ==
    /\ handler[s].pc = "read" /\ RoomExists(c)
    /\ r = "host" => owner[c] = UserOf[s]

\* The member's score is kept on a conflict.
UpsertRoomMember(s, c) ==
    /\ member' = [member EXCEPT ![c] = @ \union {UserOf[s]}]
    /\ UNCHANGED <<owner, score>>

\* A second join that keeps the role of the first.
BugRoleKept(s, c, r) ==
    [handler[s] EXCEPT !.pc = "list", !.code = c,
                       !.role = IF r = "host" THEN r ELSE @]

\* The locals after a join, be it the socket's first or not.
Joined(s, c, r) == [handler[s] EXCEPT !.pc = "list", !.code = c, !.role = r]

JoinSocket(s, c, r) ==
    /\ MayJoin(s, c, r)
    /\ UpsertRoomMember(s, c)
    /\ handler' = [handler EXCEPT ![s] = Joined(s, c, r)]
    /\ UNCHANGED <<presence, create, answered, late, disturbed>>

\* The row is written, now or (which Join stands for) later, and the call is reported
\* as failed: the locals stay.  The role asked for is only in the row.
JoinUnanswered(s, c) ==
    /\ MayJoin(s, c, "player")
    /\ UpsertRoomMember(s, c)
    /\ UNCHANGED <<presence, handler, create, answered, late, disturbed>>

\* Disconnecting; the list keeps the entry.
Leave(s) ==
    /\ handler[s].pc = "read" /\ handler[s].code # None
    /\ handler' = [handler EXCEPT ![s] = Outside]
    /\ UNCHANGED <<tables, presence, create, answered, late, disturbed>>

-----------------------------------------------------------------------------
(* Scores *)

\* A host's score_add passes its checks.
MayScore(s) ==
    handler[s].pc = "read" /\ handler[s].code # None /\ handler[s].role = "host"

\* The column's range is not checked.
BugRangeUnchecked(c, u, d) == u \in Users

\* A sum out of the column's range is an error, and changes nothing.
InRange(c, u, d) == u \in member[c] => score[c][u] + d \in Scores

\* The UPDATE of AddMemberScore, which finds no row when u is not a member.
AddMemberScore(c, u, d) ==
    /\ InRange(c, u, d)
    /\ score' = [score EXCEPT ![c][u] = IF u \in member[c] THEN @ + d ELSE @]
    /\ UNCHANGED <<owner, member>>

Held(c, u) == \E s \in Sockets : Holds(s, c, u)

\* The command broadcasts without reading the members again.
BugScoreNotListed(s, u, d) ==
    /\ MayScore(s)
    /\ AddMemberScore(handler[s].code, u, d)
    /\ UNCHANGED <<presence, handler, create, answered, late, disturbed>>

\* Where handlers hold what they read before the update, it may come back.
ScoreAdd(s, u, d) ==
    LET c == handler[s].code IN
    /\ MayScore(s)
    /\ AddMemberScore(c, u, d)
    /\ handler' = [handler EXCEPT ![s].pc = "list"]
    /\ disturbed' = [disturbed EXCEPT ![c] = IF Held(c, u) THEN @ \union {u} ELSE @]
    /\ UNCHANGED <<presence, create, answered, late>>

\* The command gives up on the update, after 3 s or on an error of the connection, and
\* goes on reading.  The update is on its way.
ScoreUnanswered(s, u, d) ==
    /\ MayScore(s)
    /\ late' = late \union {[code |-> handler[s].code, user |-> u, delta |-> d]}
    /\ UNCHANGED <<tables, presence, handler, create, answered, disturbed>>

\* The database carries it out, wherever the handler is by then; nobody reads the
\* members for it.
LateScore(x) ==
    LET shown == presence[x.code][x.user] # None \/ Held(x.code, x.user) IN
    /\ AddMemberScore(x.code, x.user, x.delta)
    /\ late' = late \ {x}
    /\ disturbed' = [disturbed EXCEPT
                        ![x.code] = IF shown THEN @ \union {x.user} ELSE @]
    /\ UNCHANGED <<presence, handler, create, answered>>

\* It was cancelled in time, or is refused.
LateLost(x) ==
    /\ late' = late \ {x}
    /\ UNCHANGED <<tables, presence, handler, create, answered, disturbed>>

ListRoomMembers(s) ==
    /\ handler[s].pc = "list"
    /\ handler' = [handler EXCEPT ![s].pc = "write",
                                  ![s].list = Listed(handler[s].code,
                                                     Rows(handler[s].code))]
    /\ UNCHANGED <<tables, presence, create, answered, late, disturbed>>

\* An error after some rows were read: it is dropped, and those rows are written.
ListFails(s) ==
    /\ handler[s].pc = "list"
    /\ \E read \in SUBSET Rows(handler[s].code) :
          /\ handler' = [handler EXCEPT ![s].pc = "write",
                                        ![s].list = Listed(handler[s].code, read)]
          /\ disturbed' = [disturbed EXCEPT
                              ![handler[s].code] = @ \union (Wrong(handler[s].code) \ read)]
    /\ UNCHANGED <<tables, presence, create, answered, late>>

\* One row goes to the list.  It settles the entry when it is the table's and
\* nobody else has one in hand.
UpsertMemberState(s, u) ==
    LET c == handler[s].code
        settled == /\ handler[s].list[u] = score[c][u]
                   /\ \A t \in Sockets \ {s} : ~Holds(t, c, u)
    IN  /\ handler[s].pc = "write" /\ handler[s].list[u] # None
        /\ presence' = [presence EXCEPT ![c][u] = handler[s].list[u]]
        /\ handler' = [handler EXCEPT ![s].list[u] = None]
        /\ disturbed' = [disturbed EXCEPT ![c] = IF settled THEN @ \ {u} ELSE @]
        /\ UNCHANGED <<tables, create, answered, late>>

\* Every row is written: the connected flags are set, the presence broadcast.
Broadcast(s) ==
    /\ handler[s].pc = "write" /\ handler[s].list = NoRows
    /\ handler' = [handler EXCEPT ![s].pc = "read"]
    /\ UNCHANGED <<tables, presence, create, answered, late, disturbed>>

-----------------------------------------------------------------------------
\* The sweeper drops the list of a room nobody is in.
RoomSwept(c) ==
    /\ presence[c] # NoRows
    /\ \A s \in Sockets : handler[s].code # c
    /\ presence' = [presence EXCEPT ![c] = NoRows]
    /\ disturbed' = [disturbed EXCEPT ![c] = {}]
    /\ UNCHANGED <<tables, handler, create, answered, late>>

\* The process ends and starts again: the tables remain, and the updates that the
\* database has been sent.  One whose command was waiting is a ScoreUnanswered before.
Restart ==
    /\ presence' = [c \in Codes |-> NoRows]
    /\ handler' = [s \in Sockets |-> Outside]
    /\ create' = NoRows
    /\ disturbed' = [c \in Codes |-> {}]
    /\ UNCHANGED <<tables, answered, late>>

Next ==
    \/ \E u \in Users : InsertHost(u) \/ CreateFails(u)
    \/ \E u \in Users, c \in Codes : InsertRoom(u, c) \/ Join(u, c)
    \/ \E s \in Sockets, c \in Codes, r \in {"host", "player"} :
          JoinSocket(s, c, r)
    \/ \E s \in Sockets, c \in Codes : JoinUnanswered(s, c)
    \/ \E s \in Sockets, u \in Targets, d \in Deltas :
          ScoreAdd(s, u, d) \/ ScoreUnanswered(s, u, d)
    \/ \E x \in late : LateScore(x) \/ LateLost(x)
    \/ \E s \in Sockets :
          Leave(s) \/ ListRoomMembers(s) \/ ListFails(s) \/ Broadcast(s)
    \/ \E s \in Sockets, u \in Users : UpsertMemberState(s, u)
    \/ \E c \in Codes : RoomSwept(c)
    \/ Restart

Spec == Init /\ [][Next]_vars

-----------------------------------------------------------------------------
(* Properties *)

\* A user who was given a code owns the room and is a member of it, whatever other
\* requests drew the same code
\* (room_handlers.go:58-61 answers only after both statements).
AnsweredRoomIsReady ==
    \A u \in Users : \A c \in answered[u] : owner[c] = u /\ u \in member[c]

\* Socket s is the owner's, has joined room c as its host, and is reading.
HostIn(s, c) ==
    /\ handler[s].pc = "read" /\ handler[s].code = c /\ handler[s].role = "host"
    /\ UserOf[s] = owner[c]

\* A score changes only by a command of the room's owner, who joined that room last
\* and as its host (handler.go:324 "host only"): by the command itself, or once, by as
\* much as it said, by the update it left behind when it gave up or the process ended.
\* Joining again, restarts and lists leave it alone.
ScoresOnlyByHost ==
    [][/\ \A c \in Codes, u \in Users : score'[c][u] # score[c][u] =>
             \/ \E s \in Sockets : HostIn(s, c) /\ handler'[s].pc = "list"
             \/ \E x \in late \ late' :
                   /\ x.code = c /\ x.user = u
                   /\ score'[c][u] = score[c][u] + x.delta
       /\ \A x \in late' \ late : \E s \in Sockets : HostIn(s, x.code)]_vars

\* An entry of the list that differs from the table has a handler on its way to
\* correct it: one that will read the table, or has read the present score.  The
\* exceptions are the entries a race, a late update or a failed read disturbed, until a
\* list that meets none of these settles them (test-client.html:293 "room:presence with
\* updated score").
WrongScoreIsCorrected ==
    \A c \in Codes : \A u \in Wrong(c) \ disturbed[c] :
        \E s \in Sockets :
            /\ handler[s].code = c
            /\ \/ handler[s].pc = "list"
               \/ handler[s].pc = "write" /\ handler[s].list[u] = score[c][u]
=============================================================================
