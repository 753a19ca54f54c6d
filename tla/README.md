# Verification of the guess-who game backend

TLA+ models of the server in `src/`, the TLC runs that check them on small
instances and the TLAPS proofs that hold for every instance. The server is one
Go process: an HTTP API for guests, rooms and packs, a websocket hub that keeps
the rooms' presence and runs rounds, and a PostgreSQL database that holds
everything that must outlive the process.

## 1. Inventory

| Component (code) | State | Operations | Hard part | What makes it correct |
|---|---|---|---|---|
| Round store (`internal/storage/ws_game_store.go`, `room_pack_store.go`, the schema) | rounds, assignments, used characters, `rooms.current_round_id`, pack selections | `StartRoundAssignCharacters`, `EndRound`, `SetRoomPackSelectionBySlugs` | many handlers, row locks, `SKIP LOCKED`, failure between any two statements | one open round per room; a character is dealt once per room; a failed start leaves nothing; calls come back |
| `WSConn` (`internal/ws/connection.go`) | a queue of 64, a context, a socket, a `sync.Once` | `Send`, `writeLoop`, `Close` | several senders, a slow peer, `Close` from four places at once | bounded, in order; what it loses is bounded; a blocked `Send` returns; `Close` ends the writer |
| Hub (`internal/ws/hub.go`) | rooms by code; in each the connections and the presence list | `GetRoom`, `Register`, `Unregister`, `UpsertMemberState`, `SetConnected`, `BroadcastPresence`, `TryDeleteEmptyRoom` | one operation of a handler is several lock regions | who is served is registered, and in the room of its code; nobody is shown connected by mistake; who is served in the room of its code keeps it |
| Handler (`internal/ws/handler.go`) | one goroutine per socket: its connection, its room | `room:join`, the host's commands, `client:ping`, disconnect | reconnects, a second join, panics | as the hub's |
| Round delivery (`handler.go` over the store and the hub) | the list of players a start was asked for, the cards still to send | `host:start_round`, `host:end_round` | players come and go between the list and the sends; a COMMIT outlives the call that gave it up, or the process; a host has two handlers after a reconnect | nobody gets its own card or cards that are not recorded; who stays gets them; the last answer is true |
| Sweeper (`internal/ws/sweeper.go`) | one goroutine | tick, scan, close, broadcast, delete | acts on what it saw before it released the lock | silent clients and empty rooms go, others stay |
| Refresh sessions (`internal/http/auth_handlers.go`, `internal/storage/auth_store.go`) | `refresh_sessions`, the browser's cookie | `Guest`, `Refresh`, `Logout` | requests at once, answers lost or overtaken | one live session per user, each exchanged once; the cookie follows the session |
| Rooms and members (`room_store.go`, `room_handlers.go`) | rooms, members | `CreateRoom`, `JoinRoom`, `UpsertRoomMember`, `ListRoomMembers`, `AddMemberScore` | two statements without a transaction; a copy of the scores in the presence list, written from lists read earlier; an `UPDATE` that outlives the command that gave it up | a code that is answered is its owner's room; only the host's commands change scores; the copy catches up |
| Pack selection requests (`room_packs_handlers.go`, `room_pack_store.go`) | selections | replace a selection, by list or by collection | two at once, at READ COMMITTED; packs that stop being public | nothing stays of a request that another began after; nothing is missing of the last |
| Catalogue (`packs_store.go`, `collections_store.go`, their handlers) | packs, characters, collections | queries; a selection reads a collection's public packs | read while it is imported | as the importer's |
| Importer (`cmd/jsonimporter`) | none of its own; fills the catalogue | upserts from files, each its own transaction | stopped half-way and run again; names that share a slug or have none | a run that ends leaves what the file says |
| Wiring (`cmd/server`, `router.go`, `config`, `storage.go`, `auth.go`, `roomcode.go`) | none | start, configuration, tokens | none | - |

How they interact: a socket's handler calls the store for every command and the
hub for every broadcast; broadcasts call `Send` on the connections of other
handlers; a handler, the sweeper, `Register` and `writeLoop` all may close a
connection; handlers and the sweeper share the rooms under locks that are
released before anything is sent. Between the processes of the game and the
database there are only transactions. The hazards of all this are listed in
`PROJECT.json`, each at its line, with the properties that watch it.

## 2. The modules

| Module | Models | Role |
|---|---|---|
| `RoundLedger` | what the tables of rounds promise | abstract: open and close a round in one step |
| `RoundStore` | `StartRoundAssignCharacters`, `EndRound`, `SetRoomPackSelectionBySlugs` | detailed; implements `RoundLedger` |
| `RoundStoreProofs` | | theorems about `RoundStore` |
| `Mailbox` | what a connection promises to those who `Send` on it | abstract: post, deliver, break |
| `WSConn` | one connection | detailed; implements `Mailbox` |
| `WSConnProofs` | | theorems about `WSConn` |
| `Registry` | what the hub promises about connections | abstract: register, remove, close, crash |
| `Hub` | hub, handlers and sweeper together | detailed; implements `Registry` |
| `HubProofs` | | theorems about `Hub` |
| `GameSession` | a round from the host's command to the players' cards | composes `RoundLedger` and `Registry` (by `INSTANCE`) with the host's handlers |
| `GameSessionProofs` | | theorems about `GameSession` |
| `Catalogue` | the catalogue's tables and the importer | detailed |
| `CatalogueProofs` | | lemmas about the importer's steps |
| `PackSelection` | concurrent PUTs of a room's selection | detailed; extends `Catalogue` |
| `PackSelectionProofs` | | theorems about `PackSelection` and the `Catalogue` beside it |
| `SessionChain` | what the table of sessions promises | abstract: sign up, rotate, end |
| `RefreshSessions` | `Guest`, `Refresh`, `Logout` and their transactions | detailed; implements `SessionChain` |
| `RefreshSessionsProofs` | | theorems about `RefreshSessions` |
| `Members` | `CreateRoom`, `JoinRoom`, `UpsertRoomMember`, `AddMemberScore`, the requests and socket commands around them, the scores in the presence list | detailed |
| `MembersProofs` | | theorems about `Members` |
| `MCRoundStore`, `MCHub`, `MCRefreshSessions`, `MCMembers`, `MCGameSession`, `MCPackSelection` | | constants for TLC |

An operator whose name begins with `Bug` is a faulty version of the definition
after it. No action uses one; each stands for a plausible bug that a property
must notice.

### RoundStore

`call[w]` is worker `w`'s call into the store, with a program counter:

    start  --LockToStart-->  locked  --PickCharacters-->  picked  --CommitStart-->  idle
    end    --LockToEnd-->    ending  --CommitEnd-->  idle

One action runs from one statement that another transaction can notice to the
next: the `SELECT ... FOR UPDATE` of the room's row, the `SELECT ... FOR UPDATE
SKIP LOCKED` of the characters, and the commit. What a transaction wrote is in
its call until the commit moves it to the tables, so READ COMMITTED comes for
free and a rollback (`Abort`, `NotEnough`, `AlreadyActive`) is dropping the
call. Locks of calls are not variables: a call holds its room's row from `locked` or
`ending` to its end, and the rows of the characters it picked. The importer, a program
of its own that may run beside the server, locks a character's row too, to upsert it or
to refer to it from a translation (`cmd/jsonimporter/main.go:156-175`): `importing` is
the rows it holds, which `SKIP LOCKED` skips like those of other starts. The selection is
read at `StartRound`, outside the transaction, as in the code.

Abstractions: the round's id, which the insert draws at random, is fixed when
the call begins and is invisible until the commit; the scan behind `SKIP LOCKED`
is one step, though PostgreSQL locks row by row. The room's used characters
cannot change meanwhile, so a scan that succeeds picks what a one-step scan at its
end may pick; one that other rooms' transactions and the importer make come up short
at no single moment is an `Abort` of the model, with the same effect. `SetRoomPackSelectionBySlugs`
is one step here, since its writes show only at its commit; what several of them
leave is `PackSelection`'s business, and a selection may be any member of
`Selections`, unions included.

### WSConn

The steps are Go's: a `select` takes any ready case; a sender that finds none
parks in the channel's queue and is served by the next receive; `cancel` wakes
all the parked; a send on a closed channel panics. `once` says how far the one
run of `Close` has come (`cancel`, `close(sendCh)`, the socket); later callers
wait for it, which only `writeLoop` notices. `accepted` and `written` are
history variables.

`ImplementsMailbox` maps this to a mailbox of `Cap + 1` messages: the queue is the
message being written followed by the channel's buffer, what is delivered is what
was written, and the mailbox is broken once `writeLoop` has left its loop. A parked
`Send` is not in the mailbox yet; a `Send` into the buffer after that point is a
stutter, because nobody will read it. `cancel`, `close(sendCh)` and the dead socket
are stutters too.

`LossIsBounded` is what a handler can rely on after a `Send` that returned no error:
at most a full buffer and one message more are lost.

### Hub

`handler[s]` is the program counter and the locals of socket `s`'s goroutine;
each action is one lock region, one database call or one round of sends. The
`n`-th join of `s` makes the connection `<<s, n>>`, because the code makes a new
`WSConn` for each `room:join` and forgets the old one. `RoomHub`s are objects
that a handler may hold after the hub's map has dropped them. Time is two sets:
`idle`, the connections not touched for 30 s, and `quiet`, the rooms not active
for 40 s (`cmd/server/main.go:44-48`). Sends are atomic here; that a closed
connection may panic is taken from `WSConn`. A panic in a handler is recovered by
`net/http`, which runs only the deferred close of the socket; a panic in the
sweeper ends the process (`SweepPanics`). The reply to the handler's own client
is one more target of the broadcast that follows it; a pong or a refusal, which no
broadcast follows, is a send of its own (`Ping`, `Answer`) that may panic like any, and
only the pong touches the connection. `Close` is one step with the lock region that
calls it. `TryDeleteEmptyRoom` is two (`CheckEmpty`, `DropRoom`): it holds the hub's lock
throughout, so no `GetRoom` runs in between, but leaves the room's before it deletes
(`hub.go:160-165`), and `Register` takes only the room's.

Not in this module: names and roles of members; their scores, which are in
`Members`; the text of messages; which command was refused; the store's part and
the cards of a round, which are in `GameSession` (`RoundCommand` only broadcasts). `ListMembers` may return any part of the members: the
rows read before an error come with it, and the handler drops the error.

`ImplementsRegistry` maps this to `Registry`, a specification of the rooms' maps
without handlers, sweeper or locks: the connections of all `RoomHub`s (`conns`), those
that are or were registered (`Opened`: a join's connection counts from its
`Register` on) and the closed ones. `Register` closes the user's old connection in the
room; a leaving handler, the sweeper and a room's re-use are a `Remove`; a failed
read or write, a panic in a handler and the sweeper's `Close` are a `Close`; the sweeper's
panic is a `Crash`. Everything else stutters.

`ServedIsRegistered` is what the code should promise and does not (a violation
below); `OneSocketIsRegistered` is what it does promise: only a second socket of the
same user takes a served connection out of the map. `ServedIsInTheRoom` and
`ServedRoomStays` are such a pair too: a join may get into a room that is being deleted,
before its `Register` or between the sweeper's check and its delete; whoever is past
that, served in the room the hub has and no delete under way, keeps it.

### GameSession

`handler[h]` is the handler of the host's connection `h`, with a program counter:

    read --ReadStart--> asked --StartRound--> start --LockToStart--> locked
         --Started--> send --SendTo, Deliver, ...--> --Reply--> read
    read --EndRound--> end --LockToEnd--> ending --Ended--> reply --Reply--> read

A command that is refused or fails goes to `reply` as well; `none` is a handler that
is still to come, or has returned or panicked. The tables are those of `RoundLedger`, changed only by its
`Open` and `Close`: `RoundStore` implements it, so what the store's statements do in
between is not repeated here, except that a transaction holds the room's row from
`locked` or `ending` on. `inflight` is a transaction whose caller
does not listen any more, because the call timed out (8 s, `StartUnanswered`,
`EndUnanswered`) or the process died (`Crash`) with the COMMIT on its way: it keeps the
row until the database commits it (`LateCommit`) or drops it (`LateRollback`), and
meanwhile the host, or its second handler, may ask again. (Seen from `RoundStore` such a
transaction is a call like any other; nothing there says who listens to it.)

Connections are those of `Registry`, in all `RoomHub`s: `Register`, `Remove`, `Close` and
`Crash` are its steps, taken at any time, for any user, without a bound on how often a
user reconnects other than the set `Conn`. Since `Hub` is proved to implement
`Registry`, what is proved here holds for whatever the handlers and the sweeper do.
`home[h]` is the `RoomHub` handler `h` is in, the local `room` of the code: after what
`HubSplit` shows, the host's handlers may be in two of them, see other players
(`Here(h)`), and command the same row of the database. The host's connections under
other codes are not in `Hosting` and have no handler here. (Whose a connection is and under
which code, `UserOf` and `Hosting`, are constants, because a connection is registered once.)

`SendTo` looks a connection up under the lock and `Deliver` sends on it afterwards, when
it may be closed: a refused send or a panic. `got` is what has been queued on each
connection; what the queue then does is `WSConn`'s business, a blocked `Send` included.

`last` is a history variable, the handler of the last command if no other command
overlapped it. Without that restriction `AnswerIsTrue` does not hold: the old handler of
a host that reconnected may still be dealing a round that the new one has ended, and
its cards and its "started" come after the end.

### Catalogue and PackSelection

`Catalogue` has the tables `packs`, `characters`, their translations and
`collection_packs`, and one importer: each upsert is an action, because the program
uses no transaction. `Exit` stops it between any two of them (`must` ends
the process), `StartImport` runs it again. A pack or name is a key through
`Slugify`, whose last resort is the clock: for a name without Latin letters or
digits each second gives another key. Two assumptions name what the model leaves out of the
strings: no name of the file slugifies to what the clock gives
(`TimesAssumption`: a name like "pack 1700000000"), and none is the placeholder a
character has before its translation (`UntitledAssumption`). Franchises come in the order of a Go map, names in
the order of the file. Rows are identified by their keys; ids are left out.

`request[q]` is one PUT, from its body to its commit. At READ COMMITTED the
`DELETE` removes the rows that were committed when it began (`snapshot`) and that
nobody has removed meanwhile; it waits for a transaction that is removing one of
them. `INSERT ... ON CONFLICT DO NOTHING` waits for a transaction that inserts or
removes the same pack and skips a row it finds. What a transaction has written
stays in its request until the commit. A row of `rows` carries the request that
inserted it, and `earlier` and `seen` record who had begun and who had committed when
a `DELETE` began: history variables, for the property. The slugs of a body are a
set, in any order: the order only decides who waits for whom, and a deadlock is an
`Abort`. One room, because selections of two rooms share no row.

### RefreshSessions

`request[q]` is one request of one browser, from the moment it is sent with the
cookie of that moment until its answer has been received or lost. `locked` is the
time between `SELECT ... FOR UPDATE` and the end of `RotateRefreshSession`. A
commit that succeeds and is reported as failed is an answer that is lost.
`disturbed` is a history variable: the browser once had two requests in
progress, lost an answer, or was told 204 by a logout whose `UPDATE` had failed.
Browsers share no row, so one is enough. Access tokens carry their own expiry and
no state, and are left out.

### Members

The tables `rooms` and `room_members` are `owner`, `member` and `score`; each
database call is a step, and a call may take effect and be reported as failed
(`JoinUnanswered`, `CreateFails`). A score command that gives up after its 3 s, or dies
with the process, leaves its `UPDATE` in `late` (`ScoreUnanswered`; a `Restart` keeps
`late`): it is a transaction by itself, and the database carries it out once
(`LateScore`) or not at all (`LateLost`), at any time, wherever the handler is by then. A
member's row that is written late is like one that `POST /rooms/join` writes (`Join`). A
handler that joined or
scored reads the members (`list`), writes them to `presence` one lock region at a
time (`write`), and broadcasts; meanwhile others do the same. The history
variable `disturbed` holds the entries that somebody's older list, a late update
or a failed read (`ListFails`, which writes the rows it got) may leave wrong; an entry is settled when the table's score is
written and nobody else has a row of that user in hand. A room has one list here;
what becomes of lists the sweeper drops under a handler is `Hub`'s business. Lists
follow the entries of `Targets` only, the users that score commands name: the others'
scores stay 0 in the table and in every list. The proofs allow any `Targets`. A
code that is already taken changes nothing, so the retries of `Create`
are no step. Names and roles of members are only shown and are left out; the
role that gives rights is the handler's local.

## 3. The runs

| Run | Instance | What it shows |
|---|---|---|
| `RoundStore` | 2 rooms, 2 handlers, 2 players, 2 packs of one character, 2 rounds | all the safety properties (`NotEnoughIsNotOwn` among them), the refinement of the ledger, and `CallReturns` |
| `WSConn` | 2 senders of 3 messages, a queue of 2 | bounds, order, `LossIsBounded`, `SendReturns`, `CloseEndsWriter`, and the refinement of the mailbox |
| `WSConnPanic` | 2 senders of 2 messages, a queue of 1 | violation: `SendNeverPanics` |
| `Hub` | two sockets, of one user or of two, one code, two room objects | `NoPhantomMember`, `OneSocketIsRegistered`, `RegisteredIsShown`, `ServedRoomStays`, the refinement of the registry |
| `HubReconnect` | one user with two sockets | violation: `ServedIsRegistered` |
| `HubSplit` | as `Hub` | violation: `ServedIsInTheRoom` |
| `HubSwept` | one socket that joins twice, two codes | violation: `SweepsOnlySilent` |
| `HubLive` | two sockets of one user, the host, one code, one room object | `DeadConnsLeave`, `EmptyRoomsGo` |
| `RefreshSessions` | 3 requests at once, 4 tokens, 2 users | one live session, the cookie, the refinement of the chain |
| `GameSession` | a host with 2 connections and a player with one, 1 `RoomHub`, 2 characters, 2 rounds | `OnlyOthersCards`, `StayersHaveTheirCards`, `AnswerIsTrue` |
| `PackSelection` | 2 PUTs, 2 runs of the importer, 2 franchises with 3 names, 1 collection, 2 seconds | `SelectionIsRecent`, `ImportIsTheFile` |
| `Members` | 2 codes, 2 users with a socket each, scores 0 and 1 of one user (`Targets`), a late update in each room | `AnsweredRoomIsReady`, `ScoresOnlyByHost`, `WrongScoreIsCorrected` |

Why the bounds are enough. `RoundStore`: two handlers make every pair of
transactions meet, in one room or across rooms that compete for the same
characters; two players need both characters, so `NotEnough` occurs because of
used, of unselected ones, and of ones another start or the importer holds; two rounds in a room are enough for a
repeat. More rooms, rounds and handlers are covered by the proofs. `WSConn`: two
senders and a queue of two reach a full queue with both parked and a third
message behind; the capacity is a constant of the model, 64 in the code. `Hub`: the
sockets are assigned to users by the joins, so the run holds both a user with two
sockets (a stale disconnect) and two users with one each (a split room, and users
who write each other's entries); two room objects suffice, one named by the hub and
one held by somebody after its deletion. `HubSwept` has a socket that joins twice. `HubLive` has the two sockets of a
host, so a handler whose connection a reconnect took out of the map is among its
behaviours: it is what `HostInside` is about. It has one room object, so a join that
finds the code without a room waits until nobody holds the old one; a second object
would only let it go on there, in a room of its own. `GameSession`: the host plays as well, so a round has two
players and one of them is dealt on the host's own connection. The host's second
connection gives it a second handler beside the first and makes it the player who
reconnects, so that every reconnect meets every step of a start or an end; a crash with
connections left over is a restart. Two characters let a second round follow only a
round of one player, and two round ids let a late commit meet a new start. The run
has one `RoomHub`: with two of them it would take too long. That the host's
handlers, and the player, may be in different ones is a finding of `HubSplit`, and
what `GameSession` promises then is proved in `GameSessionProofs`, as it is for more
connections, players and rounds. `PackSelection`: two PUTs already leave a union or lose
a pack. Two `DELETE`s that race for committed rows need a third PUT, which
the run has no time for; `Recent` is proved for any number. Two names share a slug
and one has none; two runs of the importer, with either visibility, make a
stopped and a repeated one, and two seconds make two keys of one name.
`RefreshSessions`: two requests race for one row while a third logs out, and four
tokens make two rotations after a guest's first session or two guests. `Members`:
two requests draw one code; one socket is host in one room and player in the
other, where a late update of the first finds it; a host scores a player while that player's handler holds the old score.
The proofs cover more handlers, users and scores.

`CHECK_DEADLOCK FALSE` in the runs of `WSConn`, `Hub`, `GameSession` and
`PackSelection`: a closed connection whose senders have nothing more to say, a
server whose clients have all gone, a room whose connections are used up, and PUTs
and imports that are all over rightly stop. `RoundStore`, `RefreshSessions` and
`Members` never stop and are checked for deadlock.

Symmetry is used only for sockets (`Hub`), for characters, round ids, the
host's connections and the `RoomHub`s (`GameSession`), for requests (`PackSelection`), for tokens, users and requests
(`RefreshSessions`) and for codes (`Members`), where no constant tells them apart
and no liveness is checked.

### What the violations say

1. `WSConnPanic`: `Send` on a closed connection should return "connection closed"
   (`connection.go:81-82`), but its `select` may take the send, which panics.
2. `HubReconnect`: a reconnecting player's old handler removes the new connection
   (`hub.go:93` deletes by user). The player is served but receives nothing.
3. `HubSplit`: between `GetRoom` and `Register` (`handler.go:186-187`) the sweeper
   may delete the room, and between its check and its delete (`hub.go:162-165`) a join
   may register in it; two players with the same code then sit in two rooms.
4. `HubSwept`: after a second `room:join` on one socket the first connection is
   never touched again, and the sweeper closes the socket of an active client.

Five behaviours contradict no text of the repository and are stated as what
the code guarantees instead. A start can be told "not enough characters available"
(`ws_game_store.go:14`) while another room's start, which may still fail, or the
importer holds the rows; `NotEnoughIsNotOwn` says that nothing else can have that
effect, the room's own commands least of all. Two PUTs of a
room's packs that overlap may leave the union of what they ask for, or less than
either; `SelectionIsRecent` bounds it. An import of a name without Latin letters
leaves a pack or character more at each run; `ImportIsTheFile` says that nothing else
does. A score command that is told it failed may count later, also when the host has left
or the process was restarted; `ScoresOnlyByHost` says that it counts once, as the host
asked. And a room whose creation failed half-way (`room_store.go:41`) stays, without a host,
its code taken; `AnsweredRoomIsReady` says that nobody was given its code.

### Fairness

* `RoundStore`: strong fairness of each call's own steps. PostgreSQL grants a row
  lock in the order of the requests, so a waiting `SELECT ... FOR UPDATE` is not
  overtaken for ever; the other steps are statements that return. `Abort` (the
  8 s timeout, errors) has no fairness: calls return without it. Nor has the importer:
  a start passes over the rows it holds.
* `WSConn`: weak fairness of `writeLoop` and of a `Close` under way. Both are
  goroutines that never wait but in the write, which ends within 5 s.
* `Hub`: weak fairness of handlers and sweeper; strong fairness of time. A
  client that is gone sends nothing, so 30 s pass on its connection whenever its
  handler is at its read, in a send or gone (`Resting`; the other steps are lock regions
  and database calls of at most 3 s). In a room 40 s pass when no host is inside
  (`HostInside`): a host may broadcast as often as it likes, and each broadcast counts as
  activity (`hub.go:121-123`), also from a host whose reconnect took it out of the map.
  That is why `EmptyRoomsGo` excepts a room with a host inside: the code keeps it,
  though nobody is registered in it. Clients owe nothing.

## 4. The proofs

`RoundStoreProofs` proves, for any sets of rooms, players, characters, packs,
round ids and workers: `TypeCorrect`, `Exclusion` (`LocksExclude`),
`OneOpenRound` (`OpenRoundIsCurrent`), `NoRepeats` (`NoRepeatsInRoom`),
`NothingBurnt` (`UsedIsDealt`), `History` (`HistoryIsFinal`), `NotOwn`
(`NotEnoughIsNotOwn`) and `Refinement` (`ImplementsLedger`).
Assumptions: `PackOf` maps characters to packs, selections are non-empty sets of
packs, `None` is no room and no round id, players and characters are finite.
None of the properties is inductive: that a commit does not create a second open
round follows only from what the call read under the lock still being true. The
invariant `IInv` adds that (`CallKnows`: a `locked` call's room has no round, an
`ending` call's round is still current, a `picked` call's characters are unused,
a starting call's round id has no row), that two starts never have the same id
(`DistinctRounds`) and that dealt cards belong to recorded rounds. Each action has
a lemma; `CommitStart`'s, the long one, first shows what the new rows are
(`NewRows`). The refinement then needs only that `CommitStart` is an `Open` and
`CommitEnd` a `Close`.

`RefreshSessionsProofs` proves for any sets of tokens, users and requests:
`TypeCorrect`, `OneLive` (`OneLiveSession`), `CookieLives` (`CookieIsTheSession`)
and `Refinement` (`ImplementsChain`), from `None` being no token and no user.
The invariant adds that a lock holder's session is alive and has no other holder
(`RowsHeld`), that drawn tokens have no row and are distinct, and what an
undisturbed browser's only request is about (`Undisturbed`).

`MembersProofs` proves for any sets of codes, users and sockets and any range of
scores that contains 0: `TypeCorrect`, `AnsweredIsReady` (`AnsweredRoomIsReady`),
`OnlyByHost` (`ScoresOnlyByHost`) and `Corrected` (`WrongScoreIsCorrected`), from
the assumptions on the constants. `OnlyByHost` needs that a handler's role belongs
to the room it is in now (`HostsOwn`), for the update of a command and for those it leaves
behind (`OnlyHostStep`, a lemma per kind of step); `Corrected` needs that a row in a handler's
hands is the table's unless its entry is disturbed (`HeldIsCurrent`), and that what
is shown has a row (`RowsExist`).

`WSConnProofs` proves for any senders, capacity and number of calls: `TypeCorrect`,
`Ordered` (`InOrder`), `LossBounded` (`LossIsBounded`), `Parked`
(`ParkedOnlyWhenFull`) and `Refinement` (`ImplementsMailbox`). Its invariant adds how far `Close` has come (`CloseInOrder`:
the channel is closed only after the context) and that messages are numbered per
sender (`Numbered`): what a sender has accepted, in the order of the calls, and a
parked message behind all of it. The mailbox's `Post`, which demands a sender's
order, follows from that. `LossBounded` needs that what was accepted and not
written is in the buffer, but for one message, in the writer's hands or failed
(`AtMostOneLost`).

`HubProofs` proves for any sockets, users, codes, room objects and number of joins:
`TypeCorrect`, `NoPhantom` (`NoPhantomMember`), `Reachable`
(`OneSocketIsRegistered`), `Shown` (`RegisteredIsShown`), `RoomStays` (`ServedRoomStays`) and `Refinement`
(`ImplementsRegistry`). The invariant needs whom a program counter speaks for
(`WellPlaced`), that a connection in the map is of its own user and of a join that
has happened (`OwnConns`), and that a user's only socket has left the map before
it writes its entry off (`LeftBeforeOff`). `RoomStays` uses that a user's only
socket is in the map of its room (`OneSocketIsRegistered`), so that `CheckEmpty` does not
begin a delete of it (`DropsEmpty`), and that who goes on serving stays in its room
(`SameRoom`); one that had begun is excluded by the property (`InItsRoom`). The refinement shows action by action that a step is one of
`Registry`'s or a stutter (`Implements`); it needs besides that what is in a map, or in the
sweeper's hands, has been opened (`OnlyOpened`): a room that `GetRoom` makes anew is a `Remove` of whoever
was left in an object nobody holds.

`GameSessionProofs` proves for any users, `RoomHub`s, connections, round ids and
characters, from `None` being none of them and the host's connections being the host's:
`TypeCorrect`, `OthersOnly` (`OnlyOthersCards`), `Stayers`
(`StayersHaveTheirCards`) and `AnswersTrue` (`AnswerIsTrue`). The invariant `GInv`
adds that the room's row has one holder, a transaction nobody listens to included
(`Locking`); that cards belong to recorded rounds and a dealing handler has all of
its round (`Identified`, `Recorded`, `Dealing`); that a registered connection, and one in a
handler's snapshot, has been opened and is of its own user (`Known`), so that one that
equals its snapshot never left the map for another and came back (`Serving`); and that
the last command is alone with the store (`LastWord`). The three refinements
(`RoundStore` of `RoundLedger`, `Hub` of `Registry`, `WSConn` of `Mailbox`) say that the
environment this module gives the handlers is what the code gives them; that a queue delivers what `got` records is
the mailbox's promise.

`PackSelectionProofs` proves for any requests, packs, lists and imports:
`TypeCorrect`, with the table's primary key, `Recent` (`SelectionIsRecent`),
`LastReplaces` (a PUT that overlaps no other leaves exactly what it asked for; it
follows from `Recent`) and `CatalogueIsTheFile` (`ImportIsTheFile`). The
invariant adds that requests begin one after the other and later ones see more
(`Ordered`), that a `DELETE` takes exactly the rows of those it saw (`Snapshots`),
that no two transactions hold a row or insert a pack in common (`Exclusive`), and
that a pack an `INSERT` skipped is there or its row was replaced (`LeftAlone`).
`CatalogueIsTheFile` rests on the lemmas of `CatalogueProofs`: its invariant
`ImportInv` says that the importer's locals belong to its franchise (`HandKnown`,
`KeyKnown`), that what has a slug of the file is named after it (`TrueNames`), and that
everything the run has passed is in the tables (`Imported`): the franchises it is done
with, of the present one the names before the present name, and each link it wanted
or a warning. It needs no induction over the file: the sequence of names only ever loses
its head. An upsert of a later franchise with the same slug must not undo an
earlier one's, which is where the assumptions on slugs come in.

Only model-checked: liveness (`CallReturns`, `SendReturns`, `CloseEndsWriter`,
`DeadConnsLeave`, `EmptyRoomsGo`), which is outside the prover's reach together with
`ENABLED`. All invariants and action properties of the passing runs are theorems.
`ServedIsRegistered`, `ServedIsInTheRoom`,
`SweepsOnlySilent` and `SendNeverPanics` are false.

## 5. Not modelled, and the plan

What could still be added, in this order:

1. Liveness of `GameSession`: a command is answered in the end. It follows from
   `CallReturns` and `SendReturns` informally; as a property of the composition it
   needs strong fairness of the row's lock beside late commits.
2. `Members`' presence list shows old scores after a race (`disturbed`), where
   `src/client-test/test-client.html:293` expects "updated score": a run that shows
   it.
3. The `Connected` flag of a user with two sockets, which `SetConnected(false)` of a
   leaving handler may write last (`handler.go:436`); the property covers users
   with one.
4. Answers of `Refresh` that are lost or overtaken by a logout
   (`auth_handlers.go:39`, `:124`): the code has no way back, and no text says what
   should hold.

Left out for good: how long the websocket library's `Close` takes under the room's
lock (`hub.go:83`), which is the library's; the paging and the JSON of the
catalogue's queries, which have no state; room codes, JWTs and configuration, which
have no behaviour over time; the HTML test client, whose expectations
(`src/client-test/test-client.html:253-294`) are the source of several properties;
Redis, which the code connects to and does not use.
