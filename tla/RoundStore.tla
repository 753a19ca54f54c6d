----------------------------- MODULE RoundStore -----------------------------
(***************************************************************************)
(* The rounds of the game as the store keeps them:                         *)
(* StartRoundAssignCharacters and EndRound of                              *)
(* src/internal/storage/ws_game_store.go, run by any number of handlers at *)
(* once against one PostgreSQL database at READ COMMITTED, beside the HTTP *)
(* request that replaces a room's pack selection and beside the importer   *)
(* (src/cmd/jsonimporter/main.go), which locks characters as well.         *)
(*                                                                         *)
(* A handler's call is a record of `call'.  The statements of its          *)
(* transaction are separate actions, so calls interleave between them.     *)
(* What a transaction has written and not committed is held in its call    *)
(* and reaches the tables when it commits; a rollback drops the call.  A   *)
(* row lock is a fact about the calls: a call holds its room's row from    *)
(* its SELECT ... FOR UPDATE until it ends, and the characters it picked.  *)
(***************************************************************************)
EXTENDS FiniteSets, Functions, Integers

CONSTANTS
    Rooms, Users, Packs, Characters,
    RoundIds,     \* the ids gen_random_uuid() hands out (their number bounds the rounds)
    Workers,      \* the handler goroutines that can be inside the store
    PackOf,       \* characters.pack_id
    Selections,   \* the selections of packs the hosts' requests ask for
    None          \* SQL NULL

ASSUME PackOfAssumption == PackOf \in [Characters -> Packs]
ASSUME SelectionsAssumption == Selections \subseteq (SUBSET Packs) \ {{}}
ASSUME NoneAssumption == None \notin Rooms \union RoundIds
ASSUME FiniteAssumption == IsFiniteSet(Users) /\ IsFiniteSet(Characters)

VARIABLES
    selection,    \* room_pack_selection: the packs selected for each room
    current,      \* rooms.current_round_id
    roundRoom,    \* room_rounds.room_id, None while the row does not exist
    ended,        \* the rounds with an ended_at
    assignments,  \* round_assignments
    used,         \* room_used_characters
    importing,    \* the characters whose row a statement of the importer holds locked
    call          \* what each worker is doing in the store

tables == <<selection, current, roundRoom, ended, assignments, used, importing>>
vars == <<selection, current, roundRoom, ended, assignments, used, importing, call>>

Idle == [pc |-> "idle", room |-> None, players |-> {}, packs |-> {},
         round |-> None, picked |-> {}]

Assignment == [round : RoundIds, user : Users, character : Characters]

Call ==
    [pc : {"idle", "start", "locked", "picked", "end", "ending"},
     room : Rooms \union {None}, players : SUBSET Users, packs : SUBSET Packs,
     round : RoundIds \union {None}, picked : SUBSET Characters]

TypeOK ==
    /\ selection \in [Rooms -> SUBSET Packs]
    /\ current \in [Rooms -> RoundIds \union {None}]
    /\ roundRoom \in [RoundIds -> Rooms \union {None}]
    /\ ended \in SUBSET RoundIds
    /\ assignments \in SUBSET Assignment
    /\ used \in [Rooms -> SUBSET Characters]
    /\ importing \in SUBSET Characters
    /\ call \in [Workers -> Call]

-----------------------------------------------------------------------------
(* Locks and free rows.  An operator named Bug... is a faulty version of the *)
(* one after it; no action uses it, it stands for a bug the checks must find. *)

BugEndWithoutForUpdate(r) ==
    {w \in Workers : call[w].room = r /\ call[w].pc \in {"locked", "picked"}}

BugPicksWithoutRoomLock(r) ==
    {w \in Workers : call[w].room = r /\ call[w].pc \in {"locked", "ending"}}

\* The workers whose transaction holds the lock on the row of room r.
Holders(r) == {w \in Workers : call[w].room = r /\ call[w].pc \in {"locked", "picked", "ending"}}

\* The characters a worker's transaction has locked.
LockedBy(w) == IF call[w].pc = "picked" THEN call[w].picked ELSE {}

BugUsedNotConsulted(w) == {c \in Characters : PackOf[c] \in call[w].packs}

\* The characters of the packs a call read that its room has not used.
Unused(w) == {c \in Characters : PackOf[c] \in call[w].packs /\ c \notin used[call[w].room]}

BugNoSkipLocked(w) == Unused(w)

\* FOR UPDATE OF c SKIP LOCKED: the rows any other transaction holds are passed over.
Pickable(w) == Unused(w) \ (importing \union UNION {LockedBy(v) : v \in Workers \ {w}})

\* A round id no table and no transaction in progress has.
IsFresh(id) == roundRoom[id] = None /\ \A w \in Workers : call[w].round # id

BugColumnsSwapped(id, deal) ==
    {[round |-> id, user |-> deal[u], character |-> u] : u \in DOMAIN deal}

\* The rows of round_assignments that give player u the character deal[u].
Rows(id, deal) == {[round |-> id, user |-> u, character |-> deal[u]] : u \in DOMAIN deal}

\* A call that ends without a commit: the deferred rollback, or no transaction at all.
Return(w) == call' = [call EXCEPT ![w] = Idle] /\ UNCHANGED tables

-----------------------------------------------------------------------------
Init ==
    /\ selection = [r \in Rooms |-> {}]
    /\ current = [r \in Rooms |-> None]
    /\ roundRoom = [id \in RoundIds |-> None]
    /\ ended = {}
    /\ assignments = {}
    /\ used = [r \in Rooms |-> {}]
    /\ importing = {}
    /\ call = [w \in Workers |-> Idle]

\* PUT of a pack selection commits.  The insert's foreign key and the final
\* UPDATE rooms wait for the room's row, so no start or end of the room is open.
SelectPacks(r, packs) ==
    /\ Holders(r) = {}
    /\ selection' = [selection EXCEPT ![r] = packs]
    /\ UNCHANGED <<current, roundRoom, ended, assignments, used, importing, call>>

\* StartRoundAssignCharacters begins: the selection is read outside the
\* transaction.  With nothing selected the call is over (ErrNoPackSelection).
\* The id the INSERT will draw is fixed here, where it is as invisible as there.
StartRound(w, r, players) ==
    /\ call[w] = Idle
    /\ players # {}
    /\ selection[r] # {}
    /\ \E id \in RoundIds :
          /\ IsFresh(id)
          /\ call' = [call EXCEPT ![w] =
                [pc |-> "start", room |-> r, players |-> players,
                 packs |-> selection[r], round |-> id, picked |-> {}]]
    /\ UNCHANGED tables

BugActiveRoundIgnored(w) ==
    /\ call[w].pc = "start"
    /\ Holders(call[w].room) = {}
    /\ call' = [call EXCEPT ![w].pc = "locked"]
    /\ UNCHANGED tables

\* SELECT current_round_id ... FOR UPDATE, then the insert of the round's row.
LockToStart(w) ==
    /\ call[w].pc = "start"
    /\ Holders(call[w].room) = {}
    /\ current[call[w].room] = None
    /\ call' = [call EXCEPT ![w].pc = "locked"]
    /\ UNCHANGED tables

BugWaitForRoundToEnd(w) ==
    /\ call[w].pc = "start"
    /\ Holders(call[w].room) = {}
    /\ current[call[w].room] # None
    /\ UNCHANGED vars

\* The same SELECT finds a round: ErrRoundAlreadyActive.
AlreadyActive(w) ==
    /\ call[w].pc = "start"
    /\ Holders(call[w].room) = {}
    /\ current[call[w].room] # None
    /\ Return(w)

BugUsedOutsideTransaction(w) ==
    /\ call[w].pc = "locked"
    /\ \E picked \in SUBSET Pickable(w) :
          /\ Cardinality(picked) = Cardinality(call[w].players)
          /\ call' = [call EXCEPT ![w].pc = "picked", ![w].picked = picked]
          /\ used' = [used EXCEPT ![call[w].room] = @ \union picked]
    /\ UNCHANGED <<selection, current, roundRoom, ended, assignments, importing>>

\* ORDER BY random() LIMIT need FOR UPDATE SKIP LOCKED: any `need' of the pickable rows.
PickCharacters(w) ==
    /\ call[w].pc = "locked"
    /\ \E picked \in SUBSET Pickable(w) :
          /\ Cardinality(picked) = Cardinality(call[w].players)
          /\ call' = [call EXCEPT ![w].pc = "picked", ![w].picked = picked]
    /\ UNCHANGED tables

\* Fewer rows than players: ErrNotEnoughCharacters, and the round's row is rolled back.
NotEnough(w) ==
    /\ call[w].pc = "locked"
    /\ Cardinality(Pickable(w)) < Cardinality(call[w].players)
    /\ Return(w)

\* The inserts of used characters and assignments, the update of the room and COMMIT.
CommitStart(w) ==
    LET me == call[w] IN
    /\ me.pc = "picked"
    /\ \E deal \in Bijection(me.players, me.picked) :
          assignments' = assignments \union Rows(me.round, deal)
    /\ used' = [used EXCEPT ![me.room] = @ \union me.picked]
    /\ roundRoom' = [roundRoom EXCEPT ![me.round] = me.room]
    /\ current' = [current EXCEPT ![me.room] = me.round]
    /\ call' = [call EXCEPT ![w] = Idle]
    /\ UNCHANGED <<selection, ended, importing>>

EndRound(w, r) ==
    /\ call[w] = Idle
    /\ call' = [call EXCEPT ![w] =
          [pc |-> "end", room |-> r, players |-> {}, packs |-> {},
           round |-> None, picked |-> {}]]
    /\ UNCHANGED tables

\* EndRound's SELECT ... FOR UPDATE reads the round it will close.
LockToEnd(w) ==
    /\ call[w].pc = "end"
    /\ Holders(call[w].room) = {}
    /\ current[call[w].room] # None
    /\ call' = [call EXCEPT ![w].pc = "ending", ![w].round = current[call[w].room]]
    /\ UNCHANGED tables

\* No round is open: the empty transaction commits and the host is told all is well.
NothingToEnd(w) ==
    /\ call[w].pc = "end"
    /\ Holders(call[w].room) = {}
    /\ current[call[w].room] = None
    /\ Return(w)

CommitEnd(w) ==
    /\ call[w].pc = "ending"
    /\ ended' = ended \union {call[w].round}
    /\ current' = [current EXCEPT ![call[w].room] = None]
    /\ call' = [call EXCEPT ![w] = Idle]
    /\ UNCHANGED <<selection, roundRoom, assignments, used, importing>>

\* A statement fails, the call's context expires, or the server dies: rollback.
Abort(w) ==
    /\ call[w].pc # "idle"
    /\ Return(w)

\* The importer upserts a character that is there, or its translation: a statement of its
\* own, which waits for a start that has picked the row and holds it until it commits.
ImportCharacter(c) ==
    /\ c \notin importing
    /\ \A w \in Workers : c \notin LockedBy(w)
    /\ importing' = importing \union {c}
    /\ UNCHANGED <<selection, current, roundRoom, ended, assignments, used, call>>

ImportDone(c) ==
    /\ c \in importing
    /\ importing' = importing \ {c}
    /\ UNCHANGED <<selection, current, roundRoom, ended, assignments, used, call>>

Step(w) ==
    \/ LockToStart(w) \/ AlreadyActive(w) \/ PickCharacters(w) \/ NotEnough(w)
    \/ CommitStart(w) \/ LockToEnd(w) \/ NothingToEnd(w) \/ CommitEnd(w)

Next ==
    \/ \E r \in Rooms, packs \in Selections : SelectPacks(r, packs)
    \/ \E c \in Characters : ImportCharacter(c) \/ ImportDone(c)
    \/ \E w \in Workers :
          \/ \E r \in Rooms, players \in SUBSET Users : StartRound(w, r, players)
          \/ \E r \in Rooms : EndRound(w, r)
          \/ Step(w)
          \/ Abort(w)

Spec == Init /\ [][Next]_vars

\* Every call takes its steps without help from timeouts.  Strong fairness: row
\* locks are granted in the order of the requests, so a waiter is not passed forever.
\* Nothing is asked of the importer: a start passes over the rows it holds.
FairSpec == Spec /\ \A w \in Workers : SF_vars(Step(w))

-----------------------------------------------------------------------------
(* Safety *)

\* Locking: a room has one transaction at a time between its SELECT ... FOR UPDATE
\* and its end, and no character is in the picks of two transactions, even of
\* different rooms, or in a statement of the importer (ws_game_store.go:88, :125, :199).
LocksExclude ==
    /\ \A r \in Rooms : \A v, w \in Holders(r) : v = w
    /\ \A v, w \in Workers : v # w => LockedBy(v) \intersect LockedBy(w) = {}
    /\ \A w \in Workers : LockedBy(w) \intersect importing = {}

\* "Set on start_round, cleared on end_round" (000001_init.up.sql:131): the rounds of
\* a room without an ended_at are exactly the one its current_round_id names, so a
\* room never has two open rounds and never points at another room's or an ended one.
OpenRoundIsCurrent ==
    /\ \A id \in RoundIds, r \in Rooms :
          (roundRoom[id] = r /\ id \notin ended) <=> current[r] = id
    /\ \A id \in ended : roundRoom[id] # None

\* "prevents repeats within a room" (000001_init.up.sql:186): over all the rounds of a
\* room, ended or not, no character is dealt twice, whoever the two players are.
NoRepeatsInRoom ==
    \A a, b \in assignments :
        roundRoom[a.round] = roundRoom[b.round] /\ a.character = b.character => a = b

\* A character is burnt for a room exactly when one of its rounds dealt it: a start
\* that fails after the picks leaves nothing behind (ws_game_store.go:81-85, :148-176).
UsedIsDealt ==
    \A r \in Rooms :
        used[r] = {a.character : a \in {b \in assignments : roundRoom[b.round] = r}}

-----------------------------------------------------------------------------
(* Steps *)

\* History is append-only: a recorded round keeps its room and its cards, an ended
\* round stays ended, and a room goes from one round to the next only through none.
HistoryKept ==
    /\ \A id \in RoundIds : roundRoom[id] # None => roundRoom'[id] = roundRoom[id]
    /\ ended \subseteq ended'
    /\ assignments \subseteq assignments'
    /\ \A a \in assignments' \ assignments : roundRoom[a.round] = None
    /\ \A r \in Rooms : current[r] # None => current'[r] \in {current[r], None}

\* No step of any handler rewrites history (ws_game_store.go:95-101, :161-178, :206-209).
HistoryIsFinal == [][HistoryKept]_vars

\* The host is told "not enough characters available" (ws_game_store.go:14) because the
\* room's packs hold too few it has not used, or because the start of ANOTHER room or the
\* importer holds some of those at that moment (SKIP LOCKED, :125): commands for one room,
\* however they overlap, never take characters from each other.
NotEnoughIsNotOwn ==
    [][ \A w \in Workers :
          NotEnough(w) =>
              \/ Cardinality(Unused(w)) < Cardinality(call[w].players)
              \/ \E v \in Workers :
                    call[v].room # call[w].room /\ LockedBy(v) \intersect Unused(w) # {}
              \/ importing \intersect Unused(w) # {} ]_vars

\* The statements, locks and rollbacks together do what the ledger does in one step.
Ledger == INSTANCE RoundLedger
ImplementsLedger == Ledger!Spec

-----------------------------------------------------------------------------
(* Liveness *)

\* A call into the store comes back, without waiting for its context to expire:
\* the row locks cannot leave every handler waiting for another.
CallReturns == \A w \in Workers : []<>(call[w] = Idle)
=============================================================================
