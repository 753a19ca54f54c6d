---------------------------- MODULE RoundLedger ----------------------------
(***************************************************************************)
(* What the database promises about rounds, with no transaction, lock or   *)
(* selection in sight: a room has at most one open round; opening a round  *)
(* gives each of its players a character no round of the room ever gave,   *)
(* in one step; closing it is final.  RoundStore, the statements of        *)
(* src/internal/storage/ws_game_store.go, implements this specification.   *)
(***************************************************************************)
EXTENDS Functions

CONSTANTS Rooms, Users, Characters, RoundIds, None

VARIABLES
    current,      \* rooms.current_round_id
    roundRoom,    \* room_rounds.room_id, None while the row does not exist
    ended,        \* the rounds with an ended_at
    assignments   \* round_assignments

vars == <<current, roundRoom, ended, assignments>>

\* The characters some round of room r has given out.
Given(r) == {a.character : a \in {b \in assignments : roundRoom[b.round] = r}}

\* The assignment rows of a round that gives player u the character deal[u].
RowsOf(id, deal) ==
    {[round |-> id, user |-> u, character |-> deal[u]] : u \in DOMAIN deal}

Init ==
    /\ current = [r \in Rooms |-> None]
    /\ roundRoom = [id \in RoundIds |-> None]
    /\ ended = {}
    /\ assignments = {}

Open(r, id, players) ==
    /\ current[r] = None
    /\ roundRoom[id] = None
    /\ \E deal \in Injection(players, Characters \ Given(r)) :
          assignments' = assignments \union RowsOf(id, deal)
    /\ current' = [current EXCEPT ![r] = id]
    /\ roundRoom' = [roundRoom EXCEPT ![id] = r]
    /\ UNCHANGED ended

Close(r) ==
    /\ current[r] # None
    /\ ended' = ended \union {current[r]}
    /\ current' = [current EXCEPT ![r] = None]
    /\ UNCHANGED <<roundRoom, assignments>>

Next ==
    \E r \in Rooms :
        \/ \E id \in RoundIds, players \in (SUBSET Users) \ {{}} : Open(r, id, players)
        \/ Close(r)

Spec == Init /\ [][Next]_vars
=============================================================================
