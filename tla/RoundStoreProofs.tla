-------------------------- MODULE RoundStoreProofs --------------------------
(***************************************************************************)
(* Proofs about RoundStore for any number of rooms, players, characters,   *)
(* round ids and concurrent handlers.  The properties the runs check are   *)
(* not inductive alone: they need what each call knows while its locks     *)
(* protect it (CallKnows), and that two starting calls hold distinct round *)
(* ids.  IInv puts them together.                                          *)
(***************************************************************************)
EXTENDS RoundStore, TLAPS

Starting(w) == call[w].pc \in {"start", "locked", "picked"}

\* What a call has read, or holds, is still true of the tables.
CallKnows ==
    \A w \in Workers :
        /\ call[w].pc = "idle" => call[w] = Idle
        /\ call[w].pc # "idle" => call[w].room \in Rooms
        /\ call[w].pc = "end" => call[w].round = None
        /\ Starting(w) => /\ call[w].round \in RoundIds /\ roundRoom[call[w].round] = None
                          /\ call[w].players # {}
        /\ call[w].pc \in {"locked", "picked"} => current[call[w].room] = None
        /\ call[w].pc = "ending" =>
              call[w].round \in RoundIds /\ current[call[w].room] = call[w].round
        /\ call[w].pc = "picked" => call[w].picked \intersect used[call[w].room] = {}

DistinctRounds ==
    \A v, w \in Workers :
        v # w /\ Starting(v) /\ Starting(w) => call[v].round # call[w].round

AssignmentsRecorded == \A a \in assignments : roundRoom[a.round] # None

IInv ==
    /\ TypeOK
    /\ CallKnows
    /\ DistinctRounds
    /\ LocksExclude
    /\ AssignmentsRecorded
    /\ OpenRoundIsCurrent
    /\ NoRepeatsInRoom
    /\ UsedIsDealt

LEMMA IdleIsCall == Idle \in Call /\ Idle.pc = "idle" /\ Idle.round = None /\ Idle.room = None
  BY DEF Idle, Call

-----------------------------------------------------------------------------
LEMMA InitInv == Init => IInv
<1> SUFFICES ASSUME Init PROVE IInv
  OBVIOUS
<1>1. TypeOK
  BY IdleIsCall DEF Init, TypeOK
<1>2. \A w \in Workers : call[w] = Idle
  BY DEF Init
<1>3. CallKnows /\ DistinctRounds
  BY <1>2, IdleIsCall DEF CallKnows, DistinctRounds, Starting
<1>4. LocksExclude
  BY <1>2, IdleIsCall DEF LocksExclude, Holders, LockedBy
<1>5. AssignmentsRecorded /\ NoRepeatsInRoom /\ UsedIsDealt
  BY DEF Init, AssignmentsRecorded, NoRepeatsInRoom, UsedIsDealt
<1>6. OpenRoundIsCurrent
  BY NoneAssumption DEF Init, OpenRoundIsCurrent
<1> QED
  BY <1>1, <1>3, <1>4, <1>5, <1>6 DEF IInv

\* The parts of the invariant that speak of the tables only.
TablesOK == AssignmentsRecorded /\ OpenRoundIsCurrent /\ NoRepeatsInRoom /\ UsedIsDealt

LEMMA TablesKept == TablesOK /\ UNCHANGED tables => TablesOK'
  BY DEF TablesOK, tables, AssignmentsRecorded, OpenRoundIsCurrent, NoRepeatsInRoom, UsedIsDealt

\* Nobody takes a lock in a step after which every call is as it was or holds none.
LEMMA LocksGivenUp ==
    ASSUME LocksExclude, importing' = importing,
           \A w \in Workers : call'[w] = call[w] \/ call'[w].pc \in {"idle", "start", "end"}
    PROVE  LocksExclude'
<1>1. \A w \in Workers : LockedBy(w)' = LockedBy(w) \/ LockedBy(w)' = {}
  BY DEF LockedBy
<1>2. \A r \in Rooms : Holders(r)' \subseteq Holders(r)
  BY DEF Holders
<1> QED
  BY <1>1, <1>2 DEF LocksExclude

\* A call that returns gives up its locks and leaves the tables as they are.
LEMMA ReturnInv == ASSUME IInv, NEW w \in Workers, Return(w) PROVE IInv'
<1>1. call' = [call EXCEPT ![w] = Idle] /\ UNCHANGED tables
  BY DEF Return
<1>2. TypeOK'
  BY <1>1, IdleIsCall DEF IInv, TypeOK, tables
<1>3. call'[w] = Idle /\ \A v \in Workers \ {w} : call'[v] = call[v]
  BY <1>1 DEF IInv, TypeOK
<1>4. CallKnows'
  BY <1>1, <1>3, IdleIsCall DEF IInv, CallKnows, Starting, tables
<1>5. DistinctRounds'
  BY <1>3, IdleIsCall DEF IInv, DistinctRounds, Starting
<1>6. LocksExclude'
  BY <1>1, <1>3, IdleIsCall, LocksGivenUp DEF IInv, tables
<1>7. TablesOK'
  BY <1>1, TablesKept DEF IInv, TablesOK
<1> QED
  BY <1>2, <1>4, <1>5, <1>6, <1>7 DEF IInv, TablesOK

-----------------------------------------------------------------------------
(* One lemma per action *)

LEMMA SelectPacksInv ==
  ASSUME IInv, NEW r \in Rooms, NEW packs \in Selections, SelectPacks(r, packs)
  PROVE  IInv'
<1>1. TypeOK'
  BY SelectionsAssumption DEF IInv, TypeOK, SelectPacks
<1>2. CallKnows' /\ DistinctRounds' /\ LocksExclude'
  BY DEF IInv, SelectPacks, CallKnows, DistinctRounds, LocksExclude, Starting, Holders, LockedBy
<1>3. TablesOK'
  BY DEF IInv, SelectPacks, TablesOK, AssignmentsRecorded, OpenRoundIsCurrent,
         NoRepeatsInRoom, UsedIsDealt
<1> QED
  BY <1>1, <1>2, <1>3 DEF IInv, TablesOK

\* The new call holds no lock; its round id is fresh, hence unlike every other's.
LEMMA StartRoundInv ==
  ASSUME IInv, NEW w \in Workers, NEW r \in Rooms, NEW players \in SUBSET Users,
         StartRound(w, r, players)
  PROVE  IInv'
<1>1. PICK id \in RoundIds :
        /\ IsFresh(id)
        /\ call' = [call EXCEPT ![w] =
             [pc |-> "start", room |-> r, players |-> players,
              packs |-> selection[r], round |-> id, picked |-> {}]]
  BY DEF StartRound
<1> DEFINE new == [pc |-> "start", room |-> r, players |-> players,
                   packs |-> selection[r], round |-> id, picked |-> {}]
<1>2. call' = [call EXCEPT ![w] = new]
  BY <1>1
<1>3. new \in Call
  BY DEF IInv, TypeOK, Call
<1>4. UNCHANGED tables /\ players # {}
  BY DEF StartRound
<1>5. call'[w] = new /\ \A v \in Workers \ {w} : call'[v] = call[v]
  BY <1>2 DEF IInv, TypeOK
<1>6. TypeOK'
  BY <1>2, <1>3, <1>4 DEF IInv, TypeOK, tables
<1>7. roundRoom[id] = None /\ \A v \in Workers : call[v].round # id
  BY <1>1 DEF IsFresh
<1>8. CallKnows'
  BY <1>4, <1>5, <1>7 DEF IInv, CallKnows, Starting, tables
<1>9. DistinctRounds'
  BY <1>5, <1>7 DEF IInv, DistinctRounds, Starting
<1>10. LocksExclude'
  BY <1>4, <1>5, LocksGivenUp DEF IInv, tables
<1>11. TablesOK'
  BY <1>4, TablesKept DEF IInv, TablesOK
<1> QED
  BY <1>6, <1>8, <1>9, <1>10, <1>11 DEF IInv, TablesOK

\* The row is taken when nobody holds it, and is seen to name no round.
LEMMA LockToStartInv == ASSUME IInv, NEW w \in Workers, LockToStart(w) PROVE IInv'
<1> DEFINE new == [call[w] EXCEPT !.pc = "locked"]
<1>1. call' = [call EXCEPT ![w] = new] /\ UNCHANGED tables
  BY DEF LockToStart
<1>2. call[w] \in Call /\ call[w].pc = "start" /\ call[w].room \in Rooms
  BY DEF IInv, TypeOK, CallKnows, LockToStart
<1>3. new \in Call /\ new.pc = "locked" /\ new.room = call[w].room
                   /\ new.round = call[w].round /\ new.picked = call[w].picked
                   /\ new.players = call[w].players
  BY <1>2 DEF Call
<1>4. call'[w] = new /\ \A v \in Workers \ {w} : call'[v] = call[v]
  BY <1>1 DEF IInv, TypeOK
<1>5. TypeOK'
  BY <1>1, <1>3 DEF IInv, TypeOK, tables
<1> HIDE DEF new
<1>6. CallKnows'
  BY <1>1, <1>2, <1>3, <1>4 DEF IInv, CallKnows, Starting, tables, LockToStart
<1>7. DistinctRounds'
  BY <1>2, <1>3, <1>4 DEF IInv, DistinctRounds, Starting
<1>8. LocksExclude'
  <2>1. \A v \in Workers \ {w} :
          ~(call[v].room = call[w].room /\ call[v].pc \in {"locked", "picked", "ending"})
    BY DEF LockToStart, Holders
  <2>2. \A r \in Rooms : \A u, v \in Holders(r)' : u = v
    BY <1>3, <1>4, <2>1 DEF IInv, LocksExclude, Holders
  <2>3. \A u \in Workers : LockedBy(u)' = LockedBy(u)
    BY <1>2, <1>3, <1>4 DEF LockedBy
  <2> QED
    BY <1>1, <2>2, <2>3 DEF IInv, LocksExclude, tables
<1>9. TablesOK'
  BY <1>1, TablesKept DEF IInv, TablesOK
<1> QED
  BY <1>5, <1>6, <1>7, <1>8, <1>9 DEF IInv, TablesOK

\* Only rows no other transaction has locked, and the room has not used, are taken.
LEMMA PickCharactersInv == ASSUME IInv, NEW w \in Workers, PickCharacters(w) PROVE IInv'
<1>1. PICK picked \in SUBSET Pickable(w) :
        call' = [call EXCEPT ![w].pc = "picked", ![w].picked = picked]
  BY DEF PickCharacters
<1> DEFINE new == [call[w] EXCEPT !.pc = "picked", !.picked = picked]
<1>2. call' = [call EXCEPT ![w] = new] /\ UNCHANGED tables
  BY <1>1 DEF PickCharacters, IInv, TypeOK
<1>3. call[w] \in Call /\ call[w].pc = "locked" /\ call[w].room \in Rooms
  BY DEF IInv, TypeOK, CallKnows, PickCharacters
<1>4. /\ picked \in SUBSET Characters
      /\ picked \intersect used[call[w].room] = {}
      /\ \A v \in Workers \ {w} : picked \intersect LockedBy(v) = {}
      /\ picked \intersect importing = {}
  BY DEF Pickable, Unused
<1>5. new \in Call /\ new.pc = "picked" /\ new.room = call[w].room
                   /\ new.round = call[w].round /\ new.picked = picked
                   /\ new.players = call[w].players
  BY <1>3, <1>4 DEF Call
<1>6. call'[w] = new /\ \A v \in Workers \ {w} : call'[v] = call[v]
  BY <1>2 DEF IInv, TypeOK
<1>7. TypeOK'
  BY <1>2, <1>5 DEF IInv, TypeOK, tables
<1> HIDE DEF new
<1>8. CallKnows'
  BY <1>2, <1>3, <1>4, <1>5, <1>6 DEF IInv, CallKnows, Starting, tables
<1>9. DistinctRounds'
  BY <1>3, <1>5, <1>6 DEF IInv, DistinctRounds, Starting
<1>10. LocksExclude'
  <2>1. \A r \in Rooms : Holders(r)' = Holders(r)
    BY <1>3, <1>5, <1>6 DEF Holders
  <2>2. LockedBy(w)' = picked /\ \A v \in Workers \ {w} : LockedBy(v)' = LockedBy(v)
    BY <1>5, <1>6 DEF LockedBy
  <2>3. \A u, v \in Workers : u # v => LockedBy(u)' \intersect LockedBy(v)' = {}
    BY <1>4, <2>2 DEF IInv, LocksExclude
  <2>4. \A u \in Workers : LockedBy(u)' \intersect importing' = {}
    BY <1>2, <1>4, <2>2 DEF IInv, LocksExclude, tables
  <2> QED
    BY <2>1, <2>3, <2>4 DEF IInv, LocksExclude
<1>11. TablesOK'
  BY <1>2, TablesKept DEF IInv, TablesOK
<1> QED
  BY <1>7, <1>8, <1>9, <1>10, <1>11 DEF IInv, TablesOK

LEMMA EndRoundInv ==
  ASSUME IInv, NEW w \in Workers, NEW r \in Rooms, EndRound(w, r)
  PROVE  IInv'
<1> DEFINE new == [pc |-> "end", room |-> r, players |-> {}, packs |-> {},
                   round |-> None, picked |-> {}]
<1>1. call' = [call EXCEPT ![w] = new] /\ UNCHANGED tables
  BY DEF EndRound
<1>2. new \in Call
  BY DEF Call
<1>3. call'[w] = new /\ \A v \in Workers \ {w} : call'[v] = call[v]
  BY <1>1 DEF IInv, TypeOK
<1>4. TypeOK'
  BY <1>1, <1>2 DEF IInv, TypeOK, tables
<1>5. CallKnows'
  BY <1>1, <1>3 DEF IInv, CallKnows, Starting, tables
<1>6. DistinctRounds'
  BY <1>3 DEF IInv, DistinctRounds, Starting
<1>7. LocksExclude'
  BY <1>1, <1>3, LocksGivenUp DEF IInv, tables
<1>8. TablesOK'
  BY <1>1, TablesKept DEF IInv, TablesOK
<1> QED
  BY <1>4, <1>5, <1>6, <1>7, <1>8 DEF IInv, TablesOK

LEMMA LockToEndInv == ASSUME IInv, NEW w \in Workers, LockToEnd(w) PROVE IInv'
<1> DEFINE new == [call[w] EXCEPT !.pc = "ending", !.round = current[call[w].room]]
<1>1. call' = [call EXCEPT ![w] = new] /\ UNCHANGED tables
  BY DEF LockToEnd, IInv, TypeOK
<1>2. /\ call[w] \in Call /\ call[w].pc = "end" /\ call[w].room \in Rooms
      /\ current[call[w].room] \in RoundIds
  BY DEF IInv, TypeOK, CallKnows, LockToEnd
<1>3. new \in Call /\ new.pc = "ending" /\ new.room = call[w].room
                   /\ new.round = current[call[w].room] /\ new.picked = call[w].picked
  BY <1>2 DEF Call
<1>4. call'[w] = new /\ \A v \in Workers \ {w} : call'[v] = call[v]
  BY <1>1 DEF IInv, TypeOK
<1>5. TypeOK'
  BY <1>1, <1>3 DEF IInv, TypeOK, tables
<1> HIDE DEF new
<1>6. CallKnows'
  BY <1>1, <1>2, <1>3, <1>4 DEF IInv, CallKnows, Starting, tables
<1>7. DistinctRounds'
  BY <1>3, <1>4 DEF IInv, DistinctRounds, Starting
<1>8. LocksExclude'
  <2>1. \A v \in Workers \ {w} :
          ~(call[v].room = call[w].room /\ call[v].pc \in {"locked", "picked", "ending"})
    BY DEF LockToEnd, Holders
  <2>2. \A r \in Rooms : \A u, v \in Holders(r)' : u = v
    BY <1>3, <1>4, <2>1 DEF IInv, LocksExclude, Holders
  <2>3. \A u \in Workers : LockedBy(u)' = LockedBy(u)
    BY <1>2, <1>3, <1>4 DEF LockedBy
  <2> QED
    BY <1>1, <2>2, <2>3 DEF IInv, LocksExclude, tables
<1>9. TablesOK'
  BY <1>1, TablesKept DEF IInv, TablesOK
<1> QED
  BY <1>5, <1>6, <1>7, <1>8, <1>9 DEF IInv, TablesOK

\* Closing writes two tables.  The lock makes the round read the one still open.
LEMMA CommitEndInv == ASSUME IInv, NEW w \in Workers, CommitEnd(w) PROVE IInv'
<1> DEFINE r == call[w].room
           id == call[w].round
<1>1. /\ call[w].pc = "ending" /\ r \in Rooms /\ id \in RoundIds /\ current[r] = id
      /\ ended' = ended \union {id}
      /\ current' = [current EXCEPT ![r] = None]
      /\ call' = [call EXCEPT ![w] = Idle]
      /\ UNCHANGED <<selection, roundRoom, assignments, used, importing>>
  BY DEF IInv, CallKnows, CommitEnd
<1>2. TypeOK'
  BY <1>1, IdleIsCall DEF IInv, TypeOK
<1>3. call'[w] = Idle /\ \A v \in Workers \ {w} : call'[v] = call[v]
  BY <1>1 DEF IInv, TypeOK
<1>4. /\ current'[r] = None
      /\ \A q \in Rooms \ {r} : current'[q] = current[q]
  BY <1>1 DEF IInv, TypeOK
<1>5. roundRoom[id] = r
  BY <1>1 DEF IInv, OpenRoundIsCurrent
<1>6. \A v \in Workers \ {w} : call[v].pc = "ending" => call[v].room # r
  BY <1>1 DEF IInv, LocksExclude, Holders
<1>7. CallKnows'
  BY <1>1, <1>3, <1>4, <1>6, IdleIsCall DEF IInv, CallKnows, Starting
<1>8. DistinctRounds'
  BY <1>3, IdleIsCall DEF IInv, DistinctRounds, Starting
<1>9. LocksExclude'
  BY <1>1, <1>3, IdleIsCall, LocksGivenUp DEF IInv
<1>10. OpenRoundIsCurrent'
  BY <1>1, <1>4, <1>5, NoneAssumption DEF IInv, OpenRoundIsCurrent
<1>11. AssignmentsRecorded' /\ NoRepeatsInRoom' /\ UsedIsDealt'
  BY <1>1 DEF IInv, AssignmentsRecorded, NoRepeatsInRoom, UsedIsDealt
<1> QED
  BY <1>2, <1>7, <1>8, <1>9, <1>10, <1>11 DEF IInv

\* What the rows of a new round are: one per player, on distinct picked characters.
LEMMA NewRows ==
  ASSUME NEW id, NEW players, NEW picked, NEW deal \in Bijection(players, picked)
  PROVE  /\ \A a \in Rows(id, deal) :
              /\ a.round = id /\ a.user \in players /\ a.character \in picked
              /\ a = [round |-> a.round, user |-> a.user, character |-> a.character]
         /\ \A a, b \in Rows(id, deal) : a.character = b.character => a = b
         /\ {a.character : a \in Rows(id, deal)} = picked
<1> DEFINE N == {[round |-> id, user |-> u, character |-> deal[u]] : u \in players}
<1>1. /\ deal \in [players -> picked]
      /\ \A u, v \in players : deal[u] = deal[v] => u = v
      /\ \A c \in picked : \E u \in players : deal[u] = c
  BY DEF Bijection, Injection, Surjection, IsInjective
<1>2. Rows(id, deal) = N
  BY <1>1 DEF Rows
<1>3. \A a \in N : \E u \in players :
         a = [round |-> id, user |-> u, character |-> deal[u]]
  OBVIOUS
<1>4. \A u \in players : [round |-> id, user |-> u, character |-> deal[u]] \in N
  OBVIOUS
<1>5. \A a \in N : /\ a.round = id /\ a.user \in players /\ a.character \in picked
                   /\ a.character = deal[a.user]
                   /\ a = [round |-> a.round, user |-> a.user, character |-> a.character]
  BY <1>1, <1>3
<1>6. \A a, b \in N : a.character = b.character => a = b
  BY <1>1, <1>3
<1>7. \A c \in picked : \E a \in N : a.character = c
  BY <1>1, <1>4
<1> QED
  BY <1>2, <1>5, <1>6, <1>7

\* The commit is the one step that writes assignments.  The room's row lock has kept
\* the room without a round and its used characters out of the picks.
LEMMA CommitStartInv == ASSUME IInv, NEW w \in Workers, CommitStart(w) PROVE IInv'
<1> DEFINE r == call[w].room
           id == call[w].round
           picked == call[w].picked
           players == call[w].players
<1>1. PICK deal \in Bijection(players, picked) :
        assignments' = assignments \union Rows(id, deal)
  BY DEF CommitStart
<1> DEFINE N == Rows(id, deal)
<1>2. /\ call[w].pc = "picked" /\ call[w] \in Call /\ r \in Rooms /\ id \in RoundIds
      /\ picked \in SUBSET Characters /\ players \in SUBSET Users
      /\ roundRoom[id] = None /\ current[r] = None
      /\ picked \intersect used[r] = {}
  BY DEF IInv, TypeOK, Call, CallKnows, Starting, CommitStart
<1>3. /\ assignments' = assignments \union N
      /\ used' = [used EXCEPT ![r] = @ \union picked]
      /\ roundRoom' = [roundRoom EXCEPT ![id] = r]
      /\ current' = [current EXCEPT ![r] = id]
      /\ call' = [call EXCEPT ![w] = Idle]
      /\ selection' = selection /\ ended' = ended /\ importing' = importing
  BY <1>1 DEF CommitStart
<1>4. /\ \A a \in N : /\ a.round = id /\ a.user \in players /\ a.character \in picked
                      /\ a = [round |-> a.round, user |-> a.user, character |-> a.character]
      /\ \A a, b \in N : a.character = b.character => a = b
      /\ {a.character : a \in N} = picked
  BY NewRows
<1> HIDE DEF N
<1>5. TypeOK'
  <2>1. N \subseteq Assignment
    BY <1>2, <1>4 DEF Assignment
  <2> QED
    BY <1>2, <1>3, <2>1, IdleIsCall DEF IInv, TypeOK
<1>6. call'[w] = Idle /\ \A v \in Workers \ {w} : call'[v] = call[v]
  BY <1>3 DEF IInv, TypeOK
<1>7. /\ roundRoom'[id] = r /\ \A i \in RoundIds \ {id} : roundRoom'[i] = roundRoom[i]
      /\ current'[r] = id /\ \A q \in Rooms \ {r} : current'[q] = current[q]
      /\ used'[r] = used[r] \union picked /\ \A q \in Rooms \ {r} : used'[q] = used[q]
  BY <1>2, <1>3 DEF IInv, TypeOK
<1>8. \A v \in Workers \ {w} :
        /\ Starting(v) => call[v].round # id
        /\ call[v].pc \in {"locked", "picked", "ending"} => call[v].room # r
  BY <1>2 DEF IInv, DistinctRounds, Starting, LocksExclude, Holders
<1>9. CallKnows'
  BY <1>6, <1>7, <1>8, IdleIsCall DEF IInv, CallKnows, Starting
<1>10. DistinctRounds'
  BY <1>6, IdleIsCall DEF IInv, DistinctRounds, Starting
<1>11. LocksExclude'
  BY <1>3, <1>6, IdleIsCall, LocksGivenUp DEF IInv
<1>12. \A a \in assignments : a.round \in RoundIds \ {id} /\ roundRoom'[a.round] = roundRoom[a.round]
  BY <1>2, <1>7 DEF IInv, TypeOK, Assignment, AssignmentsRecorded
<1>13. r # None
  BY <1>2, NoneAssumption
<1>14. AssignmentsRecorded'
  BY <1>3, <1>4, <1>7, <1>12, <1>13 DEF IInv, AssignmentsRecorded
<1>15. OpenRoundIsCurrent'
  <2>1. id \notin ended
    BY <1>2 DEF IInv, OpenRoundIsCurrent
  <2>2. \A i \in RoundIds, q \in Rooms : roundRoom[i] = q => i # id
    BY <1>2, NoneAssumption
  <2>3. \A q \in Rooms : current[q] # id
    BY <1>2, NoneAssumption DEF IInv, OpenRoundIsCurrent
  <2>4. \A i \in RoundIds \ {id}, q \in Rooms :
          (roundRoom'[i] = q /\ i \notin ended') <=> current'[q] = i
    <3>1. \A i \in RoundIds \ {id} : ~(roundRoom[i] = r /\ i \notin ended)
      BY <1>2, NoneAssumption DEF IInv, OpenRoundIsCurrent
    <3> QED
      BY <1>3, <1>7, <3>1 DEF IInv, OpenRoundIsCurrent
  <2>5. \A q \in Rooms : (roundRoom'[id] = q /\ id \notin ended') <=> current'[q] = id
    BY <1>3, <1>7, <2>1, <2>3
  <2>6. \A i \in ended' : roundRoom'[i] # None
    BY <1>3, <1>7, <1>13 DEF IInv, OpenRoundIsCurrent, TypeOK
  <2> QED
    BY <2>4, <2>5, <2>6 DEF OpenRoundIsCurrent
<1>16. used[r] = {a.character : a \in {b \in assignments : roundRoom[b.round] = r}}
  BY <1>2 DEF IInv, UsedIsDealt
<1>17. NoRepeatsInRoom'
  <2>1. ASSUME NEW a \in assignments, NEW b \in N, roundRoom'[a.round] = roundRoom'[b.round]
        PROVE  a.character # b.character
    <3>1. roundRoom[a.round] = r
      BY <1>4, <1>7, <1>12, <2>1
    <3>2. a.character \in used[r]
      BY <1>16, <3>1
    <3> QED
      BY <1>2, <1>4, <3>2
  <2>2. ASSUME NEW a \in assignments', NEW b \in assignments',
               roundRoom'[a.round] = roundRoom'[b.round], a.character = b.character
        PROVE  a = b
    <3>1. CASE a \in N /\ b \in N
      BY <1>4, <2>2, <3>1
    <3>2. CASE a \in assignments /\ b \in assignments
      BY <1>12, <2>2, <3>2 DEF IInv, NoRepeatsInRoom
    <3>3. CASE (a \in assignments /\ b \in N) \/ (a \in N /\ b \in assignments)
      BY <2>1, <2>2, <3>3
    <3> QED
      BY <1>3, <3>1, <3>2, <3>3
  <2> QED
    BY <2>2 DEF NoRepeatsInRoom
<1>18. UsedIsDealt'
  <2>1. {b \in assignments' : roundRoom'[b.round] = r}
          = {b \in assignments : roundRoom[b.round] = r} \union N
    BY <1>3, <1>4, <1>7, <1>12
  <2>2. used'[r] = {a.character : a \in {b \in assignments' : roundRoom'[b.round] = r}}
    BY <1>4, <1>7, <1>16, <2>1
  <2>3. ASSUME NEW q \in Rooms \ {r}
        PROVE  used'[q] = {a.character : a \in {b \in assignments' : roundRoom'[b.round] = q}}
    <3>1. {b \in assignments' : roundRoom'[b.round] = q} = {b \in assignments : roundRoom[b.round] = q}
      BY <1>3, <1>4, <1>7, <1>12
    <3> QED
      BY <1>7, <3>1 DEF IInv, UsedIsDealt
  <2> QED
    BY <2>2, <2>3 DEF UsedIsDealt
<1> QED
  BY <1>5, <1>9, <1>10, <1>11, <1>14, <1>15, <1>17, <1>18 DEF IInv

\* The importer locks rows no start has picked, and waits for the others.
LEMMA ImportInv ==
  ASSUME IInv, NEW c \in Characters, ImportCharacter(c) \/ ImportDone(c)
  PROVE  IInv'
<1>1. UNCHANGED <<selection, current, roundRoom, ended, assignments, used, call>>
  BY DEF ImportCharacter, ImportDone
<1>2. /\ importing' \in SUBSET Characters
      /\ \A w \in Workers : LockedBy(w) \intersect importing' = {}
  BY DEF IInv, TypeOK, LocksExclude, ImportCharacter, ImportDone
<1>3. TypeOK'
  BY <1>1, <1>2 DEF IInv, TypeOK
<1>4. CallKnows' /\ DistinctRounds'
  BY <1>1 DEF IInv, CallKnows, DistinctRounds, Starting
<1>5. LocksExclude'
  BY <1>1, <1>2 DEF IInv, LocksExclude, Holders, LockedBy
<1>6. TablesOK'
  BY <1>1 DEF IInv, TablesOK, AssignmentsRecorded, OpenRoundIsCurrent, NoRepeatsInRoom, UsedIsDealt
<1> QED
  BY <1>3, <1>4, <1>5, <1>6 DEF IInv, TablesOK

-----------------------------------------------------------------------------
LEMMA StutterInv == IInv /\ UNCHANGED vars => IInv'
  BY DEF IInv, vars, TypeOK, CallKnows, DistinctRounds, Starting, LocksExclude, Holders,
         LockedBy, AssignmentsRecorded, OpenRoundIsCurrent, NoRepeatsInRoom, UsedIsDealt

LEMMA NextInv == IInv /\ [Next]_vars => IInv'
<1> SUFFICES ASSUME IInv, [Next]_vars PROVE IInv'
  OBVIOUS
<1>1. CASE \E r \in Rooms, packs \in Selections : SelectPacks(r, packs)
  BY <1>1, SelectPacksInv
<1>2. ASSUME NEW w \in Workers, NEW r \in Rooms, NEW players \in SUBSET Users,
             StartRound(w, r, players)
      PROVE  IInv'
  BY <1>2, StartRoundInv
<1>3. ASSUME NEW w \in Workers, NEW r \in Rooms, EndRound(w, r) PROVE IInv'
  BY <1>3, EndRoundInv
<1>4. ASSUME NEW w \in Workers, Step(w) PROVE IInv'
  <2>1. CASE LockToStart(w)    BY <2>1, LockToStartInv
  <2>2. CASE AlreadyActive(w)  BY <2>2, ReturnInv DEF AlreadyActive
  <2>3. CASE PickCharacters(w) BY <2>3, PickCharactersInv
  <2>4. CASE NotEnough(w)      BY <2>4, ReturnInv DEF NotEnough
  <2>5. CASE CommitStart(w)    BY <2>5, CommitStartInv
  <2>6. CASE LockToEnd(w)      BY <2>6, LockToEndInv
  <2>7. CASE NothingToEnd(w)   BY <2>7, ReturnInv DEF NothingToEnd
  <2>8. CASE CommitEnd(w)      BY <2>8, CommitEndInv
  <2> QED
    BY <1>4, <2>1, <2>2, <2>3, <2>4, <2>5, <2>6, <2>7, <2>8 DEF Step
<1>5. ASSUME NEW w \in Workers, Abort(w) PROVE IInv'
  BY <1>5, ReturnInv DEF Abort
<1>6. CASE UNCHANGED vars
  BY <1>6, StutterInv
<1>7. CASE \E c \in Characters : ImportCharacter(c) \/ ImportDone(c)
  BY <1>7, ImportInv
<1> QED
  BY <1>1, <1>2, <1>3, <1>4, <1>5, <1>6, <1>7 DEF Next

\* The inductive invariant holds in every reachable state.
THEOREM Invariance == Spec => []IInv
  BY InitInv, NextInv, PTL DEF Spec

\* Every variable of the store keeps its type.
THEOREM TypeCorrect == Spec => []TypeOK
<1>1. IInv => TypeOK
  BY DEF IInv
<1> QED
  BY <1>1, Invariance, PTL

\* However many handlers and rooms, a room's row and a character have one holder, the
\* importer counted among them (ws_game_store.go:88, :125, :199).
THEOREM Exclusion == Spec => []LocksExclude
<1>1. IInv => LocksExclude
  BY DEF IInv
<1> QED
  BY <1>1, Invariance, PTL

\* A room has at most one open round, and it is the one current_round_id names.
THEOREM OneOpenRound == Spec => []OpenRoundIsCurrent
<1>1. IInv => OpenRoundIsCurrent
  BY DEF IInv
<1> QED
  BY <1>1, Invariance, PTL

\* No character is dealt twice in a room, over all its rounds.
THEOREM NoRepeats == Spec => []NoRepeatsInRoom
<1>1. IInv => NoRepeatsInRoom
  BY DEF IInv
<1> QED
  BY <1>1, Invariance, PTL

\* A character is burnt for a room exactly when one of its rounds dealt it.
THEOREM NothingBurnt == Spec => []UsedIsDealt
<1>1. IInv => UsedIsDealt
  BY DEF IInv
<1> QED
  BY <1>1, Invariance, PTL

-----------------------------------------------------------------------------
(* Steps: history, and the ledger *)

\* The only steps that write rounds, assignments or current_round_id are the commits.
LEMMA OtherStepsKeepTables ==
  ASSUME Next, ~(\E w \in Workers : CommitStart(w) \/ CommitEnd(w))
  PROVE  UNCHANGED <<current, roundRoom, ended, assignments, used>>
<1>1. CASE \E r \in Rooms, packs \in Selections : SelectPacks(r, packs)
  BY <1>1 DEF SelectPacks
<1>2. CASE \E w \in Workers, r \in Rooms :
             EndRound(w, r) \/ \E players \in SUBSET Users : StartRound(w, r, players)
  BY <1>2 DEF EndRound, StartRound, tables
<1>3. CASE \E w \in Workers : Step(w) \/ Abort(w)
  BY <1>3 DEF Step, Abort, LockToStart, AlreadyActive, PickCharacters, NotEnough,
              LockToEnd, NothingToEnd, Return, tables
<1>4. CASE \E c \in Characters : ImportCharacter(c) \/ ImportDone(c)
  BY <1>4 DEF ImportCharacter, ImportDone
<1> QED
  BY <1>1, <1>2, <1>3, <1>4 DEF Next

LEMMA HistoryStep == IInv /\ [Next]_vars => [HistoryKept]_vars
<1> SUFFICES ASSUME IInv, Next PROVE HistoryKept
  BY DEF vars
<1>1. ASSUME NEW w \in Workers, CommitStart(w) PROVE HistoryKept
  <2>1. /\ call[w].round \in RoundIds /\ roundRoom[call[w].round] = None
        /\ call[w].room \in Rooms /\ current[call[w].room] = None
    BY <1>1 DEF IInv, CallKnows, Starting, CommitStart
  <2>2. PICK deal \in Bijection(call[w].players, call[w].picked) :
          assignments' = assignments \union Rows(call[w].round, deal)
    BY <1>1 DEF CommitStart
  <2>3. \A a \in Rows(call[w].round, deal) : a.round = call[w].round
    BY NewRows
  <2>4. /\ roundRoom' = [roundRoom EXCEPT ![call[w].round] = call[w].room]
        /\ current' = [current EXCEPT ![call[w].room] = call[w].round]
        /\ ended' = ended
    BY <1>1 DEF CommitStart
  <2> QED
    BY <2>1, <2>2, <2>3, <2>4 DEF HistoryKept, IInv, TypeOK
<1>2. ASSUME NEW w \in Workers, CommitEnd(w) PROVE HistoryKept
  BY <1>2 DEF HistoryKept, CommitEnd, IInv, TypeOK, CallKnows
<1>3. CASE ~(\E w \in Workers : CommitStart(w) \/ CommitEnd(w))
  BY <1>3, OtherStepsKeepTables DEF HistoryKept
<1> QED
  BY <1>1, <1>2, <1>3

\* No step of any number of handlers rewrites a round, a card or an end.
THEOREM History == Spec => HistoryIsFinal
  BY Invariance, HistoryStep, PTL DEF Spec, HistoryIsFinal

LEMMA NotEnoughStep ==
  ASSUME IInv, NEW w \in Workers, NotEnough(w)
  PROVE  \/ Cardinality(Unused(w)) < Cardinality(call[w].players)
         \/ \E v \in Workers :
               call[v].room # call[w].room /\ LockedBy(v) \intersect Unused(w) # {}
         \/ importing \intersect Unused(w) # {}
<1> SUFFICES ASSUME \A v \in Workers :
                        call[v].room # call[w].room => LockedBy(v) \intersect Unused(w) = {},
                    importing \intersect Unused(w) = {}
             PROVE  Cardinality(Unused(w)) < Cardinality(call[w].players)
  OBVIOUS
<1>1. call[w].pc = "locked" /\ Cardinality(Pickable(w)) < Cardinality(call[w].players)
  BY DEF NotEnough
<1>2. call[w].room \in Rooms /\ \A r \in Rooms : \A v, x \in Holders(r) : v = x
  BY <1>1 DEF IInv, CallKnows, LocksExclude
<1>3. \A v \in Workers \ {w} : call[v].room = call[w].room => LockedBy(v) = {}
  BY <1>1, <1>2 DEF Holders, LockedBy
<1>4. Pickable(w) = Unused(w)
  BY <1>3 DEF Pickable
<1> QED
  BY <1>1, <1>4

\* However many starts there are, only those of other rooms, or the importer, can make one
\* come up short (ws_game_store.go:14, :125).
THEOREM NotOwn == Spec => NotEnoughIsNotOwn
<1>1. IInv /\ [Next]_vars =>
        [\A w \in Workers :
           NotEnough(w) =>
               \/ Cardinality(Unused(w)) < Cardinality(call[w].players)
               \/ \E v \in Workers :
                     call[v].room # call[w].room /\ LockedBy(v) \intersect Unused(w) # {}
               \/ importing \intersect Unused(w) # {}]_vars
  BY NotEnoughStep
<1> QED
  BY <1>1, Invariance, PTL DEF Spec, NotEnoughIsNotOwn

LEMMA LedgerInit == Init => Ledger!Init
  BY DEF Init, Ledger!Init

\* The commit of a start is the ledger's Open: used characters are the given ones.
LEMMA OpenStep ==
  ASSUME IInv, NEW w \in Workers, CommitStart(w)
  PROVE  Ledger!Next
<1> DEFINE r == call[w].room
           id == call[w].round
           players == call[w].players
           picked == call[w].picked
<1>1. /\ id \in RoundIds /\ roundRoom[id] = None /\ r \in Rooms /\ current[r] = None
      /\ picked \in SUBSET Characters /\ players \in (SUBSET Users) \ {{}}
      /\ picked \intersect used[r] = {}
  BY DEF IInv, TypeOK, Call, CallKnows, Starting, CommitStart
<1>2. PICK deal \in Bijection(players, picked) : assignments' = assignments \union Rows(id, deal)
  BY DEF CommitStart
<1>3. Ledger!Given(r) = used[r]
  BY <1>1 DEF Ledger!Given, IInv, UsedIsDealt
<1>4. deal \in Ledger!Injection(players, Characters \ Ledger!Given(r))
  <2>1. /\ deal \in [players -> picked]
        /\ \A u, v \in players : deal[u] = deal[v] => u = v
    BY DEF Bijection, Injection, Surjection, IsInjective
  <2>2. deal \in [players -> Characters \ used[r]]
    BY <1>1, <2>1
  <2> QED
    BY <1>3, <2>1, <2>2 DEF Ledger!Injection, Ledger!IsInjective
<1>5. Rows(id, deal) = Ledger!RowsOf(id, deal)
  BY DEF Rows, Ledger!RowsOf
<1>6. Ledger!Open(r, id, players)
  BY <1>1, <1>2, <1>4, <1>5 DEF Ledger!Open, CommitStart
<1> QED
  BY <1>1, <1>6 DEF Ledger!Next

LEMMA CloseStep == ASSUME IInv, NEW w \in Workers, CommitEnd(w) PROVE Ledger!Next
<1>1. /\ call[w].room \in Rooms /\ call[w].round \in RoundIds
      /\ current[call[w].room] = call[w].round
  BY DEF IInv, CallKnows, CommitEnd
<1>2. Ledger!Close(call[w].room)
  BY <1>1, NoneAssumption DEF Ledger!Close, CommitEnd
<1> QED
  BY <1>1, <1>2 DEF Ledger!Next

LEMMA LedgerStep == IInv /\ [Next]_vars => [Ledger!Next]_(Ledger!vars)
<1> SUFFICES ASSUME IInv, [Next]_vars PROVE [Ledger!Next]_(Ledger!vars)
  OBVIOUS
<1>1. CASE \E w \in Workers : CommitStart(w)
  BY <1>1, OpenStep
<1>2. CASE \E w \in Workers : CommitEnd(w)
  BY <1>2, CloseStep
<1>3. CASE Next /\ ~(\E w \in Workers : CommitStart(w) \/ CommitEnd(w))
  BY <1>3, OtherStepsKeepTables DEF Ledger!vars
<1>4. CASE UNCHANGED vars
  BY <1>4 DEF vars, Ledger!vars
<1> QED
  BY <1>1, <1>2, <1>3, <1>4

\* The transactions, their locks and their rollbacks implement the atomic ledger.
THEOREM Refinement == Spec => ImplementsLedger
<1>1. Spec => Ledger!Init /\ [][Ledger!Next]_(Ledger!vars)
  BY Invariance, LedgerInit, LedgerStep, PTL DEF Spec
<1> QED
  BY <1>1 DEF ImplementsLedger, Ledger!Spec
=============================================================================
