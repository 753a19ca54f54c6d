------------------------------ MODULE Registry ------------------------------
(***************************************************************************)
(* What the hub promises about connections, with no handler, sweeper, lock *)
(* or socket in sight: a connection is registered once, under its user in  *)
(* its room; it leaves when another one takes its place, which closes it,  *)
(* or when it is removed; and it never comes back.  Anybody's connection   *)
(* may be removed, or be closed while it is registered, at any time.  Hub, *)
(* the goroutines that share src/internal/ws/hub.go, implements this       *)
(* specification, and GameSession runs the host's commands beside it.      *)
(***************************************************************************)
CONSTANTS Rooms, Users, Conn, None

VARIABLES
    conns,    \* the registered connection of each user in each room
    opened,   \* the connections that are or were registered
    closed    \* those that are closed

vars == <<conns, opened, closed>>

Empty == [r \in Rooms |-> [u \in Users |-> None]]

Init == conns = Empty /\ opened = {} /\ closed = {}

Register(r, u, w) ==
    /\ conns' = [conns EXCEPT ![r][u] = w]
    /\ w \notin opened
    /\ opened' = opened \union {w}
    /\ closed' = closed \union ({conns[r][u]} \ {None})

\* The connections of some users leave a room.
Remove(r, users) ==
    /\ conns' = [conns EXCEPT ![r] = [u \in Users |-> IF u \in users THEN None ELSE @[u]]]
    /\ UNCHANGED <<opened, closed>>

Close(ws) ==
    /\ closed' = closed \union ws
    /\ UNCHANGED <<conns, opened>>

\* The process dies with all its connections, those about to be registered as well.
Crash ==
    /\ conns' = Empty
    /\ opened' \in {ws \in SUBSET Conn : opened \subseteq ws}
    /\ closed' = opened'

Next ==
    \/ \E r \in Rooms :
          \/ \E users \in SUBSET Users : Remove(r, users)
          \/ \E u \in Users, w \in Conn : Register(r, u, w)
    \/ \E ws \in SUBSET opened : Close(ws)
    \/ Crash

Spec == Init /\ [][Next]_vars
=============================================================================
