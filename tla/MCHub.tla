------------------------------- MODULE MCHub -------------------------------
(* The symmetry of Hub's constants for TLC: sockets are interchangeable, any user may   *)
(* open one.  (Users are not: one of them is the host; nor are RoomHubs, NewRoomHub     *)
(* chooses among them.)                                                                 *)
EXTENDS Hub, TLC

Symmetry == Permutations(Sockets)
=============================================================================
