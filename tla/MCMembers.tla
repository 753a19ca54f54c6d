----------------------------- MODULE MCMembers -----------------------------
(* Constants of Members for TLC: each user has one socket. *)
EXTENDS Members, TLC

CONSTANTS u1, u2, s1, s2

OneSocketEach == (s1 :> u1) @@ (s2 :> u2)

\* Rooms are interchangeable.
Symmetry == Permutations(Codes)
=============================================================================
