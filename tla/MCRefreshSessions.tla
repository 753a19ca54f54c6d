------------------------- MODULE MCRefreshSessions -------------------------
(* Symmetry of RefreshSessions for TLC: ids are interchangeable. *)
EXTENDS RefreshSessions, TLC

Symmetry == Permutations(Tokens) \union Permutations(Users) \union Permutations(Requests)
=============================================================================
