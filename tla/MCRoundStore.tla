---------------------------- MODULE MCRoundStore ----------------------------
(* Values of RoundStore's constants for TLC. *)
EXTENDS RoundStore, TLC

CONSTANTS p1, p2, c1, c2

\* Two packs of one character.
PackOf2 == (c1 :> p1) @@ (c2 :> p2)

\* The first pack, or both.
OneOrBoth == {{p1}, {p1, p2}}
=============================================================================
