-------------------------- MODULE MCPackSelection --------------------------
(* Values of PackSelection's constants for TLC. *)
EXTENDS PackSelection, TLC

CONSTANTS f1, f2, n1, n2, n3, s1, s2, m1, c1

\* Two names that differ in an accent, and one in another script.
SlugOf5 == (f1 :> s1) @@ (f2 :> s2) @@ (n1 :> m1) @@ (n2 :> m1) @@ (n3 :> None)
NamesOf2 == (f1 :> <<n1, n2>>) @@ (f2 :> <<n3>>)
PacksOf1 == c1 :> {s2}
ListsOf == {{s1}, {s1, s2}}
Symmetry == Permutations(Requests)
=============================================================================
