--------------------------- MODULE MCGameSession ---------------------------
(* Values of GameSession's constants for TLC. *)
EXTENDS GameSession, TLC

CONSTANTS host, player, h1, h2, p1

\* The host reconnects once; it plays as well, so it is also a player who reconnects.
UserOf21 == (h1 :> host) @@ (h2 :> host) @@ (p1 :> player)

Symmetry == Permutations(Characters) \union Permutations(RoundIds) \union Permutations({h1, h2})
              \union Permutations(RoomHubs)
=============================================================================
