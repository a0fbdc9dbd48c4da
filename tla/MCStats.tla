----------------------------------- MODULE MCStats -----------------------------------
(* Two rooms whose games share players. *)
EXTENDS Stats, FinishedGames

Symmetry == Permutations(Room)
=============================================================================
