------------------------------- MODULE MCCompletedGames -------------------------------
(* Results of two games in any order of completion. *)
EXTENDS CompletedGames, FinishedGames
=============================================================================
