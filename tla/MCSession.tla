--------------------------------- MODULE MCSession ---------------------------------
(* Two sessions and two requests at a time, next to the clean-up task. *)
EXTENDS Session
=============================================================================
