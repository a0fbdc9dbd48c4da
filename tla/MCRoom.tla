---------------------------------- MODULE MCRoom ----------------------------------
(***************************************************************************)
(* Room with more players than seats: three humans and two bots for four     *)
(* seats, so that a room fills up, empties, and is left to the bots.         *)
(***************************************************************************)
EXTENDS Room
=============================================================================
