--------------------------------- MODULE MCRound ---------------------------------
(***************************************************************************)
(* Round with one human among three bots, and with two humans and two bots   *)
(* seated alternately.                                                       *)
(***************************************************************************)
EXTENDS Round

OneHuman == {0}
TwoHumans == {0, 2}
=============================================================================
