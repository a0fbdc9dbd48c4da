--------------------------------- MODULE MCHands ---------------------------------
(***************************************************************************)
(* The first hand is drawn from all thirteen ranks in suits that alternate   *)
(* (every straight, no flush), eleven cards of one suit (every kind of flush *)
(* and straight flush), or three ranks in three suits and their fourth (full *)
(* houses and quads); the second from ten cards that hold each kind of       *)
(* five-card hand.                                                           *)
(***************************************************************************)
EXTENDS HandRules

AllRanks == {4 * r + (r % 2) : r \in 0 .. 12}
OneSuitRun == {4 * r + 2 : r \in {0, 1, 2, 3, 4, 7, 8, 9, 10, 11, 12}}
ThreeRanks == {0, 1, 2, 3, 16, 17, 18, 19, 48}

MCPools == {AllRanks, OneSuitRun, ThreeRanks}
MCPartners == {3, 7, 11, 15, 51, 16, 17, 18, 19, 47}
=============================================================================
