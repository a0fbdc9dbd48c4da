-------------------------------- MODULE TurnOrder --------------------------------
(***************************************************************************)
(* What a table of four promises its players, whatever the cards are: turns  *)
(* go round the seats, a player who passes gives way to the next, after      *)
(* three passes the table is clear and the lead returns to whoever played    *)
(* last, and the game ends, for good, on somebody's play.                    *)
(*                                                                           *)
(* Game implements this specification.                                      *)
(***************************************************************************)
EXTENDS Integers

Seat == 0 .. 3
Next4(s) == (s + 1) % 4
NoSeat == -1

VARIABLES turn,     \* the seat that is to act
          passes,   \* passes since the last play
          lead,     \* the seat of the last play, NoSeat before the first one
          over      \* whether somebody has won

vars == <<turn, passes, lead, over>>

Init == turn = 0 /\ passes = 0 /\ lead = NoSeat /\ over = FALSE

PassTurn ==
    /\ ~over /\ passes < 3
    /\ passes' = passes + 1
    /\ turn' = Next4(turn)
    /\ UNCHANGED <<lead, over>>

\* A play that leaves cards in the hand gives the turn to the next seat; the
\* play that empties the hand ends the game and keeps the turn.
Play ==
    /\ ~over
    /\ passes' = 0 /\ lead' = turn
    /\ \/ turn' = Next4(turn) /\ UNCHANGED over
       \/ over' = TRUE /\ UNCHANGED turn

Next == PassTurn \/ Play

Spec == Init /\ [][Next]_vars
=============================================================================
