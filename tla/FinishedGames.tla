-------------------------------- MODULE FinishedGames --------------------------------
(* Two ways a game may end: among humans, and with a bot.  For the MC modules. *)
EXTENDS Integers

Seats(uuids, cards) == [i \in 1 .. 4 |-> [uuid |-> uuids[i], cards |-> cards[i]]]
Moves(s) == [i \in DOMAIN s |-> [player |-> s[i][1], cards |-> s[i][2]]]

TwoOutcomes ==
    { [players |-> Seats(<<"a", "b", "c", "d">>, <<0, 10, 3, 9>>), winner |-> "a",
       moves |-> Moves(<< <<"a", 1>>, <<"b", 0>>, <<"c", 1>>, <<"d", 0>>, <<"a", 5>> >>)],
      [players |-> Seats(<<"b", "a", "c", "bot">>, <<0, 2, 11, 1>>), winner |-> "b",
       moves |-> Moves(<< <<"b", 2>>, <<"a", 2>>, <<"c", 0>>, <<"bot", 2>>, <<"b", 3>> >>)] }
=============================================================================
