---------------------------------- MODULE MCGame ----------------------------------
(***************************************************************************)
(* Games of all players with small decks.  A game is dealt evenly, as        *)
(* new_game does with 13 cards each.                                         *)
(***************************************************************************)
EXTENDS Strategy

\* Eight cards: three pairs, which can be dealt together or apart, and two
\* single cards; every deal of two each in which the third player has the three
\* of diamonds, so that the players are rotated, and the next one a two.
Deck == {0, 1, 9, 11, 16, 17, 47, 48}

TwoEach ==
    {d \in [Seat -> kSubset(2, Deck)] :
        /\ \A s, t \in Seat : s # t => d[s] \cap d[t] = {}
        /\ ThreeOfDiamonds \in d[2] /\ 48 \in d[3]}

\* Two triples, a pair and single cards.
ThreeEach ==
    (0 :> {0, 1, 2}) @@ (1 :> {8, 9, 10}) @@ (2 :> {44, 45, 17}) @@ (3 :> {48, 16, 20})

\* A full house, straight flushes and another full house.
FiveEach ==
    (0 :> {0, 1, 2, 4, 5}) @@ (1 :> {8, 12, 16, 20, 24}) @@
    (2 :> {44, 45, 48, 49, 50}) @@ (3 :> {9, 13, 17, 21, 25})

MCDeals == TwoEach \cup {ThreeEach, FiveEach}

\* Of every deal each hand, some in both orders, and lists that name one card twice or
\* are no hand at all.
Singles == Deck \cup {2, 4, 5, 8, 10, 12, 13, 20, 21, 24, 25, 44, 45, 49, 50}
MCMoves ==
    {<<c>> : c \in Singles}
    \cup {<<0, 1>>, <<1, 0>>, <<0, 0>>, <<0, 9>>, <<9, 11>>, <<9, 9>>, <<16, 17>>,
          <<17, 16>>, <<47, 48>>, <<48, 48>>, <<0, 2>>, <<1, 2>>, <<0, 1, 2>>, <<4, 5>>, <<0, 1, 2, 4, 5>>,
          <<8, 9>>, <<8, 10>>, <<9, 10>>, <<8, 9, 10>>, <<8, 12, 16, 20, 24>>,
          <<9, 13, 17, 21, 25>>, <<44, 45>>, <<48, 49>>, <<48, 50>>, <<49, 50>>,
          <<48, 49, 50>>, <<44, 45, 48, 49, 50>>}

\* Bound: in the game with five cards each the others are bots, else nobody is.
MCInit == TableInit /\ bots = IF Cardinality(hand[0]) = 5 THEN Seat \ {0} ELSE {}
MCSpec == MCInit /\ [][TableNext]_tableVars /\ FairTable
=============================================================================
