----------------------------------- MODULE Game -----------------------------------
(***************************************************************************)
(* One game of Big Two (game/core.rs): four seats, a shared table and one    *)
(* entry point, play_cards, that either applies a move or rejects it and     *)
(* changes nothing.  A rejected move is a guard that fails: the repository   *)
(* drops the copy it would have stored.                                      *)
(*                                                                           *)
(* Seats are places in the code's players vector after new_game rotated it,  *)
(* so that seat 0 holds the three of diamonds.  played_hands and move_log    *)
(* only grow; the state keeps what is read back from them: whether a hand    *)
(* was ever pushed, the last one that is not a pass, who played it and which *)
(* cards each seat has put down.                                             *)
(***************************************************************************)
EXTENDS Hands

CONSTANTS Deals,    \* the deals new_game may shuffle: seat -> set of cards
          Moves     \* the non-empty card lists clients may submit

Seat == 0 .. 3

ASSUME DealsAssumption ==
    \A d \in Deals :
        /\ d \in [Seat -> SUBSET Card]
        /\ \A s, t \in Seat : s # t => d[s] \cap d[t] = {}
        /\ \A s \in Seat : d[s] # {}
        /\ \E s \in Seat : ThreeOfDiamonds \in d[s]

ASSUME MovesAssumption ==
    /\ Moves \subseteq Seq(Card) \ {<<>>}
    /\ \A d \in Deals, s \in Seat : \A c \in d[s] : <<c>> \in Moves

VARIABLES hand,                 \* players[s].cards
          current_turn,
          consecutive_passes,
          opened,               \* ~played_hands.is_empty()
          standing,             \* cards of the last non-pass hand, <<>> when none
          last_play_by_player,  \* seat -> cards, <<>> for a pass; a partial map
          leader,               \* move_log: the seat of the last Play
          played,               \* move_log: the cards each seat has played
          starting_hands

vars == <<hand, current_turn, consecutive_passes, opened, standing,
          last_play_by_player, leader, played, starting_hands>>

NoSeat == -1

NextSeat(s) == (s + 1) % 4

\* Wrong variant: an entry that is there already stays.
InsertOnce(m, k, v) ==
    [x \in DOMAIN m \cup {k} |-> IF x \in DOMAIN m THEN m[x] ELSE v]

Insert(m, k, v) == [x \in DOMAIN m \cup {k} |-> IF x = k THEN v ELSE m[x]]

IsFinished == \E s \in Seat : hand[s] = {}

\* new_game_with_cards: rotate the players until the three of diamonds is first.
Rotated(d) ==
    LET first == CHOOSE s \in Seat : ThreeOfDiamonds \in d[s]
    IN  [s \in Seat |-> d[(s + first) % 4]]

Init ==
    \E d \in Deals :
        /\ hand = Rotated(d) /\ starting_hands = hand
        /\ current_turn = 0 /\ consecutive_passes = 0
        /\ opened = FALSE /\ standing = <<>> /\ leader = NoSeat
        /\ last_play_by_player = <<>>
        /\ played = [s \in Seat |-> {}]
-----------------------------------------------------------------------------
(* Validation of a play, in the order of handle_card_play. *)

\* validate_card_play: the table is clear after three passes and before the
\* first hand.
BeatsTable(cards) ==
    \/ consecutive_passes = 3
    \/ standing = <<>>
    \/ CanBeat(FromCards(cards), FromCards(standing))

\* validate_card_ownership looks each card up on its own.
OwnsCards(s, cards) == Cards(cards) \subseteq hand[s]

\* Wrong variant: the first hand, not the first move, needs the three of diamonds.
FirstHandRule(cards) == standing # <<>> \/ ThreeOfDiamonds \in Cards(cards)

\* validate_first_turn: no hand, not even a pass, was pushed before.
FirstTurnRule(cards) == opened \/ ThreeOfDiamonds \in Cards(cards)

Accepts(s, cards) ==
    /\ FromCards(cards) # NotAHand
    /\ BeatsTable(cards)
    /\ OwnsCards(s, cards)
    /\ FirstTurnRule(cards)

-----------------------------------------------------------------------------
(* play_cards: the empty list is a pass, any other list a play. *)

\* Wrong variant: the limit of three passes is forgotten.
HandlePassUnlimited(s) ==
    /\ ~IsFinished /\ s = current_turn
    /\ consecutive_passes' = consecutive_passes + 1
    /\ opened' = TRUE
    /\ last_play_by_player' = Insert(last_play_by_player, s, <<>>)
    /\ current_turn' = NextSeat(s)
    /\ UNCHANGED <<hand, standing, leader, played, starting_hands>>

HandlePass(s) ==
    /\ ~IsFinished /\ s = current_turn
    /\ consecutive_passes < 3
    /\ consecutive_passes' = consecutive_passes + 1
    /\ opened' = TRUE
    /\ last_play_by_player' = Insert(last_play_by_player, s, <<>>)
    /\ current_turn' = NextSeat(s)
    /\ UNCHANGED <<hand, standing, leader, played, starting_hands>>

\* Wrong variant: only the first card of the list leaves the hand.
WithoutFirst(s, cards) == hand[s] \ {cards[1]}

\* Every listed card leaves the hand; a card listed twice leaves it once.
Without(s, cards) == hand[s] \ Cards(cards)

\* The last plays are those of this round: a lead after three passes clears them.
LastPlaysOfRound == IF consecutive_passes = 3 THEN <<>> ELSE last_play_by_player

\* Wrong variant: the turn advances on the winning play too.
TurnAfterAnyPlay(s, rest) == NextSeat(s)

TurnAfterPlay(s, rest) == IF rest = {} THEN s ELSE NextSeat(s)

HandleCardPlay(s, cards) ==
    /\ ~IsFinished /\ s = current_turn
    /\ Accepts(s, cards)
    /\ hand' = [hand EXCEPT ![s] = Without(s, cards)]
    /\ last_play_by_player' = Insert(LastPlaysOfRound, s, cards)
    /\ played' = [played EXCEPT ![s] = @ \cup Cards(cards)]
    /\ leader' = s /\ standing' = cards /\ opened' = TRUE
    /\ consecutive_passes' = 0
    /\ current_turn' = TurnAfterPlay(s, Without(s, cards))
    /\ UNCHANGED starting_hands

Next ==
    \E s \in Seat :
        \/ HandlePass(s)
        \/ \E cards \in Moves : HandleCardPlay(s, cards)

Spec == Init /\ [][Next]_vars

\* Wrong variant: the seat before the one to act, passes or not.
LastSeatToAct == IF standing = <<>> THEN NoSeat ELSE (current_turn + 3) % 4

\* last_non_pass_player_uuid: the index arithmetic the bots and the reconnect
\* messages read the last player from.
LastNonPassPlayer ==
    IF standing = <<>> THEN NoSeat
    ELSE (current_turn + 4 - 1 - consecutive_passes) % 4

-----------------------------------------------------------------------------
(* Properties. *)

TypeOK ==
    /\ hand \in [Seat -> SUBSET Card]
    /\ starting_hands \in [Seat -> SUBSET Card]
    /\ played \in [Seat -> SUBSET Card]
    /\ current_turn \in Seat
    /\ consecutive_passes \in 0 .. 3
    /\ opened \in BOOLEAN
    /\ standing \in Moves \cup {<<>>}
    /\ leader \in Seat \cup {NoSeat}
    /\ \E D \in SUBSET Seat : last_play_by_player \in [D -> Moves \cup {<<>>}]

\* No card is lost, copied or changes hands: each seat's starting hand is what
\* it holds plus what the log says it played, even when a client lists a card
\* twice, and no two seats ever hold or played the same card.
CardsConserved ==
    \A s \in Seat :
        /\ hand[s] \cup played[s] = starting_hands[s]
        /\ hand[s] \cap played[s] = {}
        /\ \A t \in Seat : s # t =>
              (hand[s] \cup played[s]) \cap (hand[t] \cup played[t]) = {}

\* The index arithmetic of last_non_pass_player_uuid names the seat the move
\* log names, as long as the game runs; in particular the lead returns to the
\* last player after three passes ("When all players pass, last player starts
\* new round").
LastPlayerByIndex == ~IsFinished => LastNonPassPlayer = leader

\* last_plays_by_player shows one round: the leader's entry is the hand to
\* beat, the seats that passed since show a pass, and every other hand in it
\* is one the hand to beat beats, however many plays ago it was made.
PassedSince(s) ==
    \E k \in 1 .. 3 : k <= consecutive_passes /\ s = (leader + k) % 4

LastPlaysShowTheRound ==
    standing # <<>> =>
        /\ leader \in DOMAIN last_play_by_player
        /\ last_play_by_player[leader] = standing
        /\ \A s \in DOMAIN last_play_by_player \ {leader} :
              IF PassedSince(s) THEN last_play_by_player[s] = <<>>
              ELSE last_play_by_player[s] = <<>>
                   \/ CanBeat(FromCards(standing), FromCards(last_play_by_player[s]))

\* The game ends with one winner, who made the last play and still has the
\* turn: nobody else's hand empties, and no later move is possible.
OneWinner ==
    IsFinished =>
        /\ hand[current_turn] = {} /\ leader = current_turn
        /\ \A s \in Seat \ {current_turn} : hand[s] # {}

\* While the game runs, the seat whose turn it is has a legal move: after
\* three passes, when passing is refused, some single card is accepted.  The
\* opening is where this could fail, for the fourth seat after three passes.
NobodyIsStuck ==
    ~IsFinished =>
        \/ consecutive_passes < 3
        \/ \E c \in hand[current_turn] : Accepts(current_turn, <<c>>)

\* "First move must include 3 of diamonds" (the README's special rules; the error text
\* "First turn must include the 3 of diamonds"): whoever held it no longer
\* does once a hand is on the table.
FirstHandHasThreeOfDiamonds ==
    standing # <<>> => \A s \in Seat : ThreeOfDiamonds \notin hand[s]

\* The turns of a game are those of TurnOrder, whatever the cards.
Table == INSTANCE TurnOrder WITH
            turn <- current_turn, passes <- consecutive_passes,
            lead <- leader, over <- IsFinished
TurnOrderSpec == Table!Spec
=============================================================================
