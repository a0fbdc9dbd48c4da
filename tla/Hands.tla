---------------------------------- MODULE Hands ----------------------------------
(***************************************************************************)
(* The card order and the hand rules of Big Two (game/cards/basic.rs and     *)
(* game/cards/hands.rs): which lists of cards form a hand, and which hand    *)
(* beats which.  A card is its place in the deck's order, rank first and     *)
(* suit second, so that comparing two cards is comparing two numbers.        *)
(*                                                                           *)
(* A played list is a sequence: the code takes the client's Vec<Card> as it  *)
(* comes, in any order and with repetitions.                                 *)
(***************************************************************************)
EXTENDS Integers, Sequences, FiniteSets

Card == 0 .. 51
ThreeOfDiamonds == 0

RankOf(c) == c \div 4        \* Three = 0, ..., King = 10, Ace = 11, Two = 12
SuitOf(c) == c % 4           \* Diamonds < Clubs < Hearts < Spades

Cards(cs) == {cs[i] : i \in DOMAIN cs}
Ranks(cs) == {RankOf(cs[i]) : i \in DOMAIN cs}
Suits(cs) == {SuitOf(cs[i]) : i \in DOMAIN cs}

\* The cards of S in ascending order.
Sorted(S) ==
    [i \in 1 .. Cardinality(S) |->
        CHOOSE c \in S : Cardinality({d \in S : d < c}) = i - 1]

\* The highest card of a non-empty list.
HighCard(cs) == CHOOSE c \in Cards(cs) : \A d \in Cards(cs) : d <= c

(***************************************************************************)
(* A hand is its kind and its strength within that kind.  The derived and    *)
(* hand-written Ord instances are lexicographic; Strength lays the three     *)
(* positions out in one number (a rank or card is below 64, a suit below 4). *)
(***************************************************************************)
Strength(category, suit, value) == 256 * category + 64 * suit + value

Hand(kind, strength) == [kind |-> kind, strength |-> strength]
Pass == Hand("Pass", 0)
NotAHand == Hand("HandError", 0)

-----------------------------------------------------------------------------
(* Five-card hands. *)

AceLow == {0, 1, 2, 11, 12}           \* A-2-3-4-5
TwoLow == {0, 1, 2, 3, 12}            \* 2-3-4-5-6
AceHigh == 7 .. 11                    \* T-J-Q-K-A

\* Wrong variant: any five ranks in a row, around the corner too.
IsStraightAroundTheCorner(cs) ==
    \E r \in 0 .. 12 : Ranks(cs) = {(r + i) % 13 : i \in 0 .. 4}

\* Five different ranks in a row; an ace or a two appears only in the three
\* special runs.
IsStraight(cs) ==
    \/ Ranks(cs) \in {AceLow, TwoLow, AceHigh}
    \/ \E r \in 0 .. 6 : Ranks(cs) = r .. r + 4

\* Wrong variant: a straight counts its highest-ranked card, ace and two too.
StraightHighRankByOrder(cs) == RankOf(HighCard(cs))

StraightHighRank(cs) ==
    CASE Ranks(cs) = AceLow -> 2
      [] Ranks(cs) = TwoLow -> 3
      [] OTHER -> RankOf(HighCard(cs))

StraightHighCard(cs) == CHOOSE c \in Cards(cs) : RankOf(c) = StraightHighRank(cs)

Copies(cs, r) == Cardinality({i \in DOMAIN cs : RankOf(cs[i]) = r})
RepeatedRank(cs, n) == CHOOSE r \in Ranks(cs) : Copies(cs, r) = n
HasRepeated(cs, n) == \E r \in Ranks(cs) : Copies(cs, r) = n

\* classify_hand, with the order of its tests: each test only sees what the
\* tests before it let through.
FiveStrength(cs) ==
    LET flush == Suits(cs) = {SuitOf(cs[1])}
        straight == IsStraight(cs)
        suit == SuitOf(cs[1])
    IN  IF straight /\ flush THEN Strength(4, suit, StraightHighCard(cs))
        ELSE IF HasRepeated(cs, 4) THEN Strength(3, 0, RepeatedRank(cs, 4))
        ELSE IF HasRepeated(cs, 3) /\ HasRepeated(cs, 2)
             THEN Strength(2, 0, RepeatedRank(cs, 3))
        ELSE IF flush THEN Strength(1, suit, HighCard(cs))
        ELSE IF straight THEN Strength(0, 0, StraightHighCard(cs))
        ELSE -1

-----------------------------------------------------------------------------
\* Hand::from_cards.  Pairs and triples compare by rank and then by their
\* highest suit, which is the order of their highest cards.
SameRank(cs) == \A i \in DOMAIN cs : RankOf(cs[i]) = RankOf(cs[1])

FromCards(cs) ==
    CASE Len(cs) = 0 -> Pass
      [] Len(cs) = 1 -> Hand("Single", cs[1])
      [] Len(cs) = 2 /\ SameRank(cs) -> Hand("Pair", HighCard(cs))
      [] Len(cs) = 3 /\ SameRank(cs) -> Hand("Triple", HighCard(cs))
      [] Len(cs) = 5 /\ FiveStrength(cs) >= 0 -> Hand("Five", FiveStrength(cs))
      [] OTHER -> NotAHand

\* Hand::can_beat: only hands of one kind compare; every five-card hand is of
\* the kind Five.
CanBeat(a, b) ==
    \/ a.kind = "Pass"
    \/ b.kind # "Pass" /\ a.kind = b.kind /\ a.strength > b.strength
=============================================================================
