-------------------------------- MODULE GameProofs --------------------------------
(***************************************************************************)
(* What holds of every game, for every deal and every list of cards a client *)
(* may submit.  The argument is one inductive invariant, GameInv: the types, *)
(* the conservation of the cards, the bookkeeping of a round that relates    *)
(* the turn, the passes and the leader, and the last plays of the round.     *)
(* Then come the bots at the table and what they decide, and last the hands:  *)
(* from_cards and can_beat against the rules of the README.                  *)
(***************************************************************************)
EXTENDS Strategy, HandRules, SequenceTheorems, FiniteSetTheorems, WellFoundedInduction, TLAPS

-----------------------------------------------------------------------------
(* Every list that forms a hand has a numeric strength, so that can_beat is a *)
(* strict order on hands: what the climbing of a round rests on.              *)

HandSize == {1, 2, 3, 5}

\* The entries of a list of cards are numbers.
LEMMA EntriesAreNumbers ==
    ASSUME NEW cs \in Seq(Card)
    PROVE  DOMAIN cs = 1 .. Len(cs) /\ \A i \in DOMAIN cs : cs[i] \in Int
<1>1. DOMAIN cs = 1 .. Len(cs) /\ \A i \in DOMAIN cs : cs[i] \in Card
  OBVIOUS
<1>2. \A c \in Card : c \in Int
  BY DEF Card
<1>3. QED
  BY <1>1, <1>2

\* A list of one of the sizes of a hand has a highest card.
LEMMA HighCardIsACard ==
    ASSUME NEW cs \in Seq(Card), Len(cs) \in HandSize
    PROVE  HighCard(cs) \in Cards(cs) /\ \A d \in Cards(cs) : d <= HighCard(cs)
<1>1. DOMAIN cs = 1 .. Len(cs) /\ \A i \in 1 .. Len(cs) : cs[i] \in Int
  BY EntriesAreNumbers
<1>2. \E i \in 1 .. Len(cs) : \A j \in 1 .. Len(cs) : cs[j] <= cs[i]
  <2>1. CASE Len(cs) = 1
    <3>1. \A j \in 1 .. Len(cs) : cs[j] <= cs[1]
      BY <1>1, <2>1
    <3>2. QED
      BY <2>1, <3>1
  <2>2. CASE Len(cs) = 2
    <3>1. cs[1] \in Int /\ cs[2] \in Int
      BY <1>1, <2>2
    <3>2. PICK i \in {1, 2} : cs[1] <= cs[i] /\ cs[2] <= cs[i]
      BY <3>1
    <3>3. QED
      BY <2>2, <3>2
  <2>3. CASE Len(cs) = 3
    <3>1. cs[1] \in Int /\ cs[2] \in Int /\ cs[3] \in Int
      BY <1>1, <2>3
    <3>2. PICK i \in {1, 2, 3} : cs[1] <= cs[i] /\ cs[2] <= cs[i] /\ cs[3] <= cs[i]
      BY <3>1
    <3>3. QED
      BY <2>3, <3>2
  <2>4. CASE Len(cs) = 5
    <3>1. /\ cs[1] \in Int /\ cs[2] \in Int /\ cs[3] \in Int
          /\ cs[4] \in Int /\ cs[5] \in Int
      BY <1>1, <2>4
    <3>2. PICK i \in {1, 2, 3} : cs[1] <= cs[i] /\ cs[2] <= cs[i] /\ cs[3] <= cs[i]
      BY <3>1
    <3>3. PICK k \in {i, 4, 5} : cs[i] <= cs[k] /\ cs[4] <= cs[k] /\ cs[5] <= cs[k]
      BY <3>1, SMTT(30)
    <3>4. QED
      BY <2>4, <3>1, <3>2, <3>3
  <2>5. QED
    BY <2>1, <2>2, <2>3, <2>4 DEF HandSize
<1>3. \E c \in Cards(cs) : \A d \in Cards(cs) : d <= c
  <2>1. PICK i \in DOMAIN cs : \A j \in DOMAIN cs : cs[j] <= cs[i]
    BY <1>1, <1>2
  <2>2. cs[i] \in Cards(cs) /\ \A d \in Cards(cs) : d <= cs[i]
    BY <2>1 DEF Cards
  <2>3. QED
    BY <2>2
<1>4. QED
  BY <1>3 DEF HighCard

LEMMA CardsAreCards ==
    ASSUME NEW cs \in Seq(Card)
    PROVE  Cards(cs) \subseteq Int /\ Ranks(cs) \subseteq Int
<1>1. \A i \in DOMAIN cs : cs[i] \in Int
  BY EntriesAreNumbers
<1>2. QED
  BY <1>1 DEF Cards, Ranks, RankOf

LEMMA AceIsNotSix == AceLow # TwoLow
<1>1. 11 \in AceLow /\ 11 \notin TwoLow
  BY DEF AceLow, TwoLow
<1>2. QED
  BY <1>1

\* The card a straight is compared by is one of its cards.
LEMMA StraightHighCardIsACard ==
    ASSUME NEW cs \in Seq(Card), Len(cs) = 5, IsStraight(cs)
    PROVE  StraightHighCard(cs) \in Int
<1>1. \E c \in Cards(cs) : RankOf(c) = StraightHighRank(cs)
  <2>1. CASE Ranks(cs) = AceLow
    <3>1. 2 \in Ranks(cs)
      BY <2>1 DEF AceLow
    <3>2. StraightHighRank(cs) = 2
      <4>1. AceLow # TwoLow
        BY AceIsNotSix
      <4>2. QED
        BY <2>1, <4>1 DEF StraightHighRank
    <3>3. QED
      BY <3>1, <3>2 DEF Ranks, Cards
  <2>2. CASE Ranks(cs) = TwoLow
    <3>1. Ranks(cs) # AceLow
      BY <2>2, AceIsNotSix
    <3>2. 3 \in Ranks(cs) /\ StraightHighRank(cs) = 3
      BY <2>2, <3>1 DEF TwoLow, StraightHighRank
    <3>3. QED
      BY <3>2 DEF Ranks, Cards
  <2>3. CASE Ranks(cs) # AceLow /\ Ranks(cs) # TwoLow
    <3>1. StraightHighRank(cs) = RankOf(HighCard(cs))
      BY <2>3 DEF StraightHighRank
    <3>2. QED
      BY <3>1, HighCardIsACard DEF HandSize
  <2>4. QED
    BY <2>1, <2>2, <2>3
<1>2. StraightHighCard(cs) \in Cards(cs)
  BY <1>1 DEF StraightHighCard
<1>3. QED
  BY <1>2, CardsAreCards

LEMMA FiveStrengthIsANumber ==
    ASSUME NEW cs \in Seq(Card), Len(cs) = 5
    PROVE  FiveStrength(cs) \in Int
<1>1. HighCard(cs) \in Int
  BY HighCardIsACard, CardsAreCards DEF HandSize
<1>2. SuitOf(cs[1]) \in Int
  BY EntriesAreNumbers DEF SuitOf
<1>3. ASSUME NEW n \in Nat, HasRepeated(cs, n)
      PROVE  RepeatedRank(cs, n) \in Int
  <2>1. RepeatedRank(cs, n) \in Ranks(cs)
    BY <1>3 DEF HasRepeated, RepeatedRank
  <2>2. QED
    BY <2>1, CardsAreCards
<1>4. HasRepeated(cs, 4) => RepeatedRank(cs, 4) \in Int
  BY <1>3
<1>5. HasRepeated(cs, 3) => RepeatedRank(cs, 3) \in Int
  BY <1>3
<1>6. IsStraight(cs) => StraightHighCard(cs) \in Int
  BY StraightHighCardIsACard
<1>7. QED
  BY <1>1, <1>2, <1>4, <1>5, <1>6, SMTT(30) DEF FiveStrength, Strength

\* from_cards gives every list of cards a hand of numeric strength.
LEMMA HandHasStrength ==
    ASSUME NEW cs \in Seq(Card)
    PROVE  FromCards(cs).strength \in Int
<1>1. Len(cs) \in {2, 3} => HighCard(cs) \in Int
  BY HighCardIsACard, CardsAreCards DEF HandSize
<1>2. Len(cs) = 5 => FiveStrength(cs) \in Int
  BY FiveStrengthIsANumber
<1>3. Len(cs) = 1 => cs[1] \in Int
  BY EntriesAreNumbers
<1>4. QED
  BY <1>1, <1>2, <1>3 DEF FromCards, Hand, Pass, NotAHand

\* A hand that beats the hand to beat beats whatever that one had beaten: the
\* reason a player only ever has to look at the last hand (validate_card_play).
THEOREM CanBeatIsTransitive ==
    ASSUME NEW a \in Seq(Card), NEW b \in Seq(Card), NEW c \in Seq(Card),
           FromCards(a).kind # "Pass", FromCards(b).kind # "Pass",
           CanBeat(FromCards(a), FromCards(b)), CanBeat(FromCards(b), FromCards(c))
    PROVE  CanBeat(FromCards(a), FromCards(c))
<1>1. /\ FromCards(a).strength \in Int
      /\ FromCards(b).strength \in Int
      /\ FromCards(c).strength \in Int
  BY HandHasStrength
<1>2. QED
  BY <1>1 DEF CanBeat

-----------------------------------------------------------------------------
(* The inductive invariant of a game. *)

\* The bookkeeping of a round: the leader is as many seats back as there were
\* passes, and before the first hand there are only passes to remember.
RoundStructure ==
    /\ leader = NoSeat <=> standing = <<>>
    /\ (~IsFinished /\ standing # <<>>) =>
          leader = (current_turn + 4 - 1 - consecutive_passes) % 4
    /\ (consecutive_passes > 0 \/ standing # <<>>) => opened
    /\ standing = <<>> =>
          \A s \in DOMAIN last_play_by_player : last_play_by_player[s] = <<>>

GameInv ==
    /\ TypeOK
    /\ CardsConserved
    /\ OneWinner
    /\ RoundStructure
    /\ LastPlaysShowTheRound

-----------------------------------------------------------------------------
(* Facts about the operators of Game. *)

LEMMA MovesAreLists == Moves \subseteq Seq(Card) /\ <<>> \notin Moves
BY MovesAssumption

LEMMA ListOfNoHandIsNotAPass ==
    ASSUME NEW cs \in Seq(Card), cs # <<>>
    PROVE  FromCards(cs).kind # "Pass"
<1>1. Len(cs) # 0
  OBVIOUS
<1>2. QED
  BY <1>1 DEF FromCards, Hand, Pass, NotAHand

LEMMA CardsOfAMove ==
    ASSUME NEW cs \in Moves
    PROVE  Cards(cs) \in SUBSET Card
<1>1. cs \in Seq(Card)
  BY MovesAreLists
<1>2. \A i \in DOMAIN cs : cs[i] \in Card
  BY <1>1
<1>3. QED
  BY <1>2 DEF Cards

LEMMA SeatsGoRound ==
    ASSUME NEW s \in Seat
    PROVE  NextSeat(s) \in Seat /\ NextSeat(s) # s
BY DEF NextSeat, Seat

\* A deal is still a deal after the rotation.
LEMMA RotatedDeal ==
    ASSUME NEW d \in Deals
    PROVE  /\ Rotated(d) \in [Seat -> SUBSET Card]
           /\ \A s \in Seat : Rotated(d)[s] # {}
           /\ \A s, t \in Seat : s # t => Rotated(d)[s] \cap Rotated(d)[t] = {}
<1>1. /\ d \in [Seat -> SUBSET Card]
      /\ \A s, t \in Seat : s # t => d[s] \cap d[t] = {}
      /\ \A s \in Seat : d[s] # {}
      /\ \E s \in Seat : ThreeOfDiamonds \in d[s]
  BY DealsAssumption
<1> DEFINE f == CHOOSE s \in Seat : ThreeOfDiamonds \in d[s]
<1>2. f \in Seat
  BY <1>1
<1>3. Rotated(d) = [s \in Seat |-> d[(s + f) % 4]]
  BY DEF Rotated
<1> HIDE DEF f
<1>4. \A s \in Seat : (s + f) % 4 \in Seat
  BY <1>2 DEF Seat
<1>5. \A s, t \in Seat : s # t => (s + f) % 4 # (t + f) % 4
  BY <1>2 DEF Seat
<1>6. QED
  BY <1>1, <1>3, <1>4, <1>5

-----------------------------------------------------------------------------
(* The invariant holds of a fresh deal. *)

LEMMA InitInv == Init => GameInv
<1> SUFFICES ASSUME NEW d \in Deals,
                    hand = Rotated(d), starting_hands = hand,
                    current_turn = 0, consecutive_passes = 0,
                    opened = FALSE, standing = <<>>, leader = NoSeat,
                    last_play_by_player = <<>>,
                    played = [s \in Seat |-> {}]
             PROVE  GameInv
  BY DEF Init
<1>1. /\ hand \in [Seat -> SUBSET Card]
      /\ \A s \in Seat : hand[s] # {}
      /\ \A s, t \in Seat : s # t => hand[s] \cap hand[t] = {}
  BY RotatedDeal
<1>2. ~IsFinished
  BY <1>1 DEF IsFinished
<1>3. last_play_by_player \in [{} -> Moves \cup {<<>>}] /\ DOMAIN last_play_by_player = {}
  OBVIOUS
<1>4. TypeOK
  <2>1. \E D \in SUBSET Seat : last_play_by_player \in [D -> Moves \cup {<<>>}]
    BY <1>3
  <2>2. played \in [Seat -> SUBSET Card]
    OBVIOUS
  <2>3. QED
    BY <1>1, <2>1, <2>2 DEF TypeOK, Seat
<1>5. CardsConserved
  BY <1>1 DEF CardsConserved
<1>6. OneWinner
  BY <1>2 DEF OneWinner
<1>7. RoundStructure
  BY <1>2, <1>3 DEF RoundStructure
<1>8. LastPlaysShowTheRound
  BY DEF LastPlaysShowTheRound
<1>9. QED
  BY <1>4, <1>5, <1>6, <1>7, <1>8 DEF GameInv

-----------------------------------------------------------------------------
(* A pass keeps the invariant. *)

LEMMA PassInv ==
    ASSUME GameInv, NEW s \in Seat, HandlePass(s)
    PROVE  GameInv'
<1> USE DEF GameInv
<1>1. PICK D \in SUBSET Seat : last_play_by_player \in [D -> Moves \cup {<<>>}]
  BY DEF TypeOK
<1>2. DOMAIN last_play_by_player = D
  BY <1>1
<1>3. /\ s = current_turn /\ ~IsFinished /\ consecutive_passes < 3
      /\ consecutive_passes' = consecutive_passes + 1
      /\ current_turn' = NextSeat(s)
      /\ last_play_by_player' = Insert(last_play_by_player, s, <<>>)
      /\ opened' = TRUE
  BY DEF HandlePass
<1>4. UNCHANGED <<hand, standing, leader, played, starting_hands>>
  BY DEF HandlePass
<1>5. /\ last_play_by_player' \in [D \cup {s} -> Moves \cup {<<>>}]
      /\ D \cup {s} \in SUBSET Seat
      /\ DOMAIN last_play_by_player' = D \cup {s}
      /\ last_play_by_player'[s] = <<>>
      /\ \A x \in D \ {s} : last_play_by_player'[x] = last_play_by_player[x]
  <2> DEFINE V == Moves \cup {<<>>}
  <2>1. <<>> \in V /\ last_play_by_player \in [D -> V]
    BY <1>1
  <2> HIDE DEF V
  <2>2. LET m == Insert(last_play_by_player, s, <<>>)
        IN  /\ m \in [D \cup {s} -> V]
            /\ D \cup {s} \in SUBSET Seat
            /\ DOMAIN m = D \cup {s}
            /\ m[s] = <<>>
            /\ \A x \in D \ {s} : m[x] = last_play_by_player[x]
    BY <2>1 DEF Insert
  <2>3. QED
    BY <1>3, <2>2 DEF V
<1>6. /\ consecutive_passes \in 0 .. 3 /\ current_turn \in Seat
      /\ leader \in Seat \cup {NoSeat}
  BY DEF TypeOK
<1>7. ~IsFinished'
  BY <1>3, <1>4 DEF IsFinished
<1>8. TypeOK'
  <2>1. consecutive_passes' \in 0 .. 3 /\ current_turn' \in Seat
    BY <1>3, <1>6, SeatsGoRound
  <2>2. QED
    BY <1>3, <1>4, <1>5, <2>1 DEF TypeOK
<1>9. CardsConserved'
  BY <1>4 DEF CardsConserved
<1>10. OneWinner'
  BY <1>7 DEF OneWinner
<1>11. ASSUME standing # <<>>
       PROVE  /\ leader = (current_turn + 4 - 1 - consecutive_passes) % 4
              /\ leader = (current_turn' + 4 - 1 - consecutive_passes') % 4
              /\ leader \in Seat /\ leader # s
              /\ s = (leader + consecutive_passes') % 4
  <2>1. leader = (current_turn + 4 - 1 - consecutive_passes) % 4
    BY <1>3, <1>11 DEF RoundStructure
  <2>2. QED
    BY <2>1, <1>3, <1>6 DEF Seat, NextSeat
<1>12. RoundStructure'
  <2>1. leader' = NoSeat <=> standing' = <<>>
    BY <1>4 DEF RoundStructure
  <2>2. standing' # <<>> =>
          leader' = (current_turn' + 4 - 1 - consecutive_passes') % 4
    BY <1>4, <1>11
  <2>3. standing' = <<>> =>
          \A x \in DOMAIN last_play_by_player' : last_play_by_player'[x] = <<>>
    BY <1>2, <1>4, <1>5 DEF RoundStructure
  <2>4. QED
    BY <1>3, <2>1, <2>2, <2>3 DEF RoundStructure
<1>13. LastPlaysShowTheRound'
  <2> SUFFICES ASSUME standing # <<>>
               PROVE  /\ leader \in DOMAIN last_play_by_player'
                      /\ last_play_by_player'[leader] = standing
                      /\ \A t \in DOMAIN last_play_by_player' \ {leader} :
                            IF PassedSince(t)' THEN last_play_by_player'[t] = <<>>
                            ELSE \/ last_play_by_player'[t] = <<>>
                                 \/ CanBeat(FromCards(standing),
                                            FromCards(last_play_by_player'[t]))
    BY <1>4 DEF LastPlaysShowTheRound
  <2>1. /\ leader \in D
        /\ last_play_by_player[leader] = standing
        /\ \A t \in D \ {leader} :
              IF PassedSince(t) THEN last_play_by_player[t] = <<>>
              ELSE \/ last_play_by_player[t] = <<>>
                   \/ CanBeat(FromCards(standing), FromCards(last_play_by_player[t]))
    BY <1>2 DEF LastPlaysShowTheRound
  <2>2. leader \in DOMAIN last_play_by_player' /\ last_play_by_player'[leader] = standing
    BY <2>1, <1>5, <1>11
  <2>3. ASSUME NEW t \in D \ {s}, PassedSince(t)'
        PROVE  PassedSince(t)
    <3>1. PICK k \in 1 .. 3 : k <= consecutive_passes' /\ t = (leader + k) % 4
      BY <2>3, <1>4 DEF PassedSince
    <3>2. k # consecutive_passes'
      BY <3>1, <1>11
    <3>3. k <= consecutive_passes
      BY <3>1, <3>2, <1>3, <1>6
    <3>4. QED
      BY <3>1, <3>3 DEF PassedSince
  <2>4. ASSUME NEW t \in DOMAIN last_play_by_player' \ {leader}
        PROVE  IF PassedSince(t)' THEN last_play_by_player'[t] = <<>>
               ELSE \/ last_play_by_player'[t] = <<>>
                    \/ CanBeat(FromCards(standing), FromCards(last_play_by_player'[t]))
    <3>1. CASE t = s
      BY <3>1, <1>5
    <3>2. CASE t # s
      <4>1. t \in D \ {s} /\ t \in D \ {leader}
        BY <2>4, <3>2, <1>5
      <4>2. last_play_by_player'[t] = last_play_by_player[t]
        BY <4>1, <1>5
      <4>3. QED
        BY <4>1, <4>2, <2>1, <2>3
    <3>3. QED
      BY <3>1, <3>2
  <2>5. QED
    BY <2>2, <2>4
<1>14. QED
  BY <1>8, <1>9, <1>10, <1>12, <1>13

-----------------------------------------------------------------------------
(* An accepted play keeps the invariant. *)

LEMMA PlayInv ==
    ASSUME GameInv, NEW s \in Seat, NEW cards \in Moves, HandleCardPlay(s, cards)
    PROVE  GameInv'
<1> USE DEF GameInv
<1> DEFINE rest == Without(s, cards)
           round == LastPlaysOfRound
<1>1. /\ s = current_turn /\ ~IsFinished
      /\ Accepts(s, cards)
      /\ hand' = [hand EXCEPT ![s] = rest]
      /\ last_play_by_player' = Insert(round, s, cards)
      /\ played' = [played EXCEPT ![s] = @ \cup Cards(cards)]
      /\ leader' = s /\ standing' = cards /\ opened' = TRUE
      /\ consecutive_passes' = 0
      /\ current_turn' = TurnAfterPlay(s, rest)
      /\ starting_hands' = starting_hands
  BY DEF HandleCardPlay
<1>2. /\ cards \in Seq(Card) /\ cards # <<>>
      /\ FromCards(cards).kind # "Pass"
      /\ Cards(cards) \in SUBSET Card
  BY MovesAreLists, ListOfNoHandIsNotAPass, CardsOfAMove
<1>3. /\ hand \in [Seat -> SUBSET Card] /\ played \in [Seat -> SUBSET Card]
      /\ standing \in Moves \cup {<<>>}
      /\ leader \in Seat \cup {NoSeat}
      /\ consecutive_passes \in 0 .. 3
  BY DEF TypeOK
<1>4. rest = hand[s] \ Cards(cards) /\ Cards(cards) \subseteq hand[s]
  BY <1>1 DEF Without, Accepts, OwnsCards
<1>5. hand'[s] = rest /\ \A t \in Seat \ {s} : hand'[t] = hand[t]
  BY <1>1, <1>3
<1>6. played'[s] = played[s] \cup Cards(cards)
      /\ \A t \in Seat \ {s} : played'[t] = played[t]
  BY <1>1, <1>3
<1>7. \A t \in Seat : hand[t] # {}
  BY <1>1 DEF IsFinished
<1>8. IsFinished' <=> rest = {}
  BY <1>5, <1>7 DEF IsFinished
<1>9. PICK D \in SUBSET Seat : round \in [D -> Moves \cup {<<>>}]
  <2>1. CASE consecutive_passes = 3
    <3>1. round = <<>>
      BY <2>1 DEF LastPlaysOfRound
    <3>2. round \in [{} -> Moves \cup {<<>>}]
      BY <3>1
    <3>3. QED
      BY <3>2
  <2>2. CASE consecutive_passes # 3
    BY <2>2 DEF LastPlaysOfRound, TypeOK
  <2>3. QED
    BY <2>1, <2>2
<1>10. /\ last_play_by_player' \in [D \cup {s} -> Moves \cup {<<>>}]
       /\ D \cup {s} \in SUBSET Seat
       /\ DOMAIN last_play_by_player' = D \cup {s}
       /\ last_play_by_player'[s] = cards
       /\ \A x \in D \ {s} : last_play_by_player'[x] = round[x]
  <2> DEFINE V == Moves \cup {<<>>}
  <2>1. cards \in V /\ round \in [D -> V]
    BY <1>9
  <2> HIDE DEF V, round
  <2>2. LET m == Insert(round, s, cards)
        IN  /\ m \in [D \cup {s} -> V]
            /\ D \cup {s} \in SUBSET Seat
            /\ DOMAIN m = D \cup {s}
            /\ m[s] = cards
            /\ \A x \in D \ {s} : m[x] = round[x]
    BY <2>1 DEF Insert
  <2>3. QED
    BY <1>1, <2>2 DEF V
<1>11. TypeOK'
  <2>1. current_turn' \in Seat
    BY <1>1, SeatsGoRound DEF TurnAfterPlay
  <2>2. hand' \in [Seat -> SUBSET Card] /\ played' \in [Seat -> SUBSET Card]
    BY <1>1, <1>2, <1>3, <1>4
  <2>3. starting_hands' \in [Seat -> SUBSET Card]
    BY <1>1 DEF TypeOK
  <2>4. \E E \in SUBSET Seat : last_play_by_player' \in [E -> Moves \cup {<<>>}]
    BY <1>10
  <2>5. consecutive_passes' \in 0 .. 3 /\ opened' \in BOOLEAN
        /\ standing' \in Moves \cup {<<>>} /\ leader' \in Seat \cup {NoSeat}
    BY <1>1
  <2>6. QED
    BY <2>1, <2>2, <2>3, <2>4, <2>5 DEF TypeOK
<1>12. CardsConserved'
  <2>1. \A t \in Seat : hand'[t] \cup played'[t] = hand[t] \cup played[t]
    BY <1>4, <1>5, <1>6
  <2>2. \A t \in Seat : hand'[t] \cap played'[t] = {}
    <3>1. \A t \in Seat : hand[t] \cap played[t] = {}
      BY DEF CardsConserved
    <3>2. QED
      BY <3>1, <1>4, <1>5, <1>6
  <2>3. QED
    BY <2>1, <2>2, <1>1 DEF CardsConserved
<1>13. OneWinner'
  BY <1>1, <1>5, <1>7, <1>8 DEF OneWinner, TurnAfterPlay
<1>14. RoundStructure'
  <2>1. leader' # NoSeat /\ standing' # <<>>
    BY <1>1, <1>2 DEF Seat, NoSeat
  <2>2. ~IsFinished' => leader' = (current_turn' + 4 - 1 - consecutive_passes') % 4
    BY <1>1, <1>8 DEF TurnAfterPlay, NextSeat, Seat
  <2>3. QED
    BY <2>1, <2>2, <1>1 DEF RoundStructure
<1>15. \A t \in D \ {s} :
         round[t] = <<>> \/ CanBeat(FromCards(cards), FromCards(round[t]))
  <2> SUFFICES ASSUME NEW t \in D \ {s}, round[t] # <<>>
               PROVE  CanBeat(FromCards(cards), FromCards(round[t]))
    OBVIOUS
  <2>1. consecutive_passes # 3 /\ round = last_play_by_player
    BY <1>9 DEF LastPlaysOfRound
  <2>2. DOMAIN last_play_by_player = D
    BY <2>1, <1>9
  <2>3. standing # <<>>
    BY <2>1, <2>2 DEF RoundStructure
  <2>4. CanBeat(FromCards(cards), FromCards(standing))
    BY <1>1, <2>1, <2>3 DEF Accepts, BeatsTable
  <2>5. CASE t = leader
    BY <2>1, <2>3, <2>4, <2>5 DEF LastPlaysShowTheRound
  <2>6. CASE t # leader
    <3>1. CanBeat(FromCards(standing), FromCards(round[t]))
      BY <2>1, <2>2, <2>3, <2>6 DEF LastPlaysShowTheRound
    <3>2. round[t] \in Seq(Card) /\ standing \in Seq(Card)
      <4>1. round[t] \in Moves
        BY <1>9
      <4>2. standing \in Moves
        BY <1>3, <2>3
      <4>3. QED
        BY <4>1, <4>2, MovesAreLists
    <3>3. FromCards(standing).kind # "Pass"
      BY <2>3, <3>2, ListOfNoHandIsNotAPass
    <3>4. QED
      BY <1>2, <2>4, <3>1, <3>2, <3>3, CanBeatIsTransitive
  <2>7. QED
    BY <2>5, <2>6
<1>16. LastPlaysShowTheRound'
  <2>1. ASSUME NEW t PROVE ~PassedSince(t)'
    BY <1>1 DEF PassedSince
  <2>2. leader' \in DOMAIN last_play_by_player' /\ last_play_by_player'[leader'] = standing'
    BY <1>1, <1>10
  <2>3. ASSUME NEW t \in DOMAIN last_play_by_player' \ {leader'}
        PROVE  \/ last_play_by_player'[t] = <<>>
               \/ CanBeat(FromCards(standing'), FromCards(last_play_by_player'[t]))
    BY <1>1, <1>10, <1>15, <2>3
  <2>4. QED
    BY <2>1, <2>2, <2>3 DEF LastPlaysShowTheRound
<1>17. QED
  BY <1>11, <1>12, <1>13, <1>14, <1>16

-----------------------------------------------------------------------------
(* Every game. *)

LEMMA StutterInv == GameInv /\ UNCHANGED vars => GameInv'
<1> SUFFICES ASSUME GameInv, UNCHANGED vars PROVE GameInv'
  OBVIOUS
<1> USE DEF GameInv, vars
<1>1. TypeOK'
  BY DEF TypeOK
<1>2. CardsConserved'
  BY DEF CardsConserved
<1>3. OneWinner'
  BY DEF OneWinner, IsFinished
<1>4. RoundStructure'
  BY DEF RoundStructure, IsFinished
<1>5. LastPlaysShowTheRound'
  BY DEF LastPlaysShowTheRound, PassedSince
<1>6. QED
  BY <1>1, <1>2, <1>3, <1>4, <1>5

LEMMA NextInv == GameInv /\ [Next]_vars => GameInv'
<1>1. ASSUME GameInv, NEW s \in Seat, HandlePass(s) PROVE GameInv'
  BY <1>1, PassInv
<1>2. ASSUME GameInv, NEW s \in Seat, NEW cards \in Moves, HandleCardPlay(s, cards)
      PROVE  GameInv'
  BY <1>2, PlayInv
<1>3. QED
  BY <1>1, <1>2, StutterInv DEF Next

\* Every reachable state of every game satisfies the inductive invariant.
THEOREM GameInvariant == Spec => []GameInv
<1>1. Init => GameInv
  BY InitInv
<1>2. GameInv /\ [Next]_vars => GameInv'
  BY NextInv
<1>3. QED
  BY <1>1, <1>2, PTL DEF Spec

\* The variables keep their types: in particular at most three passes are ever
\* counted, so that the index arithmetic never goes below zero.
THEOREM TypeCorrect == Spec => []TypeOK
<1>1. GameInv => TypeOK
  BY DEF GameInv
<1>2. QED
  BY <1>1, GameInvariant, PTL

\* Cards are conserved, for every deal and whatever lists clients submit.
THEOREM Conservation == Spec => []CardsConserved
<1>1. GameInv => CardsConserved
  BY DEF GameInv
<1>2. QED
  BY <1>1, GameInvariant, PTL

\* last_non_pass_player_uuid names the player the move log names.
THEOREM IndexNamesTheLeader == Spec => []LastPlayerByIndex
<1>1. GameInv => LastPlayerByIndex
  BY DEF GameInv, RoundStructure, LastPlayerByIndex, LastNonPassPlayer
<1>2. QED
  BY <1>1, GameInvariant, PTL

\* last_plays_by_player shows one round, in which every hand was beaten by the
\* hand to beat.
THEOREM LastPlaysAreOneRound == Spec => []LastPlaysShowTheRound
<1>1. GameInv => LastPlaysShowTheRound
  BY DEF GameInv
<1>2. QED
  BY <1>1, GameInvariant, PTL

\* A finished game has one winner, who holds the turn.
THEOREM WinnerIsUnique == Spec => []OneWinner
<1>1. GameInv => OneWinner
  BY DEF GameInv
<1>2. QED
  BY <1>1, GameInvariant, PTL

\* While a game runs, the player whose turn it is has a legal move.
THEOREM SomeMoveIsLegal == Spec => []NobodyIsStuck
<1>1. GameInv => NobodyIsStuck
  <2> SUFFICES ASSUME GameInv, ~IsFinished, ~(consecutive_passes < 3)
               PROVE  \E c \in hand[current_turn] : Accepts(current_turn, <<c>>)
    BY DEF NobodyIsStuck
  <2>1. consecutive_passes = 3 /\ current_turn \in Seat
    BY DEF GameInv, TypeOK
  <2>2. PICK c \in hand[current_turn] : TRUE
    BY <2>1 DEF IsFinished
  <2>3. opened
    BY <2>1 DEF GameInv, RoundStructure
  <2>4. Len(<<c>>) = 1 /\ Cards(<<c>>) = {c}
    BY DEF Cards
  <2>5. FromCards(<<c>>) # NotAHand
    BY <2>4 DEF FromCards, Hand, NotAHand
  <2>6. QED
    BY <2>1, <2>2, <2>3, <2>4, <2>5 DEF Accepts, BeatsTable, OwnsCards, FirstTurnRule
<1>2. QED
  BY <1>1, GameInvariant, PTL

-----------------------------------------------------------------------------
(* Game implements TurnOrder. *)

LEMMA InitImplements == Init => Table!Init
<1> SUFFICES ASSUME Init PROVE Table!Init
  OBVIOUS
<1>1. PICK d \in Deals : hand = Rotated(d)
  BY DEF Init
<1>2. IsFinished = FALSE
  BY <1>1, RotatedDeal DEF IsFinished
<1>3. QED
  BY <1>2 DEF Init, Table!Init, NoSeat, Table!NoSeat

LEMMA NextImplements == GameInv /\ [Next]_vars => [Table!Next]_(Table!vars)
<1> SUFFICES ASSUME GameInv, [Next]_vars PROVE [Table!Next]_(Table!vars)
  OBVIOUS
<1>1. ASSUME NEW s \in Seat, HandlePass(s)
      PROVE  Table!PassTurn
  <2>1. ~IsFinished /\ ~IsFinished'
    BY <1>1 DEF HandlePass, IsFinished
  <2>2. IsFinished' = IsFinished
    BY <2>1 DEF IsFinished
  <2>3. QED
    BY <1>1, <2>1, <2>2 DEF HandlePass, Table!PassTurn, Table!Next4, NextSeat
<1>2. ASSUME NEW s \in Seat, NEW cards \in Moves, HandleCardPlay(s, cards)
      PROVE  Table!Play
  <2> DEFINE rest == Without(s, cards)
  <2>1. /\ ~IsFinished /\ s = current_turn
        /\ hand' = [hand EXCEPT ![s] = rest]
        /\ consecutive_passes' = 0 /\ leader' = s
        /\ current_turn' = TurnAfterPlay(s, rest)
    BY <1>2 DEF HandleCardPlay
  <2>2. hand \in [Seat -> SUBSET Card]
    BY DEF GameInv, TypeOK
  <2>3. hand'[s] = rest /\ \A t \in Seat \ {s} : hand'[t] = hand[t]
    BY <2>1, <2>2
  <2>4. CASE rest = {}
    <3>1. IsFinished' = TRUE
      BY <2>3, <2>4 DEF IsFinished
    <3>2. current_turn' = current_turn
      BY <2>1, <2>4 DEF TurnAfterPlay
    <3>3. QED
      BY <2>1, <3>1, <3>2 DEF Table!Play
  <2>5. CASE rest # {}
    <3>1. ~IsFinished'
      BY <2>1, <2>3, <2>5 DEF IsFinished
    <3>2. IsFinished' = IsFinished
      BY <2>1, <3>1 DEF IsFinished
    <3>3. current_turn' = Table!Next4(current_turn)
      BY <2>1, <2>5 DEF TurnAfterPlay, NextSeat, Table!Next4
    <3>4. QED
      BY <2>1, <3>2, <3>3 DEF Table!Play
  <2>6. QED
    BY <2>4, <2>5
<1>3. CASE UNCHANGED vars
  <2>1. IsFinished' = IsFinished
    BY <1>3 DEF vars, IsFinished
  <2>2. QED
    BY <1>3, <2>1 DEF vars, Table!vars
<1>4. QED
  BY <1>1, <1>2, <1>3 DEF Next, Table!Next

\* Whatever the cards are, the turns of a game go round the table, the lead
\* returns after three passes and the first empty hand ends it.
THEOREM ImplementsTurnOrder == Spec => TurnOrderSpec
<1>1. Init => Table!Init
  BY InitImplements
<1>2. GameInv /\ [Next]_vars => [Table!Next]_(Table!vars)
  BY NextImplements
<1>3. QED
  BY <1>1, <1>2, GameInvariant, PTL DEF Spec, TurnOrderSpec, Table!Spec
-----------------------------------------------------------------------------
(* What a bot decides. *)

\* A set of naturals has a least element.
LEMMA LeastNatural ==
    ASSUME NEW S \in SUBSET Nat, S # {}
    PROVE  \E n \in S : \A m \in S : n <= m
<1> DEFINE R == OpToRel(<, Nat)
<1>1. IsWellFoundedOn(R, Nat)
  BY NatLessThanWellFounded, Zenon
<1>2. \A m, n \in Nat : m < n => <<m, n>> \in R
  BY DEF OpToRel
<1> HIDE DEF R
<1>3. S \subseteq Nat
  OBVIOUS
<1>4. \E n \in S : \A m \in S : <<m, n>> \notin R
  BY <1>1, <1>3, WFMin, Zenon
<1>5. PICK n \in S : \A m \in S : <<m, n>> \notin R
  BY <1>4
<1>6. \A m \in S : ~(m < n)
  BY <1>2, <1>3, <1>5, Zenon
<1>7. QED
  BY <1>3, <1>6

\* Sets of cards are finite.
LEMMA SetsOfCards ==
    ASSUME NEW S \in SUBSET Card
    PROVE  IsFiniteSet(S) /\ Cardinality(S) \in Nat
<1>1. IsFiniteSet(Card)
  <2>1. 0 \in Int /\ 51 \in Int
    OBVIOUS
  <2>2. QED
    BY <2>1, FS_Interval, Zenon DEF Card
<1>2. IsFiniteSet(S)
  BY <1>1, FS_Subset
<1>3. QED
  BY <1>2, FS_CardinalityType

\* Each place in the ascending order of S is some card's.
PlacesAreTaken(S) ==
    \A i \in 1 .. Cardinality(S) : \E c \in S : Cardinality({d \in S : d < c}) = i - 1

\* The lowest card comes first, and moves the others on by one.
LEMMA LowestCardFirst ==
    ASSUME NEW S \in SUBSET Card, NEW a \in S, \A d \in S : a <= d,
           PlacesAreTaken(S \ {a})
    PROVE  PlacesAreTaken(S)
<1> DEFINE T == S \ {a}
           Below(X, c) == {d \in X : d < c}
<1>1. Card \subseteq Int
  BY DEF Card
<1>2. Cardinality(T) = Cardinality(S) - 1 /\ Cardinality(S) \in Nat /\ Cardinality(T) \in Nat
  BY SetsOfCards, FS_RemoveElement
<1>3. Cardinality(Below(S, a)) = 0
  <2>1. \A d \in S : d \in Int /\ ~(d < a)
    BY <1>1
  <2>2. Below(S, a) = {}
    BY <2>1
  <2>3. QED
    BY <2>2, FS_EmptySet
<1>4. ASSUME NEW c \in T
      PROVE  Cardinality(Below(S, c)) = Cardinality(Below(T, c)) + 1
  <2>1. Below(S, c) = Below(T, c) \cup {a} /\ a \notin Below(T, c)
    BY <1>1
  <2>2. IsFiniteSet(Below(T, c))
    <3>1. Below(T, c) \in SUBSET Card
      OBVIOUS
    <3>2. QED
      BY <3>1, SetsOfCards
  <2>3. QED
    BY <2>1, <2>2, FS_AddElement
<1>5. ASSUME NEW i \in 1 .. Cardinality(S)
      PROVE  \E c \in S : Cardinality(Below(S, c)) = i - 1
  <2>1. CASE i = 1
    BY <1>3, <2>1
  <2>2. CASE i # 1
    <3>1. i - 1 \in 1 .. Cardinality(T)
      BY <1>2, <2>2
    <3>2. PICK c \in T : Cardinality(Below(T, c)) = i - 1 - 1
      BY <3>1 DEF PlacesAreTaken
    <3>3. QED
      BY <1>4, <3>2
  <2>3. QED
    BY <2>1, <2>2
<1>6. QED
  BY <1>5 DEF PlacesAreTaken

\* A smallest set of cards without a card for each place would keep that with its
\* lowest card taken away.
LEMMA PlacesOfCards == \A S \in SUBSET Card : PlacesAreTaken(S)
<1> DEFINE bad == {Cardinality(S) : S \in {T \in SUBSET Card : ~PlacesAreTaken(T)}}
<1> SUFFICES ASSUME bad # {} PROVE FALSE
  OBVIOUS
<1>1. bad \in SUBSET Nat
  BY SetsOfCards
<1>2. PICK n \in bad : \A m \in bad : n <= m
  BY <1>1, LeastNatural
<1>3. PICK S \in SUBSET Card : Cardinality(S) = n /\ ~PlacesAreTaken(S)
  OBVIOUS
<1>4. S # {}
  <2>1. Cardinality({}) = 0 /\ 1 .. 0 = {}
    BY FS_EmptySet
  <2>2. PlacesAreTaken({})
    BY <2>1 DEF PlacesAreTaken
  <2>3. QED
    BY <1>3, <2>2
<1>5. PICK a \in S : \A d \in S : a <= d
  <2>1. S \in SUBSET Nat
    BY DEF Card
  <2>2. QED
    BY <1>4, <2>1, LeastNatural
<1>6. Cardinality(S \ {a}) = n - 1 /\ n \in Nat
  BY <1>1, <1>3, SetsOfCards, FS_RemoveElement
<1>7. n - 1 \notin bad
  BY <1>1, <1>2, <1>6
<1>8. PlacesAreTaken(S \ {a})
  BY <1>6, <1>7
<1>9. QED
  BY <1>3, <1>5, <1>8, LowestCardFirst

\* The list of a set of cards has these cards only, and is as long.
LEMMA SortedIsAList ==
    ASSUME NEW S \in SUBSET Card
    PROVE  /\ Sorted(S) \in [1 .. Cardinality(S) -> S]
           /\ Sorted(S) \in Seq(Card) /\ Len(Sorted(S)) = Cardinality(S)
           /\ Cards(Sorted(S)) \subseteq S
<1>1. Cardinality(S) \in Nat
  BY SetsOfCards
<1>2. PlacesAreTaken(S)
  BY PlacesOfCards
<1>3. \A i \in 1 .. Cardinality(S) : Sorted(S)[i] \in S
  BY <1>2 DEF PlacesAreTaken, Sorted
<1>4. Sorted(S) \in [1 .. Cardinality(S) -> S]
  BY <1>3 DEF Sorted
<1>5. DOMAIN Sorted(S) = 1 .. Cardinality(S)
  BY <1>4
<1>6. Sorted(S) \in Seq(Card) /\ Len(Sorted(S)) = Cardinality(S)
  <2> DEFINE f == Sorted(S)
             n == Cardinality(S)
  <2>1. f \in [1 .. n -> Card] /\ n \in Nat
    BY <1>1, <1>4
  <2> HIDE DEF f, n
  <2>2. f \in Seq(Card) /\ DOMAIN f = 1 .. n
    BY <2>1, SeqDef
  <2>3. DOMAIN f = 1 .. Len(f) /\ Len(f) \in Nat
    BY <2>2, LenProperties
  <2>4. Len(f) = n
    BY <2>1, <2>2, <2>3
  <2>5. QED
    BY <2>2, <2>4 DEF f, n
<1>7. QED
  BY <1>3, <1>4, <1>5, <1>6 DEF Cards

\* The ranks of a list add up.
LEMMA RankSumIsANumber ==
    ASSUME NEW cs \in Seq(Card)
    PROVE  RankSum(cs) \in Nat
<1> DEFINE places == DOMAIN cs
           upTo == 1 .. 12
           sum == UNION {{i} \X (1 .. RankOf(cs[i])) : i \in places}
<1>1. places = 1 .. Len(cs) /\ Len(cs) \in Nat
  BY LenProperties
<1>2. IsFiniteSet(places)
  BY <1>1, FS_Interval
<1>3. 1 \in Int /\ 12 \in Int
  OBVIOUS
<1>4. IsFiniteSet(upTo)
  BY <1>3, FS_Interval, Zenon
<1>5. \A i \in places : 1 .. RankOf(cs[i]) \subseteq upTo
  <2>1. \A c \in Card : 1 .. RankOf(c) \subseteq upTo
    BY DEF Card, RankOf
  <2>2. \A i \in places : cs[i] \in Card
    OBVIOUS
  <2>3. QED
    BY <2>1, <2>2
<1>6. sum \subseteq places \X upTo
  BY <1>5
<1>7. RankSum(cs) = Cardinality(sum)
  BY DEF RankSum
<1> HIDE DEF places, upTo, sum
<1>8. IsFiniteSet(places \X upTo)
  BY <1>2, <1>4, FS_Product
<1>9. IsFiniteSet(sum)
  BY <1>6, <1>8, FS_Subset
<1>10. QED
  BY <1>7, <1>9, FS_CardinalityType

\* Of some lists of one length, one comes first in the order of Vec<Card>.
LEMMA FirstInOrder ==
    ASSUME NEW n \in Nat, NEW T \in SUBSET [1 .. n -> Card], T # {}
    PROVE  \E m \in T : \A x \in T \ {m} : Before(m, x)
<1> DEFINE R == OpToRel(<, Nat)
           Lex == LexProductOrdering(R, Nat, n)
<1>1. IsWellFoundedOn(R, Nat)
  BY NatLessThanWellFounded, Zenon
<1>2. \A a, b \in Nat : a < b => <<a, b>> \in R
  BY DEF OpToRel
<1> HIDE DEF R
<1>3. IsWellFoundedOn(Lex, [1 .. n -> Nat])
  BY <1>1, WFLexProductOrdering, Zenon
<1>4. Card \subseteq Nat
  BY DEF Card
<1>5. T \subseteq [1 .. n -> Nat]
  BY <1>4
<1>6. \A a, b \in T :
          (\E j \in 1 .. n : (\A i \in 1 .. j - 1 : a[i] = b[i]) /\ a[j] < b[j])
          => <<a, b>> \in Lex
  <2> SUFFICES ASSUME NEW a \in T, NEW b \in T, NEW j \in 1 .. n,
                      \A i \in 1 .. j - 1 : a[i] = b[i], a[j] < b[j]
               PROVE  <<a, b>> \in Lex
    OBVIOUS
  <2>1. a \in [1 .. n -> Nat] /\ b \in [1 .. n -> Nat]
    BY <1>5
  <2>2. <<a[j], b[j]>> \in R
    BY <1>2, <2>1
  <2>3. QED
    BY <2>1, <2>2 DEF LexProductOrdering
<1> HIDE DEF Lex
<1>7. PICK m \in T : \A x \in T : <<x, m>> \notin Lex
  BY <1>3, <1>5, WFMin, Zenon
<1>8. ASSUME NEW x \in T \ {m} PROVE Before(m, x)
  <2> DEFINE D == {i \in 1 .. n : m[i] # x[i]}
  <2>1. m \in [1 .. n -> Nat] /\ x \in [1 .. n -> Nat]
    BY <1>5
  <2>2. D # {}
    <3>1. (\A i \in 1 .. n : m[i] = x[i]) => m = x
      BY <2>1
    <3>2. QED
      BY <3>1
  <2>3. D \in SUBSET Nat
    OBVIOUS
  <2>4. PICK j \in D : \A i \in D : j <= i
    BY <2>2, <2>3, LeastNatural
  <2>5. j \in 1 .. n /\ \A i \in 1 .. j - 1 : m[i] = x[i]
    BY <2>4
  <2>6. m[j] \in Nat /\ x[j] \in Nat /\ m[j] # x[j]
    BY <2>1, <2>4
  <2>7. ~(x[j] < m[j])
    BY <1>6, <1>7, <2>5
  <2>8. m[j] < x[j]
    BY <2>6, <2>7
  <2>9. QED
    BY <2>1, <2>5, <2>8 DEF Before
<1>9. QED
  BY <1>8

\* Thirty times the average of a list of n cards.
Weight(k, n) == k * (IF n = 1 THEN 30 ELSE IF n = 2 THEN 15 ELSE IF n = 3 THEN 10 ELSE 6)

\* Averages of lists of one length compare as their sums do.
LEMMA SumsOfOneLength ==
    \A k, l \in Nat, n \in HandSize : k * n < l * n <=> k < l
BY DEF HandSize

\* Averages of lists of any length compare as their weights do.
LEMMA WeightsCompare ==
    ASSUME NEW k \in Nat, NEW l \in Nat, NEW n \in HandSize, NEW o \in HandSize
    PROVE  /\ Weight(k, n) \in Nat
           /\ Weight(k, n) <= Weight(l, o) => ~(l * n < k * o)
<1>1. CASE n = 1
  BY <1>1 DEF Weight, HandSize
<1>2. CASE n = 2
  BY <1>2 DEF Weight, HandSize
<1>3. CASE n = 3
  BY <1>3 DEF Weight, HandSize
<1>4. CASE n = 5
  BY <1>4 DEF Weight, HandSize
<1>5. QED
  BY <1>1, <1>2, <1>3, <1>4 DEF HandSize

\* Of the moves of one size BestOfSize is the one that comes before the others.
LEMMA BestIsAMove ==
    ASSUME NEW moves \in SUBSET Seq(Card), NEW size \in HandSize,
           NEW y \in moves, Len(y) = size
    PROVE  BestOfSize(moves, size) \in moves /\ Len(BestOfSize(moves, size)) = size
<1> DEFINE Sized == {x \in moves : Len(x) = size}
           sums == {RankSum(x) : x \in Sized}
<1>1. size \in Nat /\ size > 0
  BY DEF HandSize
<1>2. sums \in SUBSET Nat /\ sums # {}
  BY RankSumIsANumber
<1>3. PICK low \in sums : \A k \in sums : low <= k
  BY <1>2, LeastNatural
<1> DEFINE lowest == {x \in Sized : RankSum(x) = low}
<1>4. lowest # {}
  OBVIOUS
<1>5. lowest \subseteq [1 .. size -> Card]
  <2>1. \A x \in Seq(Card) : x \in [1 .. Len(x) -> Card]
    BY LenProperties, SeqDef
  <2>2. QED
    BY <2>1
<1>6. PICK m \in lowest : \A x \in lowest \ {m} : Before(m, x)
  <2> HIDE DEF lowest
  <2>1. lowest \in SUBSET [1 .. size -> Card]
    BY <1>5
  <2>2. QED
    BY <1>1, <1>4, <2>1, FirstInOrder, SMTT(30)
<1>7. ASSUME NEW x \in moves \ {m}, Len(x) = size
      PROVE  LowerAverage(m, x) \/ (~LowerAverage(x, m) /\ Before(m, x))
  <2>1. /\ RankSum(m) = low /\ RankSum(x) \in sums /\ RankSum(m) \in Nat /\ RankSum(x) \in Nat
        /\ Len(m) = size
    BY <1>2, <1>7
  <2>2. CASE RankSum(x) = low
    <3>1. Before(m, x)
      BY <1>6, <1>7, <2>2
    <3>2. ~LowerAverage(x, m)
      BY <1>7, <2>1, <2>2, SumsOfOneLength DEF LowerAverage
    <3>3. QED
      BY <3>1, <3>2
  <2>3. CASE RankSum(x) # low
    <3>1. low < RankSum(x)
      <4> HIDE DEF sums
      <4>1. QED
        BY <1>3, <2>1, <2>3
    <3>2. LowerAverage(m, x)
      BY <1>7, <2>1, <3>1, SumsOfOneLength DEF LowerAverage
    <3>3. QED
      BY <3>2
  <2>4. QED
    BY <2>2, <2>3
<1>8. m \in Sized
  OBVIOUS
<1>9. \E z \in Sized : \A x \in moves \ {z} : Len(x) = size =>
          LowerAverage(z, x) \/ (~LowerAverage(x, z) /\ Before(z, x))
  BY <1>7, <1>8
<1>10. BestOfSize(moves, size) \in Sized
  BY <1>9 DEF BestOfSize
<1>11. QED
  BY <1>10

\* The basic strategy finds a move among the legal ones if there are any.
LEMMA ChoosesOne ==
    ASSUME NEW moves \in SUBSET Seq(Card), \A x \in moves : Len(x) \in HandSize
    PROVE  /\ ChooseBestMove(moves) \subseteq moves
           /\ moves # {} => ChooseBestMove(moves) # {}
<1> DEFINE best == {BestOfSize(moves, size) : size \in {Len(x) : x \in moves}}
<1>1. best \subseteq moves
  BY BestIsAMove
<1>2. ChooseBestMove(moves) \subseteq best
  BY DEF ChooseBestMove
<1>3. ASSUME moves # {} PROVE ChooseBestMove(moves) # {}
  <2> DEFINE weights == {Weight(RankSum(x), Len(x)) : x \in best}
  <2>1. \A x \in best : RankSum(x) \in Nat /\ Len(x) \in HandSize
    BY <1>1, RankSumIsANumber
  <2>2. weights \in SUBSET Nat /\ weights # {}
    <3>1. \A x \in best : Weight(RankSum(x), Len(x)) \in Nat
      BY <2>1, WeightsCompare
    <3>2. best # {}
      BY <1>3
    <3> HIDE DEF best
    <3>3. QED
      BY <3>1, <3>2
  <2>3. PICK w \in weights : \A v \in weights : w <= v
    BY <2>2, LeastNatural
  <2>4. PICK m \in best : Weight(RankSum(m), Len(m)) = w
    OBVIOUS
  <2>5. ASSUME NEW x \in best PROVE ~LowerAverage(x, m)
    <3>1. Weight(RankSum(m), Len(m)) <= Weight(RankSum(x), Len(x))
      BY <2>3, <2>4
    <3>2. /\ RankSum(x) \in Nat /\ RankSum(m) \in Nat
          /\ Len(x) \in HandSize /\ Len(m) \in HandSize
      BY <2>1, <2>4
    <3> HIDE DEF best
    <3>3. QED
      BY <3>1, <3>2, WeightsCompare DEF LowerAverage
  <2>6. QED
    BY <2>4, <2>5 DEF ChooseBestMove
<1>4. QED
  BY <1>1, <1>2, <1>3

\* What a bot goes by in its turn.
BotInv ==
    /\ hand \in [Seat -> SUBSET Card] /\ current_turn \in Seat
    /\ consecutive_passes \in 0 .. 3
    /\ ~opened => /\ standing = <<>> /\ consecutive_passes = 0
                  /\ ThreeOfDiamonds \in hand[current_turn]

\* The three of diamonds is the first seat's.
LEMMA ThreeOfDiamondsLeads ==
    ASSUME NEW d \in Deals
    PROVE  ThreeOfDiamonds \in Rotated(d)[0]
<1>1. d \in [Seat -> SUBSET Card] /\ \E s \in Seat : ThreeOfDiamonds \in d[s]
  BY DealsAssumption
<1> DEFINE f == CHOOSE s \in Seat : ThreeOfDiamonds \in d[s]
<1>2. f \in Seat /\ ThreeOfDiamonds \in d[f]
  BY <1>1
<1>3. Rotated(d) = [s \in Seat |-> d[(s + f) % 4]]
  BY DEF Rotated
<1> HIDE DEF f
<1>4. (0 + f) % 4 = f /\ 0 \in Seat
  BY <1>2 DEF Seat
<1>5. QED
  BY <1>2, <1>3, <1>4

\* The invariant holds of a fresh deal, whoever is a bot, and of every step.
LEMMA TableInitInv == TableInit => BotInv
<1> SUFFICES ASSUME NEW d \in Deals, hand = Rotated(d), current_turn = 0,
                    consecutive_passes = 0, opened = FALSE, standing = <<>>
             PROVE  BotInv
  BY DEF TableInit, Init
<1>1. hand \in [Seat -> SUBSET Card] /\ ThreeOfDiamonds \in hand[current_turn]
  BY RotatedDeal, ThreeOfDiamondsLeads
<1>2. QED
  BY <1>1 DEF BotInv, Seat

LEMMA TableNextInv == BotInv /\ [TableNext]_tableVars => BotInv'
<1> SUFFICES ASSUME BotInv, [TableNext]_tableVars PROVE BotInv'
  OBVIOUS
<1>1. ASSUME NEW s \in Seat, HandlePass(s) PROVE BotInv'
  BY <1>1, SeatsGoRound DEF BotInv, HandlePass
<1>2. ASSUME NEW s \in Seat, NEW cards, HandleCardPlay(s, cards) PROVE BotInv'
  <2>1. hand' \in [Seat -> SUBSET Card]
    BY <1>2 DEF BotInv, HandleCardPlay, Without
  <2>2. current_turn' \in Seat
    BY <1>2, SeatsGoRound DEF HandleCardPlay, TurnAfterPlay
  <2>3. QED
    BY <1>2, <2>1, <2>2 DEF BotInv, HandleCardPlay
<1>3. CASE UNCHANGED tableVars
  BY <1>3 DEF BotInv, tableVars, vars
<1>4. QED
  BY <1>1, <1>2, <1>3 DEF TableNext, BotPlays, Plays

\* The combinations of a hand, and what is known of one that is legal.
LEMMA CombinationsAreLists ==
    ASSUME NEW S \in SUBSET Card, NEW size \in Nat, NEW m \in Combinations(S, size)
    PROVE  m \in Seq(Card) /\ Len(m) = size /\ Cards(m) \subseteq S
<1>1. PICK T \in SUBSET S : Cardinality(T) = size /\ m = Sorted(T)
  BY DEF Combinations, kSubset
<1>2. T \in SUBSET Card
  OBVIOUS
<1>3. QED
  BY <1>1, <1>2, SortedIsAList

\* One card is a combination.
LEMMA SinglesAreCombinations ==
    ASSUME NEW S \in SUBSET Card, NEW c \in S
    PROVE  \E m \in Combinations(S, 1) :
               FromCards(m) # NotAHand /\ (c = ThreeOfDiamonds => ThreeOfDiamonds \in Cards(m))
<1> DEFINE m == Sorted({c})
<1>1. Cardinality({c}) = 1
  BY FS_Singleton
<1>2. m \in Combinations(S, 1)
  BY <1>1 DEF Combinations, kSubset
<1>3. {c} \in SUBSET Card
  OBVIOUS
<1>4. m \in [1 .. 1 -> {c}] /\ m \in Seq(Card) /\ Len(m) = 1
  BY <1>1, <1>3, SortedIsAList
<1> HIDE DEF m
<1>5. m[1] = c /\ 1 \in DOMAIN m
  BY <1>4
<1>6. FromCards(m) # NotAHand
  BY <1>4 DEF FromCards, Hand, NotAHand
<1>7. QED
  BY <1>2, <1>5, <1>6 DEF Cards

\* What the strategy takes for legal is what the game accepts, of the sizes it looks at.
LEMMA LegalIsAccepted ==
    ASSUME BotInv, NEW cards
    PROVE  LET s == current_turn
           IN  Accepts(s, cards) <=> IsValidMove(cards) /\ Cards(cards) \subseteq hand[s]
BY DEF BotInv, Accepts, IsValidMove, BeatsTable, OwnsCards, FirstTurnRule

\* Every legal move is a list of cards that the game accepts.
LEMMA LegalMovesFacts ==
    ASSUME BotInv
    PROVE  LET legal == LegalMoves(current_turn)
           IN  /\ legal \in SUBSET Seq(Card)
               /\ \A m \in legal : Len(m) \in HandSize /\ Accepts(current_turn, m)
<1>1. ASSUME NEW m \in LegalMoves(current_turn)
      PROVE  m \in Seq(Card) /\ Len(m) \in HandSize /\ Accepts(current_turn, m)
  <2>1. PICK size \in HandSize : m \in Combinations(hand[current_turn], size) /\ IsValidMove(m)
    BY DEF LegalMoves, OrderedMoves, HandSize
  <2>2. hand[current_turn] \in SUBSET Card /\ size \in Nat
    BY DEF BotInv, HandSize
  <2>3. m \in Seq(Card) /\ Len(m) = size /\ Cards(m) \subseteq hand[current_turn]
    BY <2>1, <2>2, CombinationsAreLists
  <2>4. QED
    BY <2>1, <2>3, LegalIsAccepted
<1>2. QED
  BY <1>1

\* Nothing is legal only where a pass is.
LEMMA NothingLegal ==
    ASSUME BotInv, ~IsFinished, LegalMoves(current_turn) = {}
    PROVE  /\ consecutive_passes < 3 /\ opened
           /\ \A size \in 1 .. 5 : \A m \in Combinations(hand[current_turn], size) :
                 ~Accepts(current_turn, m)
<1> DEFINE S == hand[current_turn]
<1>1. S \in SUBSET Card /\ S # {}
  BY DEF BotInv, IsFinished
<1>2. \A size \in HandSize : \A m \in Combinations(S, size) : ~IsValidMove(m)
  BY DEF LegalMoves, OrderedMoves, HandSize
<1>3. opened
  <2> SUFFICES ASSUME ~opened PROVE FALSE
    OBVIOUS
  <2>1. ThreeOfDiamonds \in S
    BY DEF BotInv
  <2>2. PICK m \in Combinations(S, 1) :
            FromCards(m) # NotAHand /\ ThreeOfDiamonds \in Cards(m)
    BY <1>1, <2>1, SinglesAreCombinations
  <2>3. IsValidMove(m)
    BY <2>2 DEF IsValidMove
  <2>4. QED
    BY <1>2, <2>3 DEF HandSize
<1>4. consecutive_passes < 3
  <2> SUFFICES ASSUME consecutive_passes = 3 PROVE FALSE
    BY DEF BotInv
  <2>1. PICK m \in Combinations(S, 1) : FromCards(m) # NotAHand
    BY <1>1, SinglesAreCombinations
  <2>2. IsValidMove(m)
    BY <1>3, <2>1 DEF IsValidMove
  <2>3. QED
    BY <1>2, <2>2 DEF HandSize
<1>5. ASSUME NEW size \in 1 .. 5, NEW m \in Combinations(S, size), Accepts(current_turn, m)
      PROVE  FALSE
  <2>1. CASE size \in HandSize
    BY <1>2, <1>5, <2>1, LegalIsAccepted
  <2>2. CASE size = 4
    <3> HIDE DEF S
    <3>1. size \in Nat
      OBVIOUS
    <3>2. Len(m) = size
      BY <1>1, <3>1, CombinationsAreLists
    <3>3. FromCards(m) = NotAHand
      BY <2>2, <3>2 DEF FromCards
    <3>4. QED
      BY <1>5, <3>3 DEF Accepts
  <2>3. QED
    BY <2>1, <2>2 DEF HandSize
<1>6. QED
  BY <1>3, <1>4, <1>5

\* What bots decide, in a state of the invariant.
LEMMA BotsDecide ==
    ASSUME BotInv, ~IsFinished
    PROVE  /\ BotsDecideWell
           /\ BasicDecisions(LegalMoves(current_turn)) # {}
<1> DEFINE legal == LegalMoves(current_turn)
<1>1. legal \in SUBSET Seq(Card) /\ \A m \in legal : Len(m) \in HandSize
  BY LegalMovesFacts
<1>2. \A m \in legal : Accepts(current_turn, m) /\ m # <<>>
  <2>1. \A m \in legal : m # <<>>
    <3> HIDE DEF legal
    <3>1. Len(<<>>) \notin HandSize
      BY DEF HandSize
    <3>2. QED
      BY <1>1, <3>1
  <2>2. QED
    BY <2>1, LegalMovesFacts
<1>3. legal = {} => /\ consecutive_passes < 3 /\ opened
                    /\ \A size \in 1 .. 5 : \A m \in Combinations(hand[current_turn], size) :
                          ~Accepts(current_turn, m)
  BY NothingLegal
<1> HIDE DEF legal
<1>4. /\ ChooseBestMove(legal) \subseteq legal
      /\ legal # {} => ChooseBestMove(legal) # {}
  BY <1>1, ChoosesOne
<1>5. \A m \in BasicDecisions(legal) : IF m = <<>> THEN legal = {} ELSE m \in legal
  BY <1>2, <1>4 DEF BasicDecisions
<1>6. BasicDecisions(legal) # {}
  BY <1>4 DEF BasicDecisions
<1>7. ASSUME NEW answer, NEW m \in AiDecisions(legal, answer)
      PROVE  IF m = <<>> THEN legal = {} \/ (consecutive_passes < 3 /\ opened) ELSE m \in legal
  <2>1. CASE answer = <<>> /\ AllowPass
    BY <1>7, <2>1 DEF AiDecisions, AllowPass
  <2>2. CASE ~(answer = <<>> /\ AllowPass) /\ answer \in legal
    BY <1>2, <1>7, <2>2 DEF AiDecisions
  <2>3. CASE ~(answer = <<>> /\ AllowPass) /\ answer \notin legal
    BY <1>5, <1>7, <2>3 DEF AiDecisions
  <2>4. QED
    BY <2>1, <2>2, <2>3
<1>8. \A m \in Decisions(legal) : IF m = <<>> THEN consecutive_passes < 3 /\ opened
                                  ELSE Accepts(current_turn, m)
  BY <1>2, <1>3, <1>5, <1>7 DEF Decisions
<1>9. QED
  BY <1>3, <1>6, <1>8 DEF BotsDecideWell, legal

\* A bot that is asked in its turn decides on a move the game accepts, for every deal,
\* every history of the table and every answer of the service: the strategies check
\* legality for themselves, and the game checks it again.
THEOREM BotDecisionsAreAccepted == TableSpec => []BotsDecideWell
<1>1. BotInv => BotsDecideWell
  BY BotsDecide DEF BotsDecideWell
<1>2. QED
  BY <1>1, TableInitInv, TableNextInv, PTL DEF TableSpec

\* The basic strategy, which the others fall back to, always comes to a decision:
\* where moves are legal one of them has the lowest average, and none before it.
THEOREM BotsAlwaysDecide ==
    TableSpec => [](~IsFinished => BasicDecisions(LegalMoves(current_turn)) # {})
<1>1. BotInv => (~IsFinished => BasicDecisions(LegalMoves(current_turn)) # {})
  BY BotsDecide
<1>2. QED
  BY <1>1, TableInitInv, TableNextInv, PTL DEF TableSpec

-----------------------------------------------------------------------------
(* The hands against the rules of the README (HandRules).  The code works on  *)
(* a list in the order the client sent, the rules on its set of cards.  What  *)
(* both see of five cards is laid side by side: the runs, the suits, and how  *)
(* many cards each rank has.                                                 *)

\* A card is its rank and its suit.
LEMMA CardParts ==
    ASSUME NEW c \in Card
    PROVE  /\ c \in Int /\ RankOf(c) \in 0 .. 12 /\ SuitOf(c) \in 0 .. 3
           /\ c = 4 * RankOf(c) + SuitOf(c)
BY DEF Card, RankOf, SuitOf

\* Two sets that a function matches one to one have as many elements.
LEMMA Matched ==
    ASSUME NEW A, IsFiniteSet(A), NEW B, NEW h,
           \A a \in A : h[a] \in B,
           \A a, b \in A : h[a] = h[b] => a = b,
           \A b \in B : \E a \in A : h[a] = b
    PROVE  IsFiniteSet(B) /\ Cardinality(B) = Cardinality(A)
<1> DEFINE f == [a \in A |-> h[a]]
<1>1. f \in [A -> B] /\ DOMAIN f = A /\ \A a \in A : f[a] = h[a]
  OBVIOUS
<1> HIDE DEF f
<1>2. f \in Injection(A, B)
  BY <1>1 DEF Injection, IsInjective
<1>3. f \in Surjection(A, B)
  BY <1>1 DEF Surjection
<1>4. ExistsBijection(A, B)
  BY <1>2, <1>3 DEF ExistsBijection, Bijection
<1>5. QED
  BY <1>4, FS_Bijection

\* A list of the cards of S, each once, in any order.
IsListOf(cs, S) ==
    /\ cs \in Seq(Card) /\ Cards(cs) = S /\ Len(cs) = Cardinality(S)
    /\ \A i, j \in DOMAIN cs : cs[i] = cs[j] => i = j

OfRank(S, r) == {c \in S : RankOf(c) = r}
SuitSet(S) == {SuitOf(c) : c \in S}

\* Ranks and suits of a list are those of its cards, and so are the copies of a rank.
LEMMA ListAndSet ==
    ASSUME NEW S \in SUBSET Card, NEW cs, IsListOf(cs, S)
    PROVE  /\ Ranks(cs) = RankSet(S) /\ Suits(cs) = SuitSet(S)
           /\ \A r : Copies(cs, r) = Cardinality(OfRank(S, r))
<1>1. /\ cs \in Seq(Card) /\ DOMAIN cs = 1 .. Len(cs) /\ Len(cs) \in Nat
      /\ \A i \in DOMAIN cs : cs[i] \in S
      /\ \A c \in S : \E i \in DOMAIN cs : cs[i] = c
      /\ \A i, j \in DOMAIN cs : cs[i] = cs[j] => i = j
  BY DEF IsListOf, Cards
<1>2. Ranks(cs) = RankSet(S)
  BY <1>1 DEF Ranks, RankSet
<1>3. Suits(cs) = SuitSet(S)
  BY <1>1 DEF Suits, SuitSet
<1>4. ASSUME NEW r PROVE Copies(cs, r) = Cardinality(OfRank(S, r))
  <2> DEFINE A == {i \in DOMAIN cs : RankOf(cs[i]) = r}
  <2>1. IsFiniteSet(A)
    <3>1. 1 \in Int /\ Len(cs) \in Int
      BY <1>1
    <3>2. IsFiniteSet(1 .. Len(cs))
      BY <3>1, FS_Interval
    <3>3. QED
      BY <1>1, <3>2, FS_Subset
  <2>2. \A i \in A : cs[i] \in OfRank(S, r)
    BY <1>1 DEF OfRank
  <2>3. \A c \in OfRank(S, r) : \E i \in A : cs[i] = c
    BY <1>1 DEF OfRank
  <2>4. \A i, j \in A : cs[i] = cs[j] => i = j
    BY <1>1
  <2> HIDE DEF A
  <2>5. Cardinality(OfRank(S, r)) = Cardinality(A)
    BY <2>1, <2>2, <2>3, <2>4, Matched
  <2>6. QED
    BY <2>5 DEF Copies, A
<1>5. QED
  BY <1>2, <1>3, <1>4

\* The list in ascending order is one.
LEMMA SortedLists ==
    ASSUME NEW S \in SUBSET Card
    PROVE  IsListOf(Sorted(S), S)
<1> DEFINE n == Cardinality(S)
           f == Sorted(S)
<1>1. f \in [1 .. n -> S] /\ f \in Seq(Card) /\ Len(f) = n /\ Cards(f) \subseteq S
  BY SortedIsAList
<1>2. n \in Nat /\ IsFiniteSet(S)
  BY SetsOfCards
<1>3. \A i \in 1 .. n : Cardinality({d \in S : d < f[i]}) = i - 1
  <2>1. \A i \in 1 .. n : \E c \in S : Cardinality({d \in S : d < c}) = i - 1
    BY PlacesOfCards DEF PlacesAreTaken
  <2>2. \A i \in 1 .. n : f[i] = CHOOSE c \in S : Cardinality({d \in S : d < c}) = i - 1
    BY DEF Sorted
  <2>3. QED
    BY <2>1, <2>2
<1>4. DOMAIN f = 1 .. n
  BY <1>1
<1> HIDE DEF f
<1>5. \A i, j \in 1 .. n : f[i] = f[j] => i = j
  <2>1. ASSUME NEW i \in 1 .. n, NEW j \in 1 .. n, f[i] = f[j] PROVE i = j
    <3>1. i - 1 = j - 1
      BY <1>3, <2>1
    <3>2. QED
      BY <1>2, <3>1
  <2>2. QED
    BY <2>1
<1>6. Cards(f) = S
  <2>1. f \in Injection(1 .. n, S)
    BY <1>1, <1>5 DEF Injection, IsInjective
  <2>2. IsFiniteSet(1 .. n) /\ Cardinality(1 .. n) = n
    <3>1. 1 \in Int /\ n \in Int
      BY <1>2
    <3> HIDE DEF n
    <3>2. IsFiniteSet(1 .. n) /\ Cardinality(1 .. n) = IF 1 > n THEN 0 ELSE n - 1 + 1
      BY <3>1, FS_Interval
    <3>3. QED
      BY <1>2, <3>2
  <2>3. f \in Surjection(1 .. n, S)
    BY <1>2, <2>1, <2>2, FS_Injection
  <2>4. \A c \in S : \E i \in 1 .. n : f[i] = c
    BY <2>3 DEF Surjection
  <2>5. QED
    BY <1>1, <1>4, <2>4 DEF Cards
<1>7. QED
  BY <1>1, <1>4, <1>5, <1>6 DEF IsListOf, f

\* There are four cards of a rank.
LEMMA FourOfARank ==
    ASSUME NEW S \in SUBSET Card, NEW r
    PROVE  /\ IsFiniteSet(OfRank(S, r)) /\ Cardinality(OfRank(S, r)) \in Nat
           /\ Cardinality(OfRank(S, r)) <= 4
           /\ Cardinality(OfRank(S, r)) > 0 => r \in RankSet(S) /\ r \in 0 .. 12
<1>1. OfRank(S, r) \in SUBSET Card
  BY DEF OfRank
<1>2. IsFiniteSet(OfRank(S, r)) /\ Cardinality(OfRank(S, r)) \in Nat
  BY <1>1, SetsOfCards
<1>3. CASE OfRank(S, r) = {}
  BY <1>3, FS_EmptySet
<1>4. CASE OfRank(S, r) # {}
  <2>1. PICK c \in S : RankOf(c) = r
    BY <1>4 DEF OfRank
  <2>2. r \in RankSet(S) /\ r \in 0 .. 12
    BY <2>1, CardParts DEF RankSet
  <2> DEFINE a == 4 * r
             b == a + 3
  <2>3. a \in Int /\ b \in Int /\ b = a + 3
    BY <2>2
  <2>4. OfRank(S, r) \subseteq a .. b
    <3>1. ASSUME NEW d \in OfRank(S, r) PROVE d \in a .. b
      <4>1. d \in Card /\ RankOf(d) = r
        BY DEF OfRank
      <4>2. d \in Int /\ SuitOf(d) \in 0 .. 3 /\ d = 4 * r + SuitOf(d)
        BY <4>1, CardParts
      <4>3. QED
        BY <2>2, <4>2
    <3>2. QED
      BY <3>1
  <2> HIDE DEF a, b
  <2>5. IsFiniteSet(a .. b) /\ Cardinality(a .. b) = 4
    <3>1. IsFiniteSet(a .. b) /\ Cardinality(a .. b) = IF a > b THEN 0 ELSE b - a + 1
      BY <2>3, FS_Interval
    <3>2. QED
      BY <2>3, <3>1
  <2>6. Cardinality(OfRank(S, r)) <= 4
    BY <2>4, <2>5, FS_Subset
  <2>7. QED
    BY <1>2, <2>2, <2>6
<1>5. QED
  BY <1>2, <1>3, <1>4

\* The rules' runs are the code's straights.
LEMMA RunsAre ==
    /\ Run(1) = AceLow /\ Run(2) = TwoLow
    /\ \A low \in 3 .. 10 : Run(low) = low - 3 .. low + 1
    /\ AceHigh = Run(10)
<1>1. \A low : Run(low) = {RankOfFace(v) : v \in low .. low + 4}
  BY DEF Run
<1>2. Run(1) = AceLow
  <2>1. 1 .. 1 + 4 = {1, 2, 3, 4, 5}
    OBVIOUS
  <2>2. /\ RankOfFace(1) = 11 /\ RankOfFace(2) = 12 /\ RankOfFace(3) = 0
        /\ RankOfFace(4) = 1 /\ RankOfFace(5) = 2
    BY DEF RankOfFace
  <2>3. Run(1) = {RankOfFace(v) : v \in {1, 2, 3, 4, 5}}
    BY <1>1, <2>1
  <2>4. QED
    BY <2>2, <2>3 DEF AceLow
<1>3. Run(2) = TwoLow
  <2>1. 2 .. 2 + 4 = {2, 3, 4, 5, 6}
    OBVIOUS
  <2>2. /\ RankOfFace(2) = 12 /\ RankOfFace(3) = 0
        /\ RankOfFace(4) = 1 /\ RankOfFace(5) = 2 /\ RankOfFace(6) = 3
    BY DEF RankOfFace
  <2>3. Run(2) = {RankOfFace(v) : v \in {2, 3, 4, 5, 6}}
    BY <1>1, <2>1
  <2>4. QED
    BY <2>2, <2>3 DEF TwoLow
<1>4. ASSUME NEW low \in 3 .. 10 PROVE Run(low) = low - 3 .. low + 1
  <2>1. \A v \in low .. low + 4 : RankOfFace(v) = v - 3
    BY DEF RankOfFace
  <2>2. \A x \in Run(low) : x \in low - 3 .. low + 1
    BY <1>1, <2>1
  <2>3. ASSUME NEW x \in low - 3 .. low + 1 PROVE x \in Run(low)
    <3>1. x + 3 \in low .. low + 4 /\ RankOfFace(x + 3) = x
      <4>1. x + 3 \in low .. low + 4 /\ x + 3 - 3 = x
        OBVIOUS
      <4>2. QED
        BY <2>1, <4>1
    <3>2. QED
      BY <1>1, <3>1
  <2>4. QED
    BY <2>2, <2>3
<1>5. AceHigh = Run(10)
  <2>1. Run(10) = 10 - 3 .. 10 + 1
    BY <1>4
  <2>2. QED
    BY <2>1 DEF AceHigh
<1>6. QED
  BY <1>2, <1>3, <1>4, <1>5

\* A run has five ranks.
LEMMA FiveRanksInARun ==
    ASSUME NEW low \in 1 .. 10
    PROVE  IsFiniteSet(Run(low)) /\ Cardinality(Run(low)) = 5
<1> DEFINE h == [v \in low .. low + 4 |-> RankOfFace(v)]
           b == low + 4
<1>1. low \in Int /\ b \in Int /\ b - low + 1 = 5 /\ ~(low > b)
  OBVIOUS
<1>2. \A v, w \in low .. b : h[v] = h[w] => v = w
  <2>1. \A v \in low .. b : h[v] = RankOfFace(v)
    OBVIOUS
  <2>2. \A v, w \in low .. b : (v + 10) % 13 = (w + 10) % 13 => v = w
    OBVIOUS
  <2>3. QED
    BY <2>1, <2>2 DEF RankOfFace
<1>3. \A v \in low .. b : h[v] \in Run(low)
  BY DEF Run
<1>4. \A x \in Run(low) : \E v \in low .. b : h[v] = x
  BY DEF Run
<1> HIDE DEF h, b
<1>5. IsFiniteSet(low .. b) /\ Cardinality(low .. b) = 5
  <2>1. IsFiniteSet(low .. b) /\ Cardinality(low .. b) = IF low > b THEN 0 ELSE b - low + 1
    BY <1>1, FS_Interval
  <2>2. QED
    BY <1>1, <2>1
<1>6. IsFiniteSet(low .. b)
  BY <1>5
<1>7. IsFiniteSet(Run(low)) /\ Cardinality(Run(low)) = Cardinality(low .. b)
  BY <1>2, <1>3, <1>4, <1>6, Matched
<1>8. QED
  BY <1>5, <1>7

LEMMA StraightsAreRuns ==
    ASSUME NEW S \in SUBSET Card, NEW cs, IsListOf(cs, S)
    PROVE  IsStraight(cs) <=> RuleStraight(S)
<1>1. Ranks(cs) = RankSet(S)
  BY ListAndSet
<1>2. ASSUME IsStraight(cs) PROVE RuleStraight(S)
  <2>1. CASE Ranks(cs) = AceLow
    <3>1. RankSet(S) = Run(1) /\ 1 \in 1 .. 10
      BY <1>1, <2>1, RunsAre
    <3>2. QED
      BY <3>1 DEF RuleStraight
  <2>2. CASE Ranks(cs) = TwoLow
    <3>1. RankSet(S) = Run(2) /\ 2 \in 1 .. 10
      BY <1>1, <2>2, RunsAre
    <3>2. QED
      BY <3>1 DEF RuleStraight
  <2>3. CASE Ranks(cs) = AceHigh
    <3>1. RankSet(S) = Run(10) /\ 10 \in 1 .. 10
      BY <1>1, <2>3, RunsAre
    <3>2. QED
      BY <3>1 DEF RuleStraight
  <2>4. ASSUME NEW r \in 0 .. 6, Ranks(cs) = r .. r + 4 PROVE RuleStraight(S)
    <3> DEFINE low == r + 3
    <3>1. low \in 3 .. 10 /\ low \in 1 .. 10 /\ low - 3 = r /\ low + 1 = r + 4
      OBVIOUS
    <3> HIDE DEF low
    <3>2. Run(low) = low - 3 .. low + 1
      BY <3>1, RunsAre
    <3>3. RankSet(S) = Run(low)
      BY <1>1, <2>4, <3>1, <3>2
    <3>4. QED
      BY <3>1, <3>3 DEF RuleStraight
  <2>5. QED
    BY <1>2, <2>1, <2>2, <2>3, <2>4 DEF IsStraight
<1>3. ASSUME RuleStraight(S) PROVE IsStraight(cs)
  <2>1. PICK low \in 1 .. 10 : RankSet(S) = Run(low)
    BY <1>3 DEF RuleStraight
  <2>2. low = 1 \/ low = 2 \/ low = 10 \/ low \in 3 .. 9
    OBVIOUS
  <2>3. CASE low = 1
    BY <1>1, <2>1, <2>3, RunsAre DEF IsStraight
  <2>4. CASE low = 2
    BY <1>1, <2>1, <2>4, RunsAre DEF IsStraight
  <2>5. CASE low = 10
    BY <1>1, <2>1, <2>5, RunsAre DEF IsStraight
  <2>6. CASE low \in 3 .. 9
    <3> DEFINE r == low - 3
    <3>1. r \in 0 .. 6 /\ low + 1 = r + 4 /\ low \in 3 .. 10
      BY <2>6
    <3>2. Run(low) = low - 3 .. low + 1
      BY <3>1, RunsAre
    <3>3. Ranks(cs) = r .. low + 1
      BY <1>1, <2>1, <3>2
    <3> HIDE DEF r
    <3>4. Ranks(cs) = r .. r + 4
      BY <3>1, <3>3
    <3>5. QED
      BY <3>1, <3>4 DEF IsStraight
  <2>7. QED
    BY <2>2, <2>3, <2>4, <2>5, <2>6
<1>4. QED
  BY <1>2, <1>3

\* No two cards of one rank.
Different(S) == \A c, d \in S : RankOf(c) = RankOf(d) => c = d

LEMMA StraightIsDifferent ==
    ASSUME NEW S \in SUBSET Card, Cardinality(S) = 5, RuleStraight(S)
    PROVE  Different(S)
<1> DEFINE f == [c \in S |-> RankOf(c)]
<1>1. PICK low \in 1 .. 10 : RankSet(S) = Run(low)
  BY DEF RuleStraight
<1>2. f \in Surjection(S, RankSet(S))
  BY DEF Surjection, RankSet
<1>3. \A c \in S : f[c] = RankOf(c)
  OBVIOUS
<1> HIDE DEF f
<1>4. Cardinality(RankSet(S)) = Cardinality(S)
  BY <1>1, FiveRanksInARun
<1>5. f \in Injection(S, RankSet(S))
  BY <1>2, <1>4, SetsOfCards, FS_Surjection
<1>6. QED
  BY <1>3, <1>5 DEF Injection, IsInjective, Different

LEMMA FlushIsDifferent ==
    ASSUME NEW S \in SUBSET Card, OneSuit(S)
    PROVE  /\ Different(S)
           /\ \A c \in S : SuitSet(S) = {SuitOf(c)} /\ SuitIn(S) = SuitOf(c)
<1>1. IsFiniteSet(SuitSet(S))
  <2>1. SuitSet(S) \subseteq 0 .. 3
    BY CardParts DEF SuitSet
  <2>2. 0 \in Int /\ 3 \in Int
    OBVIOUS
  <2>3. QED
    BY <2>1, <2>2, FS_Interval, FS_Subset
<1>2. PICK s : SuitSet(S) = {s}
  <2>1. Cardinality(SuitSet(S)) = 1
    BY DEF OneSuit, SuitSet
  <2>2. QED
    BY <1>1, <2>1, FS_Singleton
<1>3. \A c \in S : SuitOf(c) = s
  BY <1>2 DEF SuitSet
<1>4. Different(S)
  <2>1. ASSUME NEW c \in S, NEW d \in S, RankOf(c) = RankOf(d) PROVE c = d
    <3>1. c = 4 * RankOf(c) + s /\ d = 4 * RankOf(d) + s
      BY <1>3, CardParts
    <3>2. QED
      BY <2>1, <3>1
  <2>2. QED
    BY <2>1 DEF Different
<1>5. ASSUME NEW c \in S PROVE SuitIn(S) = SuitOf(c)
  <2>1. (CHOOSE d \in S : TRUE) \in S
    OBVIOUS
  <2>2. QED
    BY <1>3, <2>1 DEF SuitIn
<1>6. QED
  BY <1>2, <1>3, <1>4, <1>5

\* A list of one suit.
LEMMA FlushOfList ==
    ASSUME NEW S \in SUBSET Card, NEW cs, IsListOf(cs, S), cs[1] \in S
    PROVE  Suits(cs) = {SuitOf(cs[1])} <=> OneSuit(S)
<1>1. Suits(cs) = SuitSet(S)
  BY ListAndSet
<1>2. OneSuit(S) <=> Cardinality(SuitSet(S)) = 1
  BY DEF OneSuit, SuitSet
<1>3. ASSUME Suits(cs) = {SuitOf(cs[1])} PROVE OneSuit(S)
  BY <1>1, <1>2, <1>3, FS_Singleton
<1>4. ASSUME OneSuit(S) PROVE Suits(cs) = {SuitOf(cs[1])}
  BY <1>1, <1>4, FlushIsDifferent
<1>5. QED
  BY <1>3, <1>4

\* Cards of different ranks hold no rank twice.
LEMMA DifferentHasNoCopies ==
    ASSUME NEW S \in SUBSET Card, Different(S), NEW r
    PROVE  Cardinality(OfRank(S, r)) <= 1
<1>1. CASE OfRank(S, r) = {}
  BY <1>1, FS_EmptySet
<1>2. CASE OfRank(S, r) # {}
  <2>1. PICK c : c \in OfRank(S, r)
    BY <1>2
  <2>2. OfRank(S, r) = {c}
    BY <2>1 DEF OfRank, Different
  <2>3. QED
    BY <2>2, FS_Singleton
<1>3. QED
  BY <1>1, <1>2

\* Cards of one rank are among those of that rank, and the other way round.
LEMMA OneRankIs ==
    ASSUME NEW S \in SUBSET Card, NEW Q \in SUBSET S, Q # {}
    PROVE  /\ OneRank(Q) => \E r : RankSet(Q) = {r} /\ Q \subseteq OfRank(S, r)
           /\ \A r : Q \subseteq OfRank(S, r) => RankSet(Q) = {r} /\ OneRank(Q)
<1>1. IsFiniteSet(RankSet(Q))
  <2>1. RankSet(Q) \subseteq 0 .. 12
    BY CardParts DEF RankSet
  <2>2. 0 \in Int /\ 12 \in Int
    OBVIOUS
  <2>3. IsFiniteSet(0 .. 12)
    BY <2>2, FS_Interval
  <2>4. QED
    BY <2>1, <2>3, FS_Subset
<1>2. ASSUME OneRank(Q) PROVE \E r : RankSet(Q) = {r} /\ Q \subseteq OfRank(S, r)
  <2>1. PICK r : RankSet(Q) = {r}
    BY <1>1, <1>2, FS_Singleton DEF OneRank
  <2>2. Q \subseteq OfRank(S, r)
    BY <2>1 DEF RankSet, OfRank
  <2>3. QED
    BY <2>1, <2>2
<1>3. ASSUME NEW r, Q \subseteq OfRank(S, r) PROVE RankSet(Q) = {r} /\ OneRank(Q)
  <2>1. RankSet(Q) = {r}
    BY <1>3 DEF RankSet, OfRank
  <2>2. QED
    BY <2>1, FS_Singleton DEF OneRank
<1>4. QED
  BY <1>2, <1>3

\* Two ranks share the cards of a hand.
LEMMA TwoRanksShare ==
    ASSUME NEW S \in SUBSET Card, NEW r, NEW q, r # q
    PROVE  Cardinality(OfRank(S, r)) + Cardinality(OfRank(S, q)) <= Cardinality(S)
<1> DEFINE A == OfRank(S, r)
           B == OfRank(S, q)
<1>1. IsFiniteSet(A) /\ IsFiniteSet(B) /\ Cardinality(A) \in Nat /\ Cardinality(B) \in Nat
  BY FourOfARank
<1>2. A \cap B = {} /\ A \cup B \subseteq S
  BY DEF OfRank
<1> HIDE DEF A, B
<1>3. Cardinality(A \cap B) = 0
  BY <1>2, FS_EmptySet
<1>4. Cardinality(A \cup B) = Cardinality(A) + Cardinality(B) - Cardinality(A \cap B)
  BY <1>1, FS_Union
<1>5. Cardinality(A \cup B) <= Cardinality(S)
  BY <1>2, SetsOfCards, FS_Subset
<1>6. Cardinality(A) + Cardinality(B) <= Cardinality(S)
  BY <1>1, <1>3, <1>4, <1>5
<1>7. QED
  BY <1>6 DEF A, B

\* What the code's counting finds is a rank with that many cards.
LEMMA RepeatedIs ==
    ASSUME NEW S \in SUBSET Card, NEW cs, IsListOf(cs, S), NEW n \in 1 .. 4
    PROVE  /\ HasRepeated(cs, n) <=> \E r : Cardinality(OfRank(S, r)) = n
           /\ HasRepeated(cs, n) =>
                 /\ RepeatedRank(cs, n) \in 0 .. 12
                 /\ Cardinality(OfRank(S, RepeatedRank(cs, n))) = n
<1>1. Ranks(cs) = RankSet(S) /\ \A r : Copies(cs, r) = Cardinality(OfRank(S, r))
  BY ListAndSet
<1>2. \A r : Cardinality(OfRank(S, r)) = n => r \in RankSet(S) /\ r \in 0 .. 12
  BY FourOfARank
<1>3. HasRepeated(cs, n) <=> \E r : Cardinality(OfRank(S, r)) = n
  BY <1>1, <1>2 DEF HasRepeated
<1>4. ASSUME HasRepeated(cs, n)
      PROVE  Copies(cs, RepeatedRank(cs, n)) = n
  BY <1>4 DEF HasRepeated, RepeatedRank
<1>5. QED
  BY <1>1, <1>2, <1>3, <1>4

\* Four of a kind.
LEMMA QuadsAre ==
    ASSUME NEW S \in SUBSET Card, Cardinality(S) = 5, NEW cs, IsListOf(cs, S)
    PROVE  /\ HasRepeated(cs, 4) <=> RuleQuad(S) # {}
           /\ HasRepeated(cs, 4) => RankIn(RuleQuad(S)) = RepeatedRank(cs, 4)
<1>1. ASSUME NEW Q \in RuleQuad(S)
      PROVE  \E r : Q = OfRank(S, r) /\ Cardinality(OfRank(S, r)) = 4 /\ RankSet(Q) = {r}
  <2>1. Q \in SUBSET S /\ Cardinality(Q) = 4 /\ OneRank(Q)
    BY DEF RuleQuad, kSubset
  <2>2. Q # {}
    BY <2>1, FS_EmptySet
  <2>3. PICK r : RankSet(Q) = {r} /\ Q \subseteq OfRank(S, r)
    BY <2>1, <2>2, OneRankIs
  <2>4. /\ IsFiniteSet(OfRank(S, r)) /\ Cardinality(OfRank(S, r)) \in Nat
        /\ Cardinality(OfRank(S, r)) <= 4
    BY FourOfARank
  <2>5. Cardinality(Q) <= Cardinality(OfRank(S, r))
    BY <2>3, <2>4, FS_Subset
  <2>6. Cardinality(OfRank(S, r)) = 4
    BY <2>1, <2>4, <2>5
  <2>7. Q = OfRank(S, r)
    BY <2>1, <2>3, <2>4, <2>6, FS_Subset
  <2>8. QED
    BY <2>3, <2>6, <2>7
<1>2. ASSUME NEW r, Cardinality(OfRank(S, r)) = 4
      PROVE  OfRank(S, r) \in RuleQuad(S) /\ RankSet(OfRank(S, r)) = {r}
  <2>1. OfRank(S, r) \in SUBSET S
    BY DEF OfRank
  <2>2. OfRank(S, r) # {}
    BY <1>2, FS_EmptySet
  <2>3. RankSet(OfRank(S, r)) = {r} /\ OneRank(OfRank(S, r))
    BY <2>1, <2>2, OneRankIs
  <2>4. QED
    BY <1>2, <2>1, <2>3 DEF RuleQuad, kSubset
<1>3. 4 \in 1 .. 4
  OBVIOUS
<1>4. HasRepeated(cs, 4) <=> \E r : Cardinality(OfRank(S, r)) = 4
  BY <1>3, RepeatedIs
<1>5. ASSUME HasRepeated(cs, 4) PROVE RankIn(RuleQuad(S)) = RepeatedRank(cs, 4)
  <2> DEFINE r == RepeatedRank(cs, 4)
  <2>1. r \in 0 .. 12 /\ Cardinality(OfRank(S, r)) = 4
    BY <1>3, <1>5, RepeatedIs
  <2> HIDE DEF r
  <2>2. OfRank(S, r) \in RuleQuad(S) /\ RankSet(OfRank(S, r)) = {r}
    BY <2>1, <1>2
  <2>3. ASSUME NEW q, NEW Q \in RuleQuad(S), q \in RankSet(Q) PROVE q = r
    <3>1. PICK p : Cardinality(OfRank(S, p)) = 4 /\ RankSet(Q) = {p}
      BY <1>1
    <3>2. p = r
      BY <2>1, <3>1, TwoRanksShare
    <3>3. QED
      BY <2>3, <3>1, <3>2
  <2>4. \E q \in 0 .. 12 : \E Q \in RuleQuad(S) : q \in RankSet(Q)
    BY <2>1, <2>2
  <2>5. RankIn(RuleQuad(S)) = r
    BY <2>3, <2>4 DEF RankIn
  <2>6. QED
    BY <2>5 DEF r
<1>6. QED
  BY <1>1, <1>2, <1>4, <1>5

\* A full house.
LEMMA FullHousesAre ==
    ASSUME NEW S \in SUBSET Card, Cardinality(S) = 5, NEW cs, IsListOf(cs, S)
    PROVE  /\ (HasRepeated(cs, 3) /\ HasRepeated(cs, 2)) <=> RuleFullHouse(S) # {}
           /\ (HasRepeated(cs, 3) /\ HasRepeated(cs, 2)) =>
                 RankIn(RuleFullHouse(S)) = RepeatedRank(cs, 3)
<1>1. IsFiniteSet(S)
  BY SetsOfCards
<1>2. ASSUME NEW T \in RuleFullHouse(S)
      PROVE  \E r, q : /\ Cardinality(OfRank(S, r)) = 3 /\ Cardinality(OfRank(S, q)) = 2
                       /\ RankSet(T) = {r}
  <2>1. T \in SUBSET S /\ Cardinality(T) = 3 /\ OneRank(T) /\ OneRank(S \ T)
    BY DEF RuleFullHouse, kSubset
  <2>2. S \ T \in SUBSET S /\ S \cap T = T
    BY <2>1
  <2>3. Cardinality(S \ T) = 2
    <3>1. Cardinality(S \ T) = Cardinality(S) - Cardinality(S \cap T)
      BY <1>1, FS_Difference
    <3>2. QED
      BY <2>1, <2>2, <3>1
  <2>4. T # {} /\ S \ T # {}
    BY <2>1, <2>3, FS_EmptySet
  <2>5. PICK r : RankSet(T) = {r} /\ T \subseteq OfRank(S, r)
    BY <2>1, <2>4, OneRankIs
  <2>6. PICK q : RankSet(S \ T) = {q} /\ S \ T \subseteq OfRank(S, q)
    BY <2>1, <2>2, <2>4, OneRankIs
  <2>7. r # q
    <3>1. ASSUME r = q PROVE FALSE
      <4>1. S = OfRank(S, r)
        BY <2>5, <2>6, <3>1 DEF OfRank
      <4>2. Cardinality(OfRank(S, r)) <= 4
        BY FourOfARank
      <4>3. QED
        BY <4>1, <4>2
    <3>2. QED
      BY <3>1
  <2>8. T = OfRank(S, r) /\ S \ T = OfRank(S, q)
    BY <2>5, <2>6, <2>7 DEF OfRank
  <2>9. QED
    BY <2>1, <2>3, <2>5, <2>8
<1>3. ASSUME NEW r, NEW q, Cardinality(OfRank(S, r)) = 3, Cardinality(OfRank(S, q)) = 2
      PROVE  OfRank(S, r) \in RuleFullHouse(S) /\ RankSet(OfRank(S, r)) = {r}
  <2> DEFINE A == OfRank(S, r)
             B == OfRank(S, q)
  <2>1. A \in SUBSET S /\ S \ A \in SUBSET S /\ S \cap A = A
    BY DEF OfRank
  <2>2. r # q
    BY <1>3
  <2>3. B \subseteq S \ A
    BY <2>2 DEF OfRank
  <2>4. Cardinality(A) = 3 /\ Cardinality(B) = 2
    BY <1>3
  <2>5. A # {} /\ B # {}
    BY <2>4, FS_EmptySet
  <2>6. RankSet(A) = {r} /\ OneRank(A)
    BY <2>1, <2>5, OneRankIs
  <2>7. S \ A = B
    <3> HIDE DEF A, B
    <3>1. Cardinality(S \ A) = Cardinality(S) - Cardinality(S \cap A) /\ IsFiniteSet(S \ A)
      BY <1>1, FS_Difference
    <3>2. Cardinality(S \ A) = Cardinality(B)
      BY <2>1, <2>4, <3>1
    <3>3. QED
      BY <2>3, <3>1, <3>2, FS_Subset
  <2>8. OneRank(B)
    <3>1. B \in SUBSET S /\ B \subseteq OfRank(S, q)
      BY DEF OfRank
    <3>2. QED
      BY <2>5, <3>1, OneRankIs
  <2>9. QED
    BY <2>1, <2>4, <2>6, <2>7, <2>8 DEF RuleFullHouse, kSubset
<1>4. 3 \in 1 .. 4 /\ 2 \in 1 .. 4
  OBVIOUS
<1>5. HasRepeated(cs, 3) <=> \E r : Cardinality(OfRank(S, r)) = 3
  BY <1>4, RepeatedIs
<1>6. HasRepeated(cs, 2) <=> \E r : Cardinality(OfRank(S, r)) = 2
  BY <1>4, RepeatedIs
<1>7. ASSUME HasRepeated(cs, 3), HasRepeated(cs, 2)
      PROVE  RankIn(RuleFullHouse(S)) = RepeatedRank(cs, 3)
  <2> DEFINE r == RepeatedRank(cs, 3)
             F == RuleFullHouse(S)
  <2>1. r \in 0 .. 12 /\ Cardinality(OfRank(S, r)) = 3
    BY <1>4, <1>7, RepeatedIs
  <2> HIDE DEF r, F
  <2>2. OfRank(S, r) \in F /\ RankSet(OfRank(S, r)) = {r}
    BY <2>1, <1>3, <1>6, <1>7 DEF F
  <2>3. ASSUME NEW p, NEW Q \in F, p \in RankSet(Q) PROVE p = r
    <3>1. PICK t : Cardinality(OfRank(S, t)) = 3 /\ RankSet(Q) = {t}
      BY <1>2 DEF F
    <3>2. t = r
      BY <2>1, <3>1, TwoRanksShare
    <3>3. QED
      BY <2>3, <3>1, <3>2
  <2>4. \E p \in 0 .. 12 : \E Q \in F : p \in RankSet(Q)
    BY <2>1, <2>2
  <2>5. RankIn(F) = r
    BY <2>3, <2>4 DEF RankIn
  <2>6. QED
    BY <2>5 DEF r, F
<1>8. ASSUME RuleFullHouse(S) # {} PROVE HasRepeated(cs, 3) /\ HasRepeated(cs, 2)
  <2>1. PICK T : T \in RuleFullHouse(S)
    BY <1>8
  <2>2. QED
    BY <1>2, <1>5, <1>6, <2>1
<1>9. ASSUME HasRepeated(cs, 3), HasRepeated(cs, 2) PROVE RuleFullHouse(S) # {}
  BY <1>3, <1>5, <1>6, <1>9
<1>10. QED
  BY <1>7, <1>8, <1>9

\* The kinds of five cards that exclude each other.
LEMMA KindsExclude ==
    ASSUME NEW S \in SUBSET Card, Cardinality(S) = 5, NEW cs, IsListOf(cs, S)
    PROVE  /\ Different(S) => /\ ~HasRepeated(cs, 4) /\ ~HasRepeated(cs, 3)
                              /\ ~HasRepeated(cs, 2)
           /\ HasRepeated(cs, 4) => ~(HasRepeated(cs, 3) /\ HasRepeated(cs, 2))
<1>1. 4 \in 1 .. 4 /\ 3 \in 1 .. 4 /\ 2 \in 1 .. 4
  OBVIOUS
<1>2. HasRepeated(cs, 4) <=> \E r : Cardinality(OfRank(S, r)) = 4
  BY <1>1, RepeatedIs
<1>3. HasRepeated(cs, 3) <=> \E r : Cardinality(OfRank(S, r)) = 3
  BY <1>1, RepeatedIs
<1>4. HasRepeated(cs, 2) <=> \E r : Cardinality(OfRank(S, r)) = 2
  BY <1>1, RepeatedIs
<1>5. ASSUME Different(S)
      PROVE  ~HasRepeated(cs, 4) /\ ~HasRepeated(cs, 3) /\ ~HasRepeated(cs, 2)
  <2>1. \A r : Cardinality(OfRank(S, r)) <= 1
    BY <1>5, DifferentHasNoCopies
  <2>2. \A r : Cardinality(OfRank(S, r)) \notin {2, 3, 4}
    BY <2>1
  <2>3. QED
    BY <1>2, <1>3, <1>4, <2>2
<1>6. ASSUME HasRepeated(cs, 4), HasRepeated(cs, 3) PROVE FALSE
  <2>1. PICK r : Cardinality(OfRank(S, r)) = 4
    BY <1>2, <1>6
  <2>2. PICK q : Cardinality(OfRank(S, q)) = 3
    BY <1>3, <1>6
  <2>3. r # q
    BY <2>1, <2>2
  <2>4. QED
    BY <2>1, <2>2, <2>3, TwoRanksShare
<1>7. QED
  BY <1>5, <1>6

\* The highest card, by the code and by the rules.
LEMMA HighestCard ==
    ASSUME NEW S \in SUBSET Card, Cardinality(S) \in HandSize, NEW cs, IsListOf(cs, S)
    PROVE  /\ HighCard(cs) \in S /\ HighCard(cs) \in Card
           /\ \A d \in S : d <= HighCard(cs)
           /\ Max(S) = HighCard(cs)
<1> DEFINE h == HighCard(cs)
<1>1. cs \in Seq(Card) /\ Cards(cs) = S /\ Len(cs) \in HandSize
  BY DEF IsListOf
<1>2. h \in S /\ \A d \in S : d <= h
  BY <1>1, HighCardIsACard
<1>3. \A d \in S : d \in Int
  BY CardParts
<1> HIDE DEF h
<1>4. h \in S /\ \A d \in S : h >= d
  BY <1>2, <1>3
<1>5. Max(S) \in S /\ \A d \in S : Max(S) >= d
  BY <1>4 DEF Max
<1>6. Max(S) = h
  <2>1. h \in Int /\ Max(S) \in Int
    BY <1>3, <1>4, <1>5
  <2>2. h >= Max(S) /\ Max(S) >= h
    BY <1>4, <1>5
  <2>3. QED
    BY <2>1, <2>2
<1>7. QED
  BY <1>2, <1>6 DEF h

\* A card that is not lower has no lower rank, and among cards of its rank no
\* lower suit.
LEMMA OrderOfCards ==
    ASSUME NEW c \in Card, NEW d \in Card
    PROVE  /\ d <= c => RankOf(d) <= RankOf(c)
           /\ (d <= c /\ RankOf(c) = RankOf(d)) => SuitOf(d) <= SuitOf(c)
           /\ c > d <=> \/ RankOf(c) > RankOf(d)
                        \/ RankOf(c) = RankOf(d) /\ SuitOf(c) > SuitOf(d)
<1>1. ASSUME NEW r \in 0 .. 12, NEW q \in 0 .. 12, NEW s \in 0 .. 3, NEW t \in 0 .. 3
      PROVE  /\ 4 * q + t <= 4 * r + s => q <= r
             /\ (4 * q + t <= 4 * r + s /\ r = q) => t <= s
             /\ 4 * r + s > 4 * q + t <=> \/ r > q
                                          \/ r = q /\ s > t
  <2>1. 4 * q + t <= 4 * r + s => q <= r
    OBVIOUS
  <2>2. (4 * q + t <= 4 * r + s /\ r = q) => t <= s
    OBVIOUS
  <2>3. 4 * r + s > 4 * q + t => (r > q \/ (r = q /\ s > t))
    OBVIOUS
  <2>4. (r > q \/ (r = q /\ s > t)) => 4 * r + s > 4 * q + t
    OBVIOUS
  <2>5. QED
    BY <2>1, <2>2, <2>3, <2>4
<1>2. /\ RankOf(c) \in 0 .. 12 /\ RankOf(d) \in 0 .. 12
      /\ SuitOf(c) \in 0 .. 3 /\ SuitOf(d) \in 0 .. 3
      /\ c = 4 * RankOf(c) + SuitOf(c) /\ d = 4 * RankOf(d) + SuitOf(d)
  BY CardParts
<1>3. QED
  BY <1>1, <1>2

\* The highest rank.
LEMMA HighestRank ==
    ASSUME NEW S \in SUBSET Card, Cardinality(S) \in HandSize, NEW cs, IsListOf(cs, S)
    PROVE  /\ RankOf(HighCard(cs)) \in RankSet(S)
           /\ \A r \in RankSet(S) : r <= RankOf(HighCard(cs))
           /\ Max(RankSet(S)) = RankOf(HighCard(cs))
<1> DEFINE h == RankOf(HighCard(cs))
           R == RankSet(S)
<1>1. h \in R
  BY HighestCard DEF RankSet
<1>2. \A r \in R : r \in Int /\ r <= h
  BY HighestCard, OrderOfCards, CardParts DEF RankSet
<1> HIDE DEF h, R
<1>3. h \in R /\ \A r \in R : h >= r
  BY <1>1, <1>2
<1>4. Max(R) \in R /\ \A r \in R : Max(R) >= r
  BY <1>3 DEF Max
<1>5. Max(R) = h
  <2>1. h \in Int /\ Max(R) \in Int
    BY <1>1, <1>2, <1>4
  <2>2. h >= Max(R) /\ Max(R) >= h
    BY <1>3, <1>4
  <2>3. QED
    BY <2>1, <2>2
<1>6. QED
  BY <1>1, <1>2, <1>5 DEF h, R

\* The highest suit among cards of one rank is that of the highest card.
LEMMA HighestSuit ==
    ASSUME NEW S \in SUBSET Card, Cardinality(S) \in HandSize, OneRank(S),
           NEW cs, IsListOf(cs, S)
    PROVE  /\ RankSet(S) = {RankOf(HighCard(cs))}
           /\ Max({SuitOf(c) : c \in S}) = SuitOf(HighCard(cs))
<1> DEFINE c0 == HighCard(cs)
           h == SuitOf(HighCard(cs))
           R == SuitSet(S)
<1>1. c0 \in S /\ c0 \in Card /\ \A d \in S : d <= c0
  BY HighestCard
<1>2. S \in SUBSET S /\ S # {}
  BY <1>1
<1>3. PICK r : RankSet(S) = {r} /\ S \subseteq OfRank(S, r)
  BY <1>2, OneRankIs
<1>4. \A d \in S : RankOf(d) = r
  BY <1>3 DEF OfRank
<1>5. RankSet(S) = {RankOf(c0)}
  BY <1>1, <1>3, <1>4
<1>6. h \in R
  BY <1>1 DEF SuitSet
<1>7. \A t \in R : t \in Int /\ t <= h
  <2>1. ASSUME NEW d \in S PROVE SuitOf(d) \in Int /\ SuitOf(d) <= h
    <3>1. d \in Card /\ d <= c0 /\ RankOf(c0) = RankOf(d)
      BY <1>1, <1>4
    <3>2. SuitOf(d) <= SuitOf(c0)
      BY <1>1, <3>1, OrderOfCards
    <3>3. SuitOf(d) \in Int
      BY <3>1, CardParts
    <3>4. QED
      BY <3>2, <3>3
  <2>2. QED
    BY <2>1 DEF SuitSet
<1> HIDE DEF h, R
<1>8. h \in R /\ \A t \in R : h >= t
  BY <1>6, <1>7
<1>9. Max(R) \in R /\ \A t \in R : Max(R) >= t
  BY <1>8 DEF Max
<1>10. Max(R) = h
  <2>1. h \in Int /\ Max(R) \in Int
    BY <1>6, <1>7, <1>9
  <2>2. h >= Max(R) /\ Max(R) >= h
    BY <1>8, <1>9
  <2>3. QED
    BY <2>1, <2>2
<1>11. QED
  BY <1>5, <1>10 DEF h, R, SuitSet

\* The card a straight is compared by.
LEMMA StraightTops ==
    ASSUME NEW S \in SUBSET Card, Cardinality(S) = 5, RuleStraight(S),
           NEW cs, IsListOf(cs, S)
    PROVE  StraightHighCard(cs) = RuleTop(S) /\ RuleTop(S) \in S
<1> DEFINE low == CHOOSE l \in 1 .. 10 : RankSet(S) = Run(l)
<1>1. low \in 1 .. 10 /\ RankSet(S) = Run(low)
  BY DEF RuleStraight
<1>2. RuleTop(S) = CHOOSE c \in S : RankOf(c) = RankOfFace(low + 4)
  BY DEF RuleTop
<1> HIDE DEF low
<1>3. Ranks(cs) = Run(low) /\ Cards(cs) = S
  BY <1>1, ListAndSet DEF IsListOf
<1>4. StraightHighRank(cs) = RankOfFace(low + 4)
  <2>1. low = 1 \/ low = 2 \/ low \in 3 .. 10
    BY <1>1
  <2>2. CASE low = 1
    <3>1. Ranks(cs) = AceLow
      BY <1>3, <2>2, RunsAre
    <3>2. StraightHighRank(cs) = 2
      <4>1. AceLow # TwoLow
        BY AceIsNotSix
      <4>2. QED
        BY <3>1, <4>1 DEF StraightHighRank
    <3>3. RankOfFace(low + 4) = 2
      BY <2>2 DEF RankOfFace
    <3>4. QED
      BY <3>2, <3>3
  <2>3. CASE low = 2
    <3>1. Ranks(cs) = TwoLow
      BY <1>3, <2>3, RunsAre
    <3>2. StraightHighRank(cs) = 3
      <4>1. Ranks(cs) # AceLow
        BY <3>1, AceIsNotSix
      <4>2. QED
        BY <3>1, <4>1 DEF StraightHighRank
    <3>3. RankOfFace(low + 4) = 3
      BY <2>3 DEF RankOfFace
    <3>4. QED
      BY <3>2, <3>3
  <2>4. CASE low \in 3 .. 10
    <3>1. Run(low) = low - 3 .. low + 1
      BY <2>4, RunsAre
    <3>2. Ranks(cs) # AceLow /\ Ranks(cs) # TwoLow
      <4>1. 12 \notin Ranks(cs)
        BY <1>3, <2>4, <3>1
      <4>2. 12 \in AceLow /\ 12 \in TwoLow
        BY DEF AceLow, TwoLow
      <4>3. QED
        BY <4>1, <4>2
    <3>3. StraightHighRank(cs) = RankOf(HighCard(cs))
      BY <3>2 DEF StraightHighRank
    <3>4. Cardinality(S) \in HandSize
      BY DEF HandSize
    <3> DEFINE h == RankOf(HighCard(cs))
    <3>5. h \in RankSet(S) /\ \A r \in RankSet(S) : r <= h
      BY <3>4, HighestRank
    <3> HIDE DEF h
    <3>6. h \in low - 3 .. low + 1 /\ \A r \in low - 3 .. low + 1 : r <= h
      BY <1>1, <3>1, <3>5
    <3>7. h = low + 1
      BY <2>4, <3>6
    <3>8. RankOfFace(low + 4) = low + 1
      BY <2>4 DEF RankOfFace
    <3>9. QED
      BY <3>3, <3>7, <3>8 DEF h
  <2>5. QED
    BY <2>1, <2>2, <2>3, <2>4
<1>5. StraightHighCard(cs) = RuleTop(S)
  BY <1>2, <1>3, <1>4 DEF StraightHighCard
<1>6. RuleTop(S) \in S
  <2>1. low + 4 \in low .. low + 4
    BY <1>1
  <2>2. RankOfFace(low + 4) \in RankSet(S)
    BY <1>1, <2>1 DEF Run
  <2>3. \E c \in S : RankOf(c) = RankOfFace(low + 4)
    BY <2>2 DEF RankSet
  <2>4. QED
    BY <1>2, <2>3
<1>7. QED
  BY <1>5, <1>6

\* The tuple the rules compare five cards by, and their strength in the code:
\* a suit and one of the cards, the rank of four or of three cards, or a card.
Weighs(S, t, w) ==
    \/ \E s \in 0 .. 3, c \in S : t = <<5, s, c>> /\ w = Strength(4, s, c)
    \/ \E r \in 0 .. 12 : /\ Cardinality(OfRank(S, r)) = 4
                          /\ t = <<4, r, 0>> /\ w = Strength(3, 0, r)
    \/ \E r \in 0 .. 12 : /\ Cardinality(OfRank(S, r)) = 3
                          /\ t = <<3, r, 0>> /\ w = Strength(2, 0, r)
    \/ \E s \in 0 .. 3, c \in S : t = <<2, s, c>> /\ w = Strength(1, s, c)
    \/ \E c \in S : t = <<1, c, 0>> /\ w = Strength(0, 0, c)

LEMMA LexicographicIs ==
    ASSUME NEW k \in Nat, NEW x \in Nat, NEW y \in Nat,
           NEW l \in Nat, NEW u \in Nat, NEW v \in Nat
    PROVE  Lexicographic(<<k, x, y>>, <<l, u, v>>) <=>
              \/ k > l
              \/ k = l /\ x > u
              \/ k = l /\ x = u /\ y > v
<1> DEFINE s == <<k, x, y>>
           t == <<l, u, v>>
<1>1. /\ s[1] = k /\ s[2] = x /\ s[3] = y
      /\ t[1] = l /\ t[2] = u /\ t[3] = v
  OBVIOUS
<1> HIDE DEF s, t
<1>2. Lexicographic(s, t) <=> \E i \in 1 .. 3 : s[i] > t[i] /\ \A j \in 1 .. i - 1 : s[j] = t[j]
  BY DEF Lexicographic
<1>3. ASSUME Lexicographic(s, t)
      PROVE  k > l \/ (k = l /\ x > u) \/ (k = l /\ x = u /\ y > v)
  <2>1. PICK i \in 1 .. 3 : s[i] > t[i] /\ \A j \in 1 .. i - 1 : s[j] = t[j]
    BY <1>2, <1>3
  <2>2. CASE i = 1
    BY <1>1, <2>1, <2>2
  <2>3. CASE i = 2
    <3>1. 1 \in 1 .. i - 1
      BY <2>3
    <3>2. k = l
      BY <1>1, <2>1, <3>1
    <3>3. QED
      BY <1>1, <2>1, <2>3, <3>2
  <2>4. CASE i = 3
    <3>1. 1 \in 1 .. i - 1 /\ 2 \in 1 .. i - 1
      BY <2>4
    <3>2. k = l /\ x = u
      BY <1>1, <2>1, <3>1
    <3>3. QED
      BY <1>1, <2>1, <2>4, <3>2
  <2>5. QED
    BY <2>1, <2>2, <2>3, <2>4
<1>4. ASSUME k > l PROVE Lexicographic(s, t)
  <2>1. 1 \in 1 .. 3 /\ \A j \in 1 .. 1 - 1 : s[j] = t[j]
    OBVIOUS
  <2>2. s[1] > t[1]
    BY <1>1, <1>4
  <2>3. QED
    BY <1>2, <2>1, <2>2
<1>5. ASSUME k = l, x > u PROVE Lexicographic(s, t)
  <2>1. 2 \in 1 .. 3 /\ \A j \in 1 .. 2 - 1 : j = 1
    OBVIOUS
  <2>2. s[2] > t[2] /\ s[1] = t[1]
    BY <1>1, <1>5
  <2>3. QED
    BY <1>2, <2>1, <2>2
<1>6. ASSUME k = l, x = u, y > v PROVE Lexicographic(s, t)
  <2>1. 3 \in 1 .. 3 /\ \A j \in 1 .. 3 - 1 : j = 1 \/ j = 2
    OBVIOUS
  <2>2. s[3] > t[3] /\ s[1] = t[1] /\ s[2] = t[2]
    BY <1>1, <1>6
  <2>3. QED
    BY <1>2, <2>1, <2>2
<1>7. QED
  BY <1>3, <1>4, <1>5, <1>6 DEF s, t

\* Where a weight lies, and what it says.
WeightParts(t, w, k, x, y, z) ==
    /\ k \in 1 .. 5 /\ x \in 0 .. 51 /\ y \in 0 .. 51 /\ z \in 0 .. 255
    /\ t = <<k, x, y>> /\ w = 256 * (k - 1) + z
    /\ k \in {2, 5} => x \in 0 .. 3 /\ z = 64 * x + y
    /\ k \in {1, 3, 4} => z = x /\ y = 0

LEMMA WeightIs ==
    ASSUME NEW S \in SUBSET Card, NEW t, NEW w, Weighs(S, t, w)
    PROVE  \E k, x, y, z : WeightParts(t, w, k, x, y, z)
<1>1. ASSUME NEW s \in 0 .. 3, NEW c \in S, t = <<5, s, c>>, w = Strength(4, s, c)
      PROVE  WeightParts(t, w, 5, s, c, 64 * s + c)
  BY <1>1 DEF WeightParts, Strength, Card
<1>2. ASSUME NEW r \in 0 .. 12, t = <<4, r, 0>>, w = Strength(3, 0, r)
      PROVE  WeightParts(t, w, 4, r, 0, r)
  BY <1>2 DEF WeightParts, Strength
<1>3. ASSUME NEW r \in 0 .. 12, t = <<3, r, 0>>, w = Strength(2, 0, r)
      PROVE  WeightParts(t, w, 3, r, 0, r)
  BY <1>3 DEF WeightParts, Strength
<1>4. ASSUME NEW s \in 0 .. 3, NEW c \in S, t = <<2, s, c>>, w = Strength(1, s, c)
      PROVE  WeightParts(t, w, 2, s, c, 64 * s + c)
  BY <1>4 DEF WeightParts, Strength, Card
<1>5. ASSUME NEW c \in S, t = <<1, c, 0>>, w = Strength(0, 0, c)
      PROVE  WeightParts(t, w, 1, c, 0, c)
  BY <1>5 DEF WeightParts, Strength, Card
<1>6. QED
  BY <1>1, <1>2, <1>3, <1>4, <1>5 DEF Weighs

\* The code's number orders five-card hands as the rules' tuples do.
LEMMA WeightsOrder ==
    ASSUME NEW S \in SUBSET Card, NEW t, NEW w, Weighs(S, t, w),
           NEW T \in SUBSET Card, NEW u, NEW v, Weighs(T, u, v)
    PROVE  (w > v) <=> Lexicographic(t, u)
<1>1. PICK k, x, y, z : WeightParts(t, w, k, x, y, z)
  BY WeightIs
<1>2. PICK l, p, q, m : WeightParts(u, v, l, p, q, m)
  BY WeightIs
<1> DEFINE A == w > v
           B == k > l \/ (k = l /\ x > p) \/ (k = l /\ x = p /\ y > q)
<1>3. Lexicographic(t, u) <=> B
  <2>1. /\ t = <<k, x, y>> /\ u = <<l, p, q>>
        /\ k \in Nat /\ x \in Nat /\ y \in Nat /\ l \in Nat /\ p \in Nat /\ q \in Nat
    BY <1>1, <1>2 DEF WeightParts
  <2>2. QED
    BY <2>1, LexicographicIs
<1>4. /\ k \in 1 .. 5 /\ x \in 0 .. 51 /\ y \in 0 .. 51 /\ z \in 0 .. 255
      /\ l \in 1 .. 5 /\ p \in 0 .. 51 /\ q \in 0 .. 51 /\ m \in 0 .. 255
      /\ w = 256 * (k - 1) + z /\ v = 256 * (l - 1) + m
  BY <1>1, <1>2 DEF WeightParts
<1>5. A <=> B
  <2>1. CASE k > l
    BY <1>4, <2>1
  <2>2. CASE l > k
    BY <1>4, <2>2
  <2>3. CASE k = l /\ k \in {2, 5}
    <3>1. /\ z = 64 * x + y /\ m = 64 * p + q
          /\ w = 256 * (k - 1) + z /\ v = 256 * (k - 1) + m
      BY <1>1, <1>2, <2>3 DEF WeightParts
    <3>2. A <=> z > m
      BY <1>4, <3>1
    <3>3. CASE x > p
      BY <1>4, <2>3, <3>1, <3>2, <3>3
    <3>4. CASE p > x
      BY <1>4, <2>3, <3>1, <3>2, <3>4
    <3>5. CASE x = p
      BY <1>4, <2>3, <3>1, <3>2, <3>5
    <3>6. QED
      BY <1>4, <3>3, <3>4, <3>5
  <2>4. CASE k = l /\ k \in {1, 3, 4}
    <3>1. z = x /\ m = p /\ y = 0 /\ q = 0
      BY <1>1, <1>2, <2>4 DEF WeightParts
    <3>2. QED
      BY <1>4, <2>4, <3>1
  <2>5. QED
    BY <1>4, <2>1, <2>2, <2>3, <2>4
<1>6. QED
  BY <1>3, <1>5

\* Five cards by the rules and by the code, whatever the order of the list.
LEMMA FiveCards ==
    ASSUME NEW S \in SUBSET Card, Cardinality(S) = 5, NEW cs, IsListOf(cs, S)
    PROVE  \/ RuleFive(S) = <<>> /\ FiveStrength(cs) = -1
           \/ Weighs(S, RuleFive(S), FiveStrength(cs))
<1> DEFINE straight == RuleStraight(S)
           flush == OneSuit(S)
           quad == HasRepeated(cs, 4)
           full == HasRepeated(cs, 3) /\ HasRepeated(cs, 2)
           s1 == SuitOf(cs[1])
<1>1. cs[1] \in S /\ s1 \in 0 .. 3
  <2>1. cs \in Seq(Card) /\ Cards(cs) = S /\ Len(cs) = 5
    BY DEF IsListOf
  <2>2. 1 \in DOMAIN cs
    BY <2>1
  <2>3. cs[1] \in S
    BY <2>1, <2>2 DEF Cards
  <2>4. QED
    BY <2>3, CardParts
<1>2. /\ IsStraight(cs) <=> straight
      /\ (Suits(cs) = {s1}) <=> flush
  BY <1>1, StraightsAreRuns, FlushOfList
<1>3. quad <=> RuleQuad(S) # {}
  BY QuadsAre
<1>4. full <=> RuleFullHouse(S) # {}
  BY FullHousesAre
<1>5. (straight => ~quad /\ ~full) /\ (flush => ~quad /\ ~full) /\ (quad => ~full)
  BY StraightIsDifferent, FlushIsDifferent, KindsExclude
<1>6. flush => SuitIn(S) = s1
  BY <1>1, FlushIsDifferent
<1>7. straight => StraightHighCard(cs) = RuleTop(S) /\ RuleTop(S) \in S
  BY StraightTops
<1>8. Max(S) = HighCard(cs) /\ HighCard(cs) \in S
  BY HighestCard DEF HandSize
<1>9. quad => /\ RankIn(RuleQuad(S)) = RepeatedRank(cs, 4) /\ RepeatedRank(cs, 4) \in 0 .. 12
              /\ Cardinality(OfRank(S, RepeatedRank(cs, 4))) = 4
  BY QuadsAre, RepeatedIs
<1>10. full => /\ RankIn(RuleFullHouse(S)) = RepeatedRank(cs, 3)
               /\ RepeatedRank(cs, 3) \in 0 .. 12
               /\ Cardinality(OfRank(S, RepeatedRank(cs, 3))) = 3
  BY FullHousesAre, RepeatedIs
<1>11. FiveStrength(cs) =
          IF straight /\ flush THEN Strength(4, s1, StraightHighCard(cs))
          ELSE IF quad THEN Strength(3, 0, RepeatedRank(cs, 4))
          ELSE IF full THEN Strength(2, 0, RepeatedRank(cs, 3))
          ELSE IF flush THEN Strength(1, s1, HighCard(cs))
          ELSE IF straight THEN Strength(0, 0, StraightHighCard(cs))
          ELSE -1
  BY <1>2 DEF FiveStrength
<1>12. RuleFive(S) =
          CASE straight /\ flush -> <<5, SuitIn(S), RuleTop(S)>>
            [] quad -> <<4, RankIn(RuleQuad(S)), 0>>
            [] full -> <<3, RankIn(RuleFullHouse(S)), 0>>
            [] flush /\ ~straight -> <<2, SuitIn(S), Max(S)>>
            [] straight /\ ~flush -> <<1, RuleTop(S), 0>>
            [] OTHER -> <<>>
  BY <1>3, <1>4 DEF RuleFive
<1> HIDE DEF straight, flush, quad, full, s1
<1>13. CASE straight /\ flush
  <2>1. RuleFive(S) = <<5, s1, RuleTop(S)>>
    BY <1>5, <1>6, <1>12, <1>13
  <2>2. FiveStrength(cs) = Strength(4, s1, RuleTop(S))
    BY <1>7, <1>11, <1>13
  <2>3. QED
    BY <1>1, <1>7, <1>13, <2>1, <2>2 DEF Weighs
<1>14. CASE quad
  <2> DEFINE r == RepeatedRank(cs, 4)
  <2>1. RuleFive(S) = <<4, r, 0>>
    BY <1>5, <1>9, <1>12, <1>14
  <2>2. FiveStrength(cs) = Strength(3, 0, r)
    BY <1>5, <1>11, <1>14
  <2>3. r \in 0 .. 12 /\ Cardinality(OfRank(S, r)) = 4
    BY <1>9, <1>14
  <2> HIDE DEF r
  <2>4. QED
    BY <2>1, <2>2, <2>3 DEF Weighs
<1>15. CASE full
  <2> DEFINE r == RepeatedRank(cs, 3)
  <2>1. RuleFive(S) = <<3, r, 0>>
    BY <1>5, <1>10, <1>12, <1>15
  <2>2. FiveStrength(cs) = Strength(2, 0, r)
    BY <1>5, <1>11, <1>15
  <2>3. r \in 0 .. 12 /\ Cardinality(OfRank(S, r)) = 3
    BY <1>10, <1>15
  <2> HIDE DEF r
  <2>4. QED
    BY <2>1, <2>2, <2>3 DEF Weighs
<1>16. CASE flush /\ ~straight
  <2>1. RuleFive(S) = <<2, s1, HighCard(cs)>>
    BY <1>5, <1>6, <1>8, <1>12, <1>16
  <2>2. FiveStrength(cs) = Strength(1, s1, HighCard(cs))
    BY <1>5, <1>11, <1>16
  <2>3. QED
    BY <1>1, <1>8, <2>1, <2>2 DEF Weighs
<1>17. CASE straight /\ ~flush
  <2>1. RuleFive(S) = <<1, RuleTop(S), 0>>
    BY <1>5, <1>12, <1>17
  <2>2. FiveStrength(cs) = Strength(0, 0, RuleTop(S))
    BY <1>5, <1>7, <1>11, <1>17
  <2>3. QED
    BY <1>7, <1>17, <2>1, <2>2 DEF Weighs
<1>18. CASE ~straight /\ ~flush /\ ~quad /\ ~full
  BY <1>11, <1>12, <1>18
<1>19. QED
  BY <1>13, <1>14, <1>15, <1>16, <1>17, <1>18

LEMMA ListsHaveFirst ==
    ASSUME NEW S \in SUBSET Card, Cardinality(S) \in HandSize, NEW cs, IsListOf(cs, S)
    PROVE  /\ cs \in Seq(Card) /\ Cards(cs) = S /\ Len(cs) = Cardinality(S)
           /\ DOMAIN cs = 1 .. Len(cs) /\ 1 \in DOMAIN cs /\ cs[1] \in S
<1>1. cs \in Seq(Card) /\ Cards(cs) = S /\ Len(cs) = Cardinality(S)
  BY DEF IsListOf
<1>2. DOMAIN cs = 1 .. Len(cs) /\ 1 \in DOMAIN cs
  BY <1>1 DEF HandSize
<1>3. QED
  BY <1>1, <1>2 DEF Cards

\* A hand of one to three cards.
LEMMA FewCards ==
    ASSUME NEW S \in SUBSET Card, Cardinality(S) \in {1, 2, 3}, NEW cs, IsListOf(cs, S)
    PROVE  /\ SameRank(cs) <=> OneRank(S)
           /\ Cardinality(S) = 1 => OneRank(S) /\ cs[1] = HighCard(cs)
<1>1. Cardinality(S) \in HandSize
  BY DEF HandSize
<1>2. /\ Cards(cs) = S /\ Len(cs) = Cardinality(S)
      /\ DOMAIN cs = 1 .. Len(cs) /\ 1 \in DOMAIN cs /\ cs[1] \in S
  BY <1>1, ListsHaveFirst
<1>3. S \in SUBSET S /\ S # {}
  BY <1>2
<1>4. ASSUME SameRank(cs) PROVE OneRank(S)
  <2>1. S \subseteq OfRank(S, RankOf(cs[1]))
    BY <1>2, <1>4 DEF SameRank, Cards, OfRank
  <2>2. QED
    BY <1>3, <2>1, OneRankIs
<1>5. ASSUME OneRank(S) PROVE SameRank(cs)
  <2>1. PICK r : S \subseteq OfRank(S, r)
    BY <1>3, <1>5, OneRankIs
  <2>2. \A c \in S : RankOf(c) = r
    BY <2>1 DEF OfRank
  <2>3. \A i \in DOMAIN cs : cs[i] \in S
    BY <1>2 DEF Cards
  <2>4. QED
    BY <1>2, <2>2, <2>3 DEF SameRank
<1>6. ASSUME Cardinality(S) = 1 PROVE SameRank(cs) /\ cs[1] = HighCard(cs)
  <2>1. \A i \in DOMAIN cs : i = 1
    BY <1>2, <1>6
  <2>2. SameRank(cs)
    BY <2>1 DEF SameRank
  <2>3. HighCard(cs) \in Cards(cs)
    BY <1>1, <1>2, HighestCard
  <2>4. QED
    BY <2>1, <2>2, <2>3 DEF Cards
<1>7. QED
  BY <1>4, <1>5, <1>6

\* One strength is one tuple.
LEMMA EqualWeights ==
    ASSUME NEW S \in SUBSET Card, NEW t, NEW w, Weighs(S, t, w),
           NEW T \in SUBSET Card, NEW u, Weighs(T, u, w)
    PROVE  t = u
<1>1. PICK k, x, y, z : WeightParts(t, w, k, x, y, z)
  BY WeightIs
<1>2. PICK l, p, q, m : WeightParts(u, w, l, p, q, m)
  BY WeightIs
<1>3. /\ k \in 1 .. 5 /\ x \in 0 .. 51 /\ y \in 0 .. 51 /\ z \in 0 .. 255
      /\ l \in 1 .. 5 /\ p \in 0 .. 51 /\ q \in 0 .. 51 /\ m \in 0 .. 255
      /\ w = 256 * (k - 1) + z /\ w = 256 * (l - 1) + m
  BY <1>1, <1>2 DEF WeightParts
<1>4. k = l /\ z = m
  BY <1>3
<1>5. x = p /\ y = q
  <2>1. CASE k \in {2, 5}
    <3>1. 64 * x + y = 64 * p + q
      BY <1>1, <1>2, <1>4, <2>1 DEF WeightParts
    <3>2. ~(x > p) /\ ~(p > x)
      BY <1>3, <3>1
    <3>3. x = p
      BY <1>3, <3>2
    <3>4. QED
      BY <1>3, <3>1, <3>3
  <2>2. CASE k \in {1, 3, 4}
    BY <1>1, <1>2, <1>4, <2>2 DEF WeightParts
  <2>3. QED
    BY <1>3, <2>1, <2>2
<1>6. QED
  BY <1>1, <1>2, <1>4, <1>5 DEF WeightParts

\* Hands that share no card share no weight.
LEMMA DisjointWeights ==
    ASSUME NEW S \in SUBSET Card, NEW t, NEW w, Weighs(S, t, w),
           NEW T \in SUBSET Card, NEW u, NEW v, Weighs(T, u, v), S \cap T = {}
    PROVE  w # v
<1> SUFFICES ASSUME w = v PROVE FALSE
  OBVIOUS
<1>1. t = u
  BY EqualWeights
<1>2. ASSUME NEW r \in 0 .. 12, Cardinality(OfRank(S, r)) >= 3, Cardinality(OfRank(T, r)) >= 3
      PROVE  FALSE
  <2> DEFINE A == OfRank(S, r)
             B == OfRank(T, r)
  <2>1. IsFiniteSet(A) /\ IsFiniteSet(B) /\ Cardinality(A) \in Nat /\ Cardinality(B) \in Nat
    BY FourOfARank
  <2>2. A \cap B = {} /\ A \cup B = OfRank(S \cup T, r) /\ S \cup T \in SUBSET Card
    BY DEF OfRank
  <2>3. Cardinality(OfRank(S \cup T, r)) <= 4
    BY <2>2, FourOfARank
  <2>4. Cardinality(A) >= 3 /\ Cardinality(B) >= 3
    BY <1>2
  <2> HIDE DEF A, B
  <2>5. Cardinality(A \cap B) = 0
    BY <2>2, FS_EmptySet
  <2>6. Cardinality(A \cup B) = Cardinality(A) + Cardinality(B) - Cardinality(A \cap B)
    BY <2>1, FS_Union
  <2>7. Cardinality(A \cup B) <= 4
    BY <2>2, <2>3
  <2>8. QED
    BY <2>1, <2>4, <2>5, <2>6, <2>7
<1>3. CASE \E s \in 0 .. 3, c \in S : t = <<5, s, c>>
  <2>1. PICK s \in 0 .. 3, c \in S : t = <<5, s, c>>
    BY <1>3
  <2>2. PICK d \in T, a \in 0 .. 3 : u = <<5, a, d>>
    BY <1>1, <2>1 DEF Weighs
  <2>3. t[3] = c
    BY <2>1
  <2>4. u[3] = d
    BY <2>2
  <2>5. c = d
    BY <1>1, <2>3, <2>4
  <2>6. QED
    BY <2>5
<1>4. CASE \E r \in 0 .. 12 : t = <<4, r, 0>> /\ Cardinality(OfRank(S, r)) = 4
  <2>1. PICK r \in 0 .. 12 : t = <<4, r, 0>> /\ Cardinality(OfRank(S, r)) = 4
    BY <1>4
  <2>2. Cardinality(OfRank(T, r)) = 4
    BY <1>1, <2>1 DEF Weighs
  <2>3. Cardinality(OfRank(S, r)) >= 3 /\ Cardinality(OfRank(T, r)) >= 3
    BY <2>1, <2>2
  <2>4. QED
    BY <1>2, <2>3
<1>5. CASE \E r \in 0 .. 12 : t = <<3, r, 0>> /\ Cardinality(OfRank(S, r)) = 3
  <2>1. PICK r \in 0 .. 12 : t = <<3, r, 0>> /\ Cardinality(OfRank(S, r)) = 3
    BY <1>5
  <2>2. Cardinality(OfRank(T, r)) = 3
    BY <1>1, <2>1 DEF Weighs
  <2>3. Cardinality(OfRank(S, r)) >= 3 /\ Cardinality(OfRank(T, r)) >= 3
    BY <2>1, <2>2
  <2>4. QED
    BY <1>2, <2>3
<1>6. CASE \E s \in 0 .. 3, c \in S : t = <<2, s, c>>
  <2>1. PICK s \in 0 .. 3, c \in S : t = <<2, s, c>>
    BY <1>6
  <2>2. PICK d \in T, a \in 0 .. 3 : u = <<2, a, d>>
    BY <1>1, <2>1 DEF Weighs
  <2>3. t[3] = c
    BY <2>1
  <2>4. u[3] = d
    BY <2>2
  <2>5. c = d
    BY <1>1, <2>3, <2>4
  <2>6. QED
    BY <2>5
<1>7. CASE \E c \in S : t = <<1, c, 0>>
  <2>1. PICK c \in S : t = <<1, c, 0>>
    BY <1>7
  <2>2. PICK d \in T : u = <<1, d, 0>>
    BY <1>1, <2>1 DEF Weighs
  <2>3. t[2] = c
    BY <2>1
  <2>4. u[2] = d
    BY <2>2
  <2>5. c = d
    BY <1>1, <2>3, <2>4
  <2>6. QED
    BY <2>5
<1>8. QED
  BY <1>3, <1>4, <1>5, <1>6, <1>7 DEF Weighs

\* What a weight says on its own.
LEMMA WeightsAreHands ==
    ASSUME NEW S \in SUBSET Card, NEW t, NEW w, Weighs(S, t, w)
    PROVE  t # <<>> /\ w \in Nat
<1>1. PICK k, x, y, z : WeightParts(t, w, k, x, y, z)
  BY WeightIs
<1>2. t = <<k, x, y>> /\ w = 256 * (k - 1) + z /\ k \in 1 .. 5 /\ z \in 0 .. 255
  BY <1>1 DEF WeightParts
<1>3. w \in Nat
  BY <1>2
<1>4. t # <<>>
  BY <1>2
<1>5. QED
  BY <1>3, <1>4

\* What from_cards makes of a list of distinct cards.
LEMMA ReadHand ==
    ASSUME NEW S \in SUBSET Card, Cardinality(S) \in HandSize, NEW cs, IsListOf(cs, S)
    PROVE  /\ (FromCards(cs) # NotAHand) <=> RuleValid(S)
           /\ RuleValid(S) =>
                FromCards(cs) =
                  CASE Cardinality(S) = 1 -> Hand("Single", HighCard(cs))
                    [] Cardinality(S) = 2 -> Hand("Pair", HighCard(cs))
                    [] Cardinality(S) = 3 -> Hand("Triple", HighCard(cs))
                    [] Cardinality(S) = 5 -> Hand("Five", FiveStrength(cs))
           /\ (RuleValid(S) /\ Cardinality(S) = 5) => Weighs(S, RuleFive(S), FiveStrength(cs))
           /\ (RuleValid(S) /\ Cardinality(S) # 5) => OneRank(S)
<1>1. Len(cs) = Cardinality(S)
  BY ListsHaveFirst
<1>2. \A x : /\ Hand("Single", x) # NotAHand /\ Hand("Pair", x) # NotAHand
             /\ Hand("Triple", x) # NotAHand /\ Hand("Five", x) # NotAHand
  BY DEF Hand, NotAHand
<1>3. CASE Cardinality(S) = 1
  <2>1. OneRank(S) /\ cs[1] = HighCard(cs)
    BY <1>3, FewCards
  <2>2. RuleValid(S)
    BY <1>3, <2>1 DEF RuleValid
  <2>3. FromCards(cs) = Hand("Single", HighCard(cs))
    BY <1>1, <1>3, <2>1 DEF FromCards
  <2>4. QED
    BY <1>2, <1>3, <2>1, <2>2, <2>3
<1>4. CASE Cardinality(S) = 2
  <2>1. SameRank(cs) <=> OneRank(S)
    BY <1>4, FewCards
  <2>2. RuleValid(S) <=> OneRank(S)
    BY <1>4 DEF RuleValid
  <2>3. FromCards(cs) = IF SameRank(cs) THEN Hand("Pair", HighCard(cs)) ELSE NotAHand
    BY <1>1, <1>4 DEF FromCards
  <2>4. QED
    BY <1>2, <1>4, <2>1, <2>2, <2>3
<1>5. CASE Cardinality(S) = 3
  <2>1. SameRank(cs) <=> OneRank(S)
    BY <1>5, FewCards
  <2>2. RuleValid(S) <=> OneRank(S)
    BY <1>5 DEF RuleValid
  <2>3. FromCards(cs) = IF SameRank(cs) THEN Hand("Triple", HighCard(cs)) ELSE NotAHand
    BY <1>1, <1>5 DEF FromCards
  <2>4. QED
    BY <1>2, <1>5, <2>1, <2>2, <2>3
<1>6. CASE Cardinality(S) = 5
  <2> DEFINE w == FiveStrength(cs)
  <2>1. RuleValid(S) <=> RuleFive(S) # <<>>
    BY <1>6 DEF RuleValid
  <2>2. (RuleFive(S) = <<>> /\ w = -1) \/ Weighs(S, RuleFive(S), w)
    BY <1>6, FiveCards
  <2>3. FromCards(cs) = IF w >= 0 THEN Hand("Five", w) ELSE NotAHand
    BY <1>1, <1>6 DEF FromCards
  <2> HIDE DEF w
  <2>4. CASE RuleFive(S) = <<>> /\ w = -1
    <3>1. ~(w >= 0)
      BY <2>4
    <3>2. FromCards(cs) = NotAHand /\ ~RuleValid(S)
      BY <2>1, <2>3, <2>4, <3>1
    <3>3. QED
      BY <3>2
  <2>5. CASE Weighs(S, RuleFive(S), w)
    <3>1. RuleFive(S) # <<>> /\ w \in Nat
      BY <2>5, WeightsAreHands
    <3>2. FromCards(cs) = Hand("Five", w) /\ RuleValid(S)
      BY <2>1, <2>3, <3>1
    <3>3. FromCards(cs) # NotAHand
      BY <1>2, <3>2
    <3>4. QED
      BY <1>6, <2>5, <3>2, <3>3 DEF w
  <2>6. QED
    BY <2>2, <2>4, <2>5
<1>7. QED
  BY <1>3, <1>4, <1>5, <1>6 DEF HandSize

\* Hand::from_cards accepts a list of distinct cards exactly when its set of
\* cards is a hand of the README, in whatever order the client sent the cards.
THEOREM AcceptsInEveryOrder ==
    ASSUME NEW S \in SUBSET Card, Cardinality(S) \in HandSize, NEW cs, IsListOf(cs, S)
    PROVE  (FromCards(cs) # NotAHand) <=> RuleValid(S)
BY ReadHand

\* Hand::can_beat is the order of the README, in whatever order the two
\* players sent their cards.
THEOREM BeatsInEveryOrder ==
    ASSUME NEW S \in SUBSET Card, Cardinality(S) \in HandSize, RuleValid(S),
           NEW T \in SUBSET Card, Cardinality(T) \in HandSize, RuleValid(T),
           NEW cs, IsListOf(cs, S), NEW ds, IsListOf(ds, T)
    PROVE  CanBeat(FromCards(cs), FromCards(ds)) <=> RuleBeats(S, T)
<1> DEFINE a == FromCards(cs)
           b == FromCards(ds)
           n == Cardinality(S)
           m == Cardinality(T)
           c == HighCard(cs)
           d == HighCard(ds)
<1>1. a = CASE n = 1 -> Hand("Single", c)
            [] n = 2 -> Hand("Pair", c)
            [] n = 3 -> Hand("Triple", c)
            [] n = 5 -> Hand("Five", FiveStrength(cs))
  BY ReadHand
<1>2. b = CASE m = 1 -> Hand("Single", d)
            [] m = 2 -> Hand("Pair", d)
            [] m = 3 -> Hand("Triple", d)
            [] m = 5 -> Hand("Five", FiveStrength(ds))
  BY ReadHand
<1>3. n \in {1, 2, 3, 5} /\ m \in {1, 2, 3, 5}
  BY DEF HandSize
<1>4. n = 5 => Weighs(S, RuleFive(S), FiveStrength(cs))
  BY ReadHand
<1>5. m = 5 => Weighs(T, RuleFive(T), FiveStrength(ds))
  BY ReadHand
<1>6. n # 5 => OneRank(S)
  BY ReadHand
<1>7. m # 5 => OneRank(T)
  BY ReadHand
<1>8. RuleBeats(S, T) <=>
        /\ n = m
        /\ IF n = 5
           THEN Lexicographic(RuleFive(S), RuleFive(T))
           ELSE \/ Max(RankSet(S)) > Max(RankSet(T))
                \/ /\ RankSet(S) = RankSet(T)
                   /\ Max({SuitOf(x) : x \in S}) > Max({SuitOf(x) : x \in T})
  BY DEF RuleBeats
<1>9. CanBeat(a, b) <=>
        a.kind = "Pass" \/ (b.kind # "Pass" /\ a.kind = b.kind /\ a.strength > b.strength)
  BY DEF CanBeat
<1>10. c \in Card /\ d \in Card
  BY HighestCard
<1>11. ASSUME n # 5, n = m
       PROVE  (c > d) <=> RuleBeats(S, T)
  <2>1. Max(RankSet(S)) = RankOf(c) /\ Max(RankSet(T)) = RankOf(d)
    BY HighestRank
  <2>2. RankSet(S) = {RankOf(c)} /\ Max({SuitOf(x) : x \in S}) = SuitOf(c)
    BY <1>6, <1>11, HighestSuit
  <2>3. RankSet(T) = {RankOf(d)} /\ Max({SuitOf(x) : x \in T}) = SuitOf(d)
    BY <1>7, <1>11, HighestSuit
  <2> HIDE DEF c, d, n, m
  <2>4. RuleBeats(S, T) <=>
          \/ RankOf(c) > RankOf(d)
          \/ RankOf(c) = RankOf(d) /\ SuitOf(c) > SuitOf(d)
    BY <1>8, <1>11, <2>1, <2>2, <2>3
  <2>5. QED
    BY <1>10, <2>4, OrderOfCards
<1> DEFINE v == FiveStrength(cs)
           w == FiveStrength(ds)
<1> HIDE DEF a, b, n, m, c, d, v, w
<1>12. CASE n = 5 /\ m = 5
  <2>1. a = Hand("Five", v) /\ b = Hand("Five", w)
    BY <1>1, <1>2, <1>12 DEF v, w
  <2>2. CanBeat(a, b) <=> v > w
    BY <1>9, <2>1 DEF Hand
  <2>3. (v > w) <=> Lexicographic(RuleFive(S), RuleFive(T))
    BY <1>4, <1>5, <1>12, WeightsOrder DEF v, w
  <2>4. QED
    BY <1>8, <1>12, <2>2, <2>3 DEF a, b
<1>13. CASE n # m
  <2>1. a.kind # "Pass" /\ a.kind # b.kind
    BY <1>1, <1>2, <1>3, <1>13 DEF Hand
  <2>2. QED
    BY <1>8, <1>9, <1>13, <2>1 DEF a, b
<1>14. CASE n = m /\ n # 5
  <2>1. /\ a.kind # "Pass" /\ b.kind # "Pass" /\ a.kind = b.kind
        /\ a.strength = c /\ b.strength = d
    BY <1>1, <1>2, <1>3, <1>14 DEF Hand
  <2>2. CanBeat(a, b) <=> c > d
    BY <1>9, <2>1
  <2>3. QED
    BY <1>11, <1>14, <2>2 DEF a, b
<1>15. QED
  BY <1>12, <1>13, <1>14

\* Two hands of as many cards, none of them shared, never tie: whoever holds the
\* one must be able to answer or be answered by the other, so that can_beat
\* (whose Ord instances drop the suits of quads and full houses) is total on
\* what two players can hold.
THEOREM DisjointHandsNeverTie ==
    ASSUME NEW S \in SUBSET Card, Cardinality(S) \in HandSize, RuleValid(S),
           NEW T \in SUBSET Card, Cardinality(T) = Cardinality(S), RuleValid(T),
           S \cap T = {},
           NEW cs, IsListOf(cs, S), NEW ds, IsListOf(ds, T)
    PROVE  \/ CanBeat(FromCards(cs), FromCards(ds))
           \/ CanBeat(FromCards(ds), FromCards(cs))
<1> DEFINE a == FromCards(cs)
           b == FromCards(ds)
           n == Cardinality(S)
           c == HighCard(cs)
           d == HighCard(ds)
           v == FiveStrength(cs)
           w == FiveStrength(ds)
<1>1. Cardinality(T) \in HandSize /\ n \in {1, 2, 3, 5}
  BY DEF HandSize
<1>2. a = CASE n = 1 -> Hand("Single", c)
            [] n = 2 -> Hand("Pair", c)
            [] n = 3 -> Hand("Triple", c)
            [] n = 5 -> Hand("Five", v)
  BY ReadHand
<1>3. b = CASE n = 1 -> Hand("Single", d)
            [] n = 2 -> Hand("Pair", d)
            [] n = 3 -> Hand("Triple", d)
            [] n = 5 -> Hand("Five", w)
  BY <1>1, ReadHand
<1>4. n = 5 => Weighs(S, RuleFive(S), v) /\ Weighs(T, RuleFive(T), w)
  BY <1>1, ReadHand
<1>5. c \in S /\ d \in T /\ c \in Int /\ d \in Int
  BY <1>1, HighestCard, CardParts
<1>6. n = 5 => v \in Nat /\ w \in Nat /\ v # w
  BY <1>4, WeightsAreHands, DisjointWeights
<1> HIDE DEF a, b, n, c, d, v, w
<1>7. CASE n = 5
  <2>1. a = Hand("Five", v) /\ b = Hand("Five", w)
    BY <1>2, <1>3, <1>7
  <2>2. v > w \/ w > v
    BY <1>6, <1>7
  <2>3. QED
    BY <2>1, <2>2 DEF CanBeat, Hand, a, b
<1>8. CASE n # 5
  <2>1. /\ a.kind # "Pass" /\ a.kind = b.kind
        /\ a.strength = c /\ b.strength = d
    BY <1>1, <1>2, <1>3, <1>8 DEF Hand
  <2>2. c > d \/ d > c
    BY <1>5
  <2>3. QED
    BY <2>1, <2>2 DEF CanBeat, a, b
<1>9. QED
  BY <1>7, <1>8

\* What is set side by side are two sets of cards of the sizes of a hand.
HandsDrawn ==
    /\ first \in SUBSET Card /\ Cardinality(first) \in HandSize
    /\ second \in SUBSET Card
    /\ second # {} => Cardinality(second) \in HandSize

LEMMA DrawnAreHands ==
    ASSUME NEW P \in SUBSET Card, NEW S \in Drawn(P)
    PROVE  S \in SUBSET Card /\ Cardinality(S) \in HandSize
<1>1. PICK k \in {1, 2, 3, 5} : S \in kSubset(k, P)
  BY DEF Drawn
<1>2. S \in SUBSET P /\ Cardinality(S) = k
  BY <1>1 DEF kSubset
<1>3. QED
  BY <1>1, <1>2 DEF HandSize

LEMMA HandsAreDrawn == HandsSpec => []HandsDrawn
<1>1. Draw => HandsDrawn
  <2> SUFFICES ASSUME Draw PROVE HandsDrawn
    OBVIOUS
  <2>1. PICK P \in Pools : first \in Drawn(P)
    BY DEF Draw
  <2>2. P \in SUBSET Card /\ second = {}
    BY PoolsAssumption DEF Draw
  <2>3. QED
    BY <2>1, <2>2, DrawnAreHands DEF HandsDrawn
<1>2. HandsDrawn /\ [Challenge]_<<first, second>> => HandsDrawn'
  <2> SUFFICES ASSUME HandsDrawn, [Challenge]_<<first, second>> PROVE HandsDrawn'
    OBVIOUS
  <2>1. CASE Challenge
    <3>1. second' \in Drawn(Partners) /\ first' = first /\ Partners \in SUBSET Card
      BY <2>1, PoolsAssumption DEF Challenge, PartnerHands
    <3>2. second' \in SUBSET Card /\ Cardinality(second') \in HandSize
      BY <3>1, DrawnAreHands
    <3>3. QED
      BY <3>1, <3>2 DEF HandsDrawn
  <2>2. CASE UNCHANGED <<first, second>>
    BY <2>2 DEF HandsDrawn
  <2>3. QED
    BY <2>1, <2>2
<1>3. QED
  BY <1>1, <1>2, PTL DEF HandsSpec

\* Whatever the pool, from_cards and the README agree on what is a hand: a
\* straight around the corner is none, quads take any fifth card.
THEOREM HandsFollowTheRules == HandsSpec => []ClassifiesByTheRules
<1>1. HandsDrawn => ClassifiesByTheRules
  <2> SUFFICES ASSUME HandsDrawn PROVE ClassifiesByTheRules
    OBVIOUS
  <2>1. first \in SUBSET Card /\ Cardinality(first) \in HandSize
    BY DEF HandsDrawn
  <2>2. IsListOf(Sorted(first), first)
    BY <2>1, SortedLists
  <2>3. (FromCards(Sorted(first)) # NotAHand) <=> RuleValid(first)
    BY <2>1, <2>2, AcceptsInEveryOrder
  <2>4. QED
    BY <2>3 DEF ClassifiesByTheRules, AsHand
<1>2. QED
  BY <1>1, HandsAreDrawn, PTL

\* Whatever the two pools, can_beat and the README agree on which hand wins.
THEOREM BeatingFollowsTheRules == HandsSpec => []BeatsByTheRules
<1>1. HandsDrawn => BeatsByTheRules
  <2> SUFFICES ASSUME HandsDrawn, second # {}, RuleValid(first), RuleValid(second)
               PROVE  CanBeat(AsHand(first), AsHand(second)) <=> RuleBeats(first, second)
    BY DEF BeatsByTheRules
  <2>1. /\ first \in SUBSET Card /\ Cardinality(first) \in HandSize
        /\ second \in SUBSET Card /\ Cardinality(second) \in HandSize
    BY DEF HandsDrawn
  <2>2. IsListOf(Sorted(first), first) /\ IsListOf(Sorted(second), second)
    BY <2>1, SortedLists
  <2>3. CanBeat(FromCards(Sorted(first)), FromCards(Sorted(second)))
           <=> RuleBeats(first, second)
    BY <2>1, <2>2, BeatsInEveryOrder
  <2>4. QED
    BY <2>3 DEF AsHand
<1>2. QED
  BY <1>1, HandsAreDrawn, PTL
=============================================================================
