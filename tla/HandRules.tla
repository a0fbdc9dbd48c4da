-------------------------------- MODULE HandRules --------------------------------
(***************************************************************************)
(* Hands against the rules as a player reads them (the repository's README,  *)
(* "Valid Hands" and "Card Rankings"), which are stated here over sets of    *)
(* cards: a hand is drawn from one of Pools, then one of Partners is set      *)
(* against it.                                                               *)
(***************************************************************************)
EXTENDS Hands, FiniteSetsExt

CONSTANTS Pools,      \* sets of cards the first hand is drawn from
          Partners    \* the cards the second hand is drawn from

ASSUME PoolsAssumption == Pools \subseteq SUBSET Card /\ Partners \subseteq Card

VARIABLES first, second    \* sets of cards; {} until drawn

Drawn(pool) == UNION {kSubset(k, pool) : k \in {1, 2, 3, 5}}

Draw == first \in UNION {Drawn(p) : p \in Pools} /\ second = {}

AsHand(S) == FromCards(Sorted(S))

PartnerHands == {S \in Drawn(Partners) : AsHand(S) # NotAHand}

Challenge ==
    /\ second = {} /\ AsHand(first) # NotAHand
    /\ second' \in PartnerHands
    /\ UNCHANGED first

HandsSpec == Draw /\ [][Challenge]_<<first, second>>

-----------------------------------------------------------------------------
(* The rules. *)

\* Card faces in their natural order: ace 1 or 14, two 2, ..., king 13.
RankOfFace(v) == (v + 10) % 13
Run(low) == {RankOfFace(v) : v \in low .. low + 4}
RankSet(S) == {RankOf(c) : c \in S}
OneRank(S) == Cardinality(RankSet(S)) = 1
OneSuit(S) == Cardinality({SuitOf(c) : c \in S}) = 1

RuleStraight(S) == \E low \in 1 .. 10 : RankSet(S) = Run(low)
RuleTop(S) == LET low == CHOOSE l \in 1 .. 10 : RankSet(S) = Run(l)
              IN  CHOOSE c \in S : RankOf(c) = RankOfFace(low + 4)
RuleQuad(S) == {Q \in kSubset(4, S) : OneRank(Q)}
RuleFullHouse(S) == {T \in kSubset(3, S) : OneRank(T) /\ OneRank(S \ T)}
RankIn(F) == CHOOSE r \in 0 .. 12 : \E Q \in F : r \in RankSet(Q)
SuitIn(S) == SuitOf(CHOOSE c \in S : TRUE)

\* A five-card hand as the tuple it compares by, <<>> when it is none.
RuleFive(S) ==
    CASE RuleStraight(S) /\ OneSuit(S) -> <<5, SuitIn(S), RuleTop(S)>>
      [] RuleQuad(S) # {} -> <<4, RankIn(RuleQuad(S)), 0>>
      [] RuleFullHouse(S) # {} -> <<3, RankIn(RuleFullHouse(S)), 0>>
      [] OneSuit(S) /\ ~RuleStraight(S) -> <<2, SuitIn(S), Max(S)>>
      [] RuleStraight(S) /\ ~OneSuit(S) -> <<1, RuleTop(S), 0>>
      [] OTHER -> <<>>

Lexicographic(s, t) ==
    \E i \in 1 .. 3 : s[i] > t[i] /\ \A j \in 1 .. i - 1 : s[j] = t[j]

RuleValid(S) == IF Cardinality(S) = 5 THEN RuleFive(S) # <<>> ELSE OneRank(S)

RuleBeats(S, T) ==
    /\ Cardinality(S) = Cardinality(T)
    /\ IF Cardinality(S) = 5
       THEN Lexicographic(RuleFive(S), RuleFive(T))
       ELSE \/ Max(RankSet(S)) > Max(RankSet(T))
            \/ /\ RankSet(S) = RankSet(T)
               /\ Max({SuitOf(c) : c \in S}) > Max({SuitOf(c) : c \in T})

-----------------------------------------------------------------------------
(* Properties. *)

\* from_cards accepts exactly the sets of cards the rules call a hand: the
\* three runs with an ace or a two, no run around the corner (J-Q-K-A-2,
\* Q-K-A-2-3, ...), quads with any fifth card.
ClassifiesByTheRules == (AsHand(first) # NotAHand) <=> RuleValid(first)

\* can_beat is the order of the rules: size against size, among five cards
\* straight < flush < full house < four of a kind < straight flush, a flush by
\* its suit before its card, an ace-low straight by its five.
BeatsByTheRules ==
    (second # {} /\ RuleValid(first) /\ RuleValid(second)) =>
        (CanBeat(AsHand(first), AsHand(second)) <=> RuleBeats(first, second))
=============================================================================
