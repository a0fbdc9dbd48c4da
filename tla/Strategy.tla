---------------------------------- MODULE Strategy ----------------------------------
(***************************************************************************)
(* How a bot decides in a game (bot/basic_strategy.rs, bot/ai_strategy.rs):  *)
(* the basic strategy finds the legal moves by checks of its own and takes   *)
(* one of lowest average rank; the other asks a service, and falls back to   *)
(* the basic one whenever the answer will not do.                            *)
(*                                                                         *)
(* None, the decision to pass, is the empty list, as in the event that the   *)
(* bot subscriber emits.                                                     *)
(***************************************************************************)
EXTENDS Game, FiniteSetsExt, TLC

VARIABLE bots    \* seats that are played by the basic strategy

Combinations(S, size) == {Sorted(T) : T \in kSubset(size, S)}

\* Wrong variant: after three passes the hand on the table still counts.
IsValidMoveTableKept(cards) ==
    /\ FromCards(cards) # NotAHand
    /\ ~opened => ThreeOfDiamonds \in Cards(cards)
    /\ opened /\ standing # <<>> => CanBeat(FromCards(cards), FromCards(standing))

IsValidMove(cards) ==
    /\ FromCards(cards) # NotAHand
    /\ ~opened => ThreeOfDiamonds \in Cards(cards)
    /\ opened /\ consecutive_passes < 3 /\ standing # <<>> =>
          CanBeat(FromCards(cards), FromCards(standing))

OrderedMoves(s, size) == {cards \in Combinations(hand[s], size) : IsValidMove(cards)}

\* find_legal_moves_for_bot_turn
LegalMoves(s) ==
    IF s # current_turn THEN {} ELSE UNION {OrderedMoves(s, size) : size \in {1, 2, 3, 5}}

-----------------------------------------------------------------------------
(* choose_best_move_with_rng: per size the lowest average rank, then the      *)
(* first in the order of Vec<Card>; one of the sizes that tie.                *)

\* The ranks added up, counted one by one.
RankSum(cards) == Cardinality(UNION {{i} \X (1 .. RankOf(cards[i])) : i \in DOMAIN cards})
LowerAverage(a, b) == RankSum(a) * Len(b) < RankSum(b) * Len(a)

\* Of two moves of one size.
Before(a, b) ==
    \E i \in DOMAIN a : a[i] < b[i] /\ \A j \in 1 .. i - 1 : a[j] = b[j]

BestOfSize(moves, size) ==
    CHOOSE m \in {x \in moves : Len(x) = size} :
        \A x \in moves \ {m} : Len(x) = size =>
            LowerAverage(m, x) \/ (~LowerAverage(x, m) /\ Before(m, x))

ChooseBestMove(moves) ==
    LET best == {BestOfSize(moves, size) : size \in {Len(x) : x \in moves}}
    IN  {m \in best : \A x \in best : ~LowerAverage(x, m)}

\* BasicBotStrategy::decide_move, given the legal moves: what the random choice
\* may come to.
BasicDecisions(legal) == IF legal = {} THEN {<<>>} ELSE ChooseBestMove(legal)

-----------------------------------------------------------------------------
(* AiBotStrategy::decide_move, given the legal moves and what the service      *)
(* answers: a list of cards, which is sorted first, or something else.         *)

\* No answer, an error status, cards that do not parse, or that are no legal move.
Failure == <<-1>>

\* Wrong variant: a pass is offered on the opening move, too.
AllowPassFromStart == consecutive_passes < 3

AllowPass == consecutive_passes < 3 /\ opened

AiDecisions(legal, answer) ==
    CASE answer = <<>> /\ AllowPass -> {<<>>}
      [] answer \in legal -> {answer}
      [] OTHER -> BasicDecisions(legal)

\* The service is another program: it may answer anything.
Decisions(legal) ==
    BasicDecisions(legal)
    \cup UNION {AiDecisions(legal, answer) : answer \in legal \cup {<<>>, Failure}}

-----------------------------------------------------------------------------
(* A table: some seats are basic bots, the others make any accepted move, as   *)
(* humans and bots with a service may.                                       *)

TableInit == Init /\ bots \in SUBSET Seat

BotPlays(s) ==
    /\ s \in bots /\ s = current_turn
    /\ \E cards \in BasicDecisions(LegalMoves(s)) :
          IF cards = <<>> THEN HandlePass(s) ELSE HandleCardPlay(s, cards)
    /\ UNCHANGED bots

Plays(s) ==
    /\ s \notin bots /\ s = current_turn
    /\ HandlePass(s) \/ \E cards \in Moves : HandleCardPlay(s, cards)
    /\ UNCHANGED bots

TableNext == \E s \in Seat : BotPlays(s) \/ Plays(s)

tableVars == <<vars, bots>>

\* Whoever has the turn moves in the end.
FairTable == WF_tableVars(TableNext)
TableSpec == TableInit /\ [][TableNext]_tableVars /\ FairTable
-----------------------------------------------------------------------------
(* Properties. *)

\* A bot that is asked in its turn decides on a move the game accepts, however odd
\* the service's answer; it never passes on the opening move nor a fourth time, and
\* the basic strategy passes only when no cards of the hand would be accepted.
\* Round takes this for granted of every bot that does not time out.
BotsDecideWell ==
    ~IsFinished =>
        LET s == current_turn
            legal == LegalMoves(s)
        IN  /\ \A m \in Decisions(legal) :
                  IF m = <<>> THEN consecutive_passes < 3 /\ opened ELSE Accepts(s, m)
            /\ legal = {} =>
                  \A size \in 1 .. 5 : \A m \in Combinations(hand[s], size) : ~Accepts(s, m)

\* Every game ends, if each player moves in turn: nobody can pass for ever, and a
\* bot is never refused the only move it would try.
GameEnds == <>IsFinished
=============================================================================
