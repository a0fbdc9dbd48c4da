----------------------------------- MODULE History -----------------------------------
(***************************************************************************)
(* Finished games as the statistics keep them: the result made of a game,    *)
(* the bounded store in memory, the three tables of Postgres, and what a     *)
(* player may read from either: profile, recent games, one game in detail.   *)
(*                                                                         *)
(* A move is its player and the number of cards it put down, 0 for a pass.   *)
(* A rate is the pair of wins and games it divides.  Display names are left  *)
(* out, and what the two repositories list in different orders (a game's     *)
(* players: by seat or by id) is a set.                                      *)
(***************************************************************************)
EXTENDS Integers, Sequences, FiniteSets, SequencesExt

CONSTANTS BotPlayer,            \* the players that are bots
          Limit,                \* games kept in memory: 512 unless configured
          ShortForm, LongForm   \* the windows of recent form: 10 and 25

ASSUME HistoryAssumption ==
    /\ Limit \in Nat /\ ShortForm \in Nat /\ LongForm \in Nat
-----------------------------------------------------------------------------
(* The result of a game g: players and cards by seat, winner, moves. *)

\* CardCount first, then TenPlusMultiplier: the calculators by priority.
RawScore(cards) == cards
FinalScore(cards) == IF cards >= 10 THEN 2 * RawScore(cards) ELSE RawScore(cards)

IsPlay(mv) == mv.cards > 0
TurnsOf(g, p) == {k \in DOMAIN g.moves : g.moves[k].player = p}

\* The sum of a function into the naturals, counted one by one.
Sum(f) == Cardinality(UNION {{x} \X (1 .. f[x]) : x \in DOMAIN f})

\* What the collectors report of a finished game.
WinLoss(g, i) == g.players[i].uuid = g.winner
CardsRemaining(g, i) == g.players[i].cards

PlayerResult(g, i) ==
    LET p == g.players[i].uuid
        cards == CardsRemaining(g, i)
        turns == TurnsOf(g, p)
        plays == {k \in turns : IsPlay(g.moves[k])}
    IN  [uuid |-> p, won |-> WinLoss(g, i), cards_remaining |-> cards,
         raw_score |-> RawScore(cards), final_score |-> FinalScore(cards),
         turns_taken |-> Cardinality(turns), passes |-> Cardinality(turns \ plays),
         plays |-> Cardinality(plays),
         cards_played |-> Sum([k \in plays |-> g.moves[k].cards]),
         started_first |-> i = 1]

GameResult(g, room, number, at, bots) ==
    [game_id |-> g.id, room_id |-> room, game_number |-> number,
     winner_uuid |-> g.winner, completed_at |-> at, had_bots |-> bots,
     players |-> {PlayerResult(g, i) : i \in DOMAIN g.players},
     moves |-> g.moves]

Uuids(result) == {x.uuid : x \in result.players}
ResultOf(result, p) == CHOOSE x \in result.players : x.uuid = p

\* Plays of p by their length, over the moves of one game or of several.
Lengths == {1, 2, 3, 5}
PlaysOfLength(moves, p, n) ==
    Cardinality({i \in DOMAIN moves : moves[i].player = p /\ moves[i].cards = n})
PlayTypeBreakdown(result, p) ==
    [n \in Lengths |-> PlaysOfLength(result.moves, p, n)]
-----------------------------------------------------------------------------
(* What both repositories compute from their rows. *)

Filter == {"all", "human_only", "with_bots"}
Matches(f, bots) == CASE f = "all" -> TRUE
                      [] f = "human_only" -> ~bots
                      [] f = "with_bots" -> bots

StreakAfter(streak, won) ==
    IF won THEN LET n == streak.current + 1 IN
                [current |-> n, best |-> IF n > streak.best THEN n ELSE streak.best]
           ELSE [streak EXCEPT !.current = 0]
NoStreak == [current |-> 0, best |-> 0]
\* Of a sequence of wins and defeats, oldest first.
Streaks(wins) == FoldLeft(StreakAfter, NoStreak, wins)

Trues(s) == Cardinality({i \in DOMAIN s : s[i]})
Window(s, n) == SubSeq(s, 1, IF n < Len(s) THEN n ELSE Len(s))
Rate(wins) == [wins |-> Trues(wins), games |-> Len(wins)]

\* Rows by completion time: no two rows that are listed share one.
Oldest(rows) ==
    [i \in 1 .. Cardinality(rows) |-> CHOOSE x \in rows :
        Cardinality({y \in rows : y.completed_at < x.completed_at}) = i - 1]
Newest(rows) == Reverse(Oldest(rows))
-----------------------------------------------------------------------------
(* The store in memory: a map of games by id, and their ids in order. *)

EmptyStore == [games |-> [x \in {} |-> x], order |-> <<>>]
IsStored(store, id) == id \in DOMAIN store.games

Inserted(games, result) ==
    [id \in DOMAIN games \cup {result.game_id} |->
        IF id = result.game_id THEN result ELSE games[id]]

\* Wrong variant: the newest game is queued where the oldest is taken.
StoredInFront(store, result) ==
    LET games == Inserted(store.games, result)
        order == <<result.game_id>> \o store.order
        excess == Cardinality(DOMAIN games) - Limit
        n == IF excess > 0 THEN excess ELSE 0
        evicted == {order[i] : i \in 1 .. n}
    IN  [games |-> [id \in DOMAIN games \ evicted |-> games[id]],
         order |-> SubSeq(order, n + 1, Len(order))]

\* Insert, then evict from the front of the order while there are too many.
Stored(store, result) ==
    LET games == Inserted(store.games, result)
        order == Append(store.order, result.game_id)
        excess == Cardinality(DOMAIN games) - Limit
        n == IF excess > 0 THEN excess ELSE 0
        evicted == {order[i] : i \in 1 .. n}
    IN  [games |-> [id \in DOMAIN games \ evicted |-> games[id]],
         order |-> SubSeq(order, n + 1, Len(order))]

StoredOf(store, p) ==
    {store.games[id] : id \in {i \in DOMAIN store.games : p \in Uuids(store.games[i])}}

WinsIn(games, p) == [i \in DOMAIN games |-> games[i].winner_uuid = p]
Selected(games, f) == {g \in games : Matches(f, g.had_bots)}

MemoryPlayStyle(games, p) ==
    [passes |-> Sum([i \in DOMAIN games |-> ResultOf(games[i], p).passes]),
     plays |-> [n \in Lengths |->
                   Sum([i \in DOMAIN games |-> PlayTypeBreakdown(games[i], p)[n]])]]

NoProfile == "none"
MemoryProfile(store, p, f) ==
    LET all == StoredOf(store, p)
        games == Oldest(Selected(all, f))
        wins == WinsIn(games, p)
        recent == Reverse(wins)
    IN  IF all = {} THEN NoProfile
        ELSE [summary |-> Rate(wins), streaks |-> Streaks(wins),
              style |-> MemoryPlayStyle(games, p),
              human_only |-> Rate(WinsIn(Oldest(Selected(all, "human_only")), p)),
              with_bots |-> Rate(WinsIn(Oldest(Selected(all, "with_bots")), p)),
              short |-> Rate(Window(recent, ShortForm)),
              long |-> Rate(Window(recent, LongForm))]

Opponents(players, p) ==
    {[uuid |-> x.uuid, won |-> x.won, is_bot |-> x.uuid \in BotPlayer] :
        x \in {y \in players : y.uuid # p}}

\* A page of the games before a time, newest first, and where the next begins.
NoMore == -1
\* Wrong variant: the next page begins before the first game that was left out.
PageFromNext(games, limit) ==
    LET selected == Window(games, limit)
    IN  [games |-> selected,
         next_before |-> IF Len(games) <= limit THEN NoMore
                         ELSE games[limit + 1].completed_at]

Page(games, limit) ==
    LET selected == Window(games, limit)
    IN  [games |-> selected,
         next_before |-> IF selected = <<>> THEN NoMore
                         ELSE selected[Len(selected)].completed_at]

MemorySummary(g, p) ==
    LET mine == ResultOf(g, p)
    IN  [game_id |-> g.game_id, completed_at |-> g.completed_at,
         winner_uuid |-> g.winner_uuid, cards_remaining |-> mine.cards_remaining,
         final_score |-> mine.final_score, had_bots |-> g.had_bots,
         opponents |-> Opponents(g.players, p)]

MemoryRecent(store, p, limit, before, f) ==
    LET relevant == {g \in StoredOf(store, p) :
                        g.completed_at < before /\ Matches(f, g.had_bots)}
    IN  Page(Newest({MemorySummary(g, p) : g \in relevant}), limit)

NoDetail == "none"
\* Only a game's players may read it.
MemoryDetail(store, p, id) ==
    IF ~IsStored(store, id) \/ p \notin Uuids(store.games[id]) THEN NoDetail
    ELSE LET g == store.games[id] IN
         [game |-> [game_id |-> id, room_id |-> g.room_id, game_number |-> g.game_number,
                    winner_uuid |-> g.winner_uuid, completed_at |-> g.completed_at,
                    had_bots |-> g.had_bots],
          players |-> g.players, moves |-> g.moves]
=============================================================================
