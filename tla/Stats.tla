------------------------------------ MODULE Stats ------------------------------------
(***************************************************************************)
(* StatsService: the statistics of rooms and players, kept by one subscriber *)
(* task per room, while rooms close and reset theirs.                        *)
(*                                                                         *)
(* A task takes a GameWon, numbers the game, asks for bots, records the      *)
(* result in the history and then counts it in the room's totals; other      *)
(* tasks run between any two of its awaits.  The history is the store in     *)
(* memory or, when a database is configured, the Postgres tables.            *)
(***************************************************************************)
EXTENDS HistoryRepository

CONSTANTS Room,
          MaxGames, MaxRepeats   \* bounds: games won, repeated submissions

ASSUME StatsAssumption == MaxGames \in Nat /\ MaxRepeats \in Nat

VARIABLES persistent,  \* whether the history is in Postgres
          bots,        \* rooms the bot manager has bots in
          reset,       \* deleted rooms whose statistics have been reset
          task,        \* room -> where its subscriber is with a game
          rooms,       \* the StatsRepository: room -> totals
          profiles,    \* player -> aggregate over all rooms: InMemoryProfileAggregate
                       \* or player_profile_stats, which are written and never read
          clock,       \* the next completed_at: no two games share one
          ended,       \* room -> games won in it
          repeats,     \* repeated submissions so far
          counted      \* history variable: room -> results in its totals

vars == <<persistent, bots, reset, task, rooms, store, tables, profiles,
          clock, ended, repeats, recorded, counted>>
history == <<store, tables, profiles, recorded>>
totals == <<rooms, counted>>

Idle == [step |-> "idle"]
At(r, step) == task[r].step = step
Goes(r, to) == task' = [task EXCEPT ![r] = to]

EmptyTotals == [x \in {} |-> x]

Init ==
    /\ persistent \in BOOLEAN
    /\ bots \in SUBSET Room /\ reset = {}
    /\ task = [r \in Room |-> Idle]
    /\ rooms = EmptyTotals
    /\ store = EmptyStore /\ tables = EmptyTables /\ profiles = EmptyTotals
    /\ clock = 1 /\ ended = [r \in Room |-> 0] /\ repeats = 0
    /\ recorded = <<>> /\ counted = [r \in Room |-> <<>>]
-----------------------------------------------------------------------------
(* Totals: one more game of the player who ended it with x. *)

NewTotals == [games_played |-> 0, wins |-> 0, cards_remaining |-> 0,
              total_score |-> 0, streak |-> NoStreak]

\* Wrong variant: a defeat does not end the streak.
PlayerAfterAnyGame(stats, x) ==
    [games_played |-> stats.games_played + 1,
     wins |-> stats.wins + (IF x.won THEN 1 ELSE 0),
     cards_remaining |-> stats.cards_remaining + x.cards_remaining,
     total_score |-> stats.total_score + x.final_score,
     streak |-> IF x.won THEN StreakAfter(stats.streak, TRUE) ELSE stats.streak]

PlayerAfter(stats, x) ==
    [games_played |-> stats.games_played + 1,
     wins |-> stats.wins + (IF x.won THEN 1 ELSE 0),
     cards_remaining |-> stats.cards_remaining + x.cards_remaining,
     total_score |-> stats.total_score + x.final_score,
     streak |-> StreakAfter(stats.streak, x.won)]

Entry(map, key, default) == IF key \in DOMAIN map THEN map[key] ELSE default
With(map, key, value) ==
    [k \in DOMAIN map \cup {key} |-> IF k = key THEN value ELSE map[k]]

NewRoom == [games_played |-> 0, player_stats |-> EmptyTotals]
RoomAfter(stats, result) ==
    [games_played |-> stats.games_played + 1,
     player_stats |->
        [p \in DOMAIN stats.player_stats \cup Uuids(result) |->
            LET old == Entry(stats.player_stats, p, NewTotals)
            IN  IF p \in Uuids(result) THEN PlayerAfter(old, ResultOf(result, p)) ELSE old]]

NewProfile == [games_played |-> 0, wins |-> 0, streak |-> NoStreak,
               passes |-> 0, plays |-> [n \in Lengths |-> 0],
               human |-> [games |-> 0, wins |-> 0], bot |-> [games |-> 0, wins |-> 0]]

\* Wrong variant: a game has bots when the winner is one.
ProfileAfterByWinner(old, result, p) ==
    LET x == ResultOf(result, p)
        win == IF x.won THEN 1 ELSE 0
        kind == IF result.winner_uuid \in BotPlayer THEN "bot" ELSE "human"
        types == PlayTypeBreakdown(result, p)
    IN  [old EXCEPT !.games_played = @ + 1, !.wins = @ + win,
                    !.streak = StreakAfter(@, x.won),
                    !.passes = @ + x.passes,
                    !.plays = [n \in Lengths |-> @[n] + types[n]],
                    ![kind] = [games |-> @.games + 1, wins |-> @.wins + win]]

ProfileAfter(old, result, p) ==
    LET x == ResultOf(result, p)
        win == IF x.won THEN 1 ELSE 0
        kind == IF result.had_bots THEN "bot" ELSE "human"
        types == PlayTypeBreakdown(result, p)
    IN  [old EXCEPT !.games_played = @ + 1, !.wins = @ + win,
                    !.streak = StreakAfter(@, x.won),
                    !.passes = @ + x.passes,
                    !.plays = [n \in Lengths |-> @[n] + types[n]],
                    ![kind] = [games |-> @.games + 1, wins |-> @.wins + win]]

ProfilesAfter(result) ==
    [p \in DOMAIN profiles \cup Uuids(result) |->
        LET old == Entry(profiles, p, NewProfile)
        IN  IF p \in Uuids(result) THEN ProfileAfter(old, result, p) ELSE old]
-----------------------------------------------------------------------------
(* A room's subscriber, await by await. *)

Submit(r, game) ==
    /\ Goes(r, [step |-> "won", game |-> game])
    /\ UNCHANGED <<persistent, bots, reset, clock, history, totals>>

HasBot(o) == \E i \in DOMAIN o.players : o.players[i].uuid \in BotPlayer

\* A deleted room's game may still end: it is removed just before the reset.
GameWon(r) ==
    /\ At(r, "idle") /\ r \notin reset /\ Sum(ended) < MaxGames
    /\ ended' = [ended EXCEPT ![r] = @ + 1]
    /\ \E o \in Outcome :
          /\ HasBot(o) => r \in bots
          /\ Submit(r, [id |-> <<r, ended[r] + 1>>, players |-> o.players,
                        winner |-> o.winner, moves |-> o.moves])
    /\ UNCHANGED repeats

\* process_completed_game handed a game it has already had.
GameWonAgain(r) ==
    /\ At(r, "idle") /\ repeats < MaxRepeats
    /\ repeats' = repeats + 1
    /\ \E i \in DOMAIN recorded, o \in Outcome :
          /\ recorded[i].room_id = r /\ recorded[i].moves = o.moves
          /\ Submit(r, [id |-> recorded[i].game_id, players |-> o.players,
                        winner |-> o.winner, moves |-> o.moves])
    /\ UNCHANGED ended

\* Wrong variant: the history is asked, not the totals.
NumberFromHistory(r) ==
    Cardinality({i \in DOMAIN recorded : recorded[i].room_id = r}) + 1

NextGameNumber(r) == Entry(rooms, r, NewRoom).games_played + 1

\* The bot manager is asked for the room's bots as they are by now: those of the
\* game may have been removed since it was won, or others added.
RoomContainsBots(r) == r \in bots

\* No other task tells the read of the number from the questions that follow it.
MakeResult(r) ==
    /\ At(r, "won")
    /\ Goes(r, [step |-> "record",
                result |-> GameResult(task[r].game, r, NextGameNumber(r), clock,
                                      RoomContainsBots(r))])
    /\ clock' = clock + 1
    /\ UNCHANGED <<persistent, bots, reset, ended, repeats, history, totals>>

IsRecorded(result) == IF persistent THEN HasRow(tables, result.game_id)
                                    ELSE IsStored(store, result.game_id)

\* Wrong variant: what the history answered is ignored.
DuplicateCounted(r) ==
    /\ At(r, "record") /\ IsRecorded(task[r].result)
    /\ Goes(r, [step |-> "count", result |-> task[r].result])
    /\ UNCHANGED <<persistent, bots, reset, clock, ended, repeats, history, totals>>

\* The room's totals go out as they are; nothing is recorded or counted.
Duplicate(r) ==
    /\ At(r, "record") /\ IsRecorded(task[r].result)
    /\ Goes(r, Idle)
    /\ UNCHANGED <<persistent, bots, reset, clock, ended, repeats, history, totals>>

Transaction(result) ==
    /\ tables' = WithRows(tables, result)
    /\ profiles' = ProfilesAfter(result)
    /\ recorded' = Append(recorded, result)

Recorded(r) ==
    LET result == task[r].result IN
    /\ At(r, "record") /\ ~IsRecorded(result)
    /\ IF persistent
       THEN /\ Transaction(result) /\ UNCHANGED store
            /\ Goes(r, [step |-> "count", result |-> result])
       ELSE /\ store' = Stored(store, result)
            /\ recorded' = Append(recorded, result)
            /\ Goes(r, [step |-> "aggregate", result |-> result])
            /\ UNCHANGED <<tables, profiles>>
    /\ UNCHANGED <<persistent, bots, reset, clock, ended, repeats, totals>>

\* The database fails, before or after the commit: the handler gives up.
RecordFails(r) ==
    /\ At(r, "record") /\ persistent
    /\ \/ UNCHANGED history
       \/ ~IsRecorded(task[r].result) /\ Transaction(task[r].result) /\ UNCHANGED store
    /\ Goes(r, Idle)
    /\ UNCHANGED <<persistent, bots, reset, clock, ended, repeats, totals>>

\* In memory the aggregates are behind a lock of their own.
Aggregate(r) ==
    /\ At(r, "aggregate")
    /\ profiles' = ProfilesAfter(task[r].result)
    /\ Goes(r, [step |-> "count", result |-> task[r].result])
    /\ UNCHANGED <<persistent, bots, reset, clock, ended, repeats,
                   store, tables, recorded, totals>>

RecordGame(r) ==
    /\ At(r, "count")
    /\ rooms' = With(rooms, r, RoomAfter(Entry(rooms, r, NewRoom), task[r].result))
    /\ counted' = [counted EXCEPT ![r] = Append(@, task[r].result)]
    /\ Goes(r, Idle)
    /\ UNCHANGED <<persistent, bots, reset, clock, ended, repeats, history>>
-----------------------------------------------------------------------------
(* The room's bots, and its end, by a leave or by the inactivity clean-up. *)

ChangeBots(r) ==
    /\ bots' = IF r \in bots THEN bots \ {r} ELSE bots \cup {r}
    /\ r \in reset => r \in bots      \* a room that is gone gets no more
    /\ UNCHANGED <<persistent, reset, task, clock, ended, repeats, history, totals>>

ResetRoomStats(r) ==
    /\ r \notin reset
    /\ reset' = reset \cup {r}
    /\ rooms' = [x \in DOMAIN rooms \ {r} |-> rooms[x]]
    /\ counted' = [counted EXCEPT ![r] = <<>>]
    /\ UNCHANGED <<persistent, bots, task, clock, ended, repeats, history>>

Handler(r) ==
    \/ MakeResult(r) \/ Duplicate(r) \/ Recorded(r)
    \/ RecordFails(r) \/ Aggregate(r) \/ RecordGame(r)

Next == \E r \in Room :
    \/ GameWon(r) \/ GameWonAgain(r) \/ Handler(r) \/ ChangeBots(r) \/ ResetRoomStats(r)

Spec == Init /\ [][Next]_vars
-----------------------------------------------------------------------------
(* Properties. *)

\* A room counts only results the history has, each recording once.
CountsOnlyRecorded ==
    \A r \in Room : \A i \in DOMAIN counted[r] :
        /\ \E k \in DOMAIN recorded : recorded[k] = counted[r][i]
        /\ \A j \in DOMAIN counted[r] : i # j => counted[r][i] # counted[r][j]

GamesOf(results, p) == {i \in DOMAIN results : p \in Uuids(results[i])}

\* The winning run of p that is under way after the first e results: p's games
\* that no defeat of p follows among them.
RunAt(results, p, e) ==
    {i \in GamesOf(results, p) :
        i <= e /\ \A k \in GamesOf(results, p) :
                      i <= k /\ k <= e => results[k].winner_uuid = p}

Recount(results, p) ==
    LET mine == GamesOf(results, p)
        Own(i) == ResultOf(results[i], p)
        Run(e) == Cardinality(RunAt(results, p, e))
    IN  [games_played |-> Cardinality(mine),
         wins |-> Cardinality({i \in mine : results[i].winner_uuid = p}),
         cards_remaining |-> Sum([i \in mine |-> Own(i).cards_remaining]),
         total_score |-> Sum([i \in mine |-> Own(i).final_score]),
         streak |-> [current |-> Run(Len(results)),
                     best |-> Max({0} \cup {Run(e) : e \in DOMAIN results})]]

\* A room's totals, kept game by game, are those of a recount of the games since
\* its last reset: streaks run over a player's own games only, and a room without
\* totals has counted none.
TotalsAreARecount ==
    \A r \in Room :
        IF r \notin DOMAIN rooms THEN counted[r] = <<>>
        ELSE /\ rooms[r].games_played = Len(counted[r])
             /\ \A p \in DOMAIN rooms[r].player_stats :
                    rooms[r].player_stats[p] = Recount(counted[r], p)
             /\ \A i \in DOMAIN counted[r] :
                    Uuids(counted[r][i]) \subseteq DOMAIN rooms[r].player_stats

\* Until its reset a room numbers the games it counts 1, 2, 3 ..., although the
\* number is read before the game is recorded and counted.
GamesAreNumbered ==
    \A r \in Room : r \notin reset =>
        \A i \in DOMAIN counted[r] : counted[r][i].game_number = i

Pending == {r \in Room : At(r, "aggregate")}
Aggregated(p) == {i \in DOMAIN recorded :
    p \in Uuids(recorded[i]) /\ \A r \in Pending : task[r].result # recorded[i]}

\* The moves by which p put down n cards in these games of the results.
PlaysIn(results, games, p, n) ==
    UNION {{i} \X {k \in DOMAIN results[i].moves :
                      results[i].moves[k].player = p /\ results[i].moves[k].cards = n} :
              i \in games}

\* The aggregates that recording keeps of each player, InMemoryProfileAggregate and
\* the table player_profile_stats, count every recorded result of the player once,
\* whichever rooms record at the same time, and split them between games with and
\* without bots.  No read uses them so far (the struct is marked dead_code).  The
\* profile a player is shown is computed anew by get_player_profile_stats: in memory
\* it reflects the retained window only (RepositoriesAgree, WindowIsNewest).
AggregatesCountEveryResult ==
    \A p \in DOMAIN profiles :
        LET mine == Aggregated(p)
            won == {i \in mine : recorded[i].winner_uuid = p}
            withBots == {i \in mine : recorded[i].had_bots}
            Split(s) == [games |-> Cardinality(s), wins |-> Cardinality(s \cap won)]
        IN  /\ profiles[p].games_played = Cardinality(mine)
            /\ profiles[p].wins = Cardinality(won)
            /\ profiles[p].bot = Split(withBots)
            /\ profiles[p].human = Split(mine \ withBots)
            /\ profiles[p].streak.best <= Cardinality(won)
            /\ \A n \in Lengths :
                   profiles[p].plays[n] = Cardinality(PlaysIn(recorded, mine, p, n))

\* A game that a bot played in is never listed among the games of humans.
HumanOnlyMeansNoBots ==
    \A i \in DOMAIN recorded :
        recorded[i].had_bots \/ Uuids(recorded[i]) \cap BotPlayer = {}
=============================================================================
