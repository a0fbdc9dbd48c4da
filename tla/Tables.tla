----------------------------------- MODULE Tables -----------------------------------
(***************************************************************************)
(* The same history in Postgres: completed_games, completed_game_players and *)
(* completed_game_moves, joined by game id.  A table is a set of rows.       *)
(***************************************************************************)
EXTENDS History

EmptyTables == [games |-> {}, players |-> {}, moves |-> {}]

\* The primary key of completed_games refuses a second game of one id.
HasRow(tables, id) == \E row \in tables.games : row.game_id = id

GameRow(result) ==
    [game_id |-> result.game_id, room_id |-> result.room_id,
     game_number |-> result.game_number, winner_uuid |-> result.winner_uuid,
     completed_at |-> result.completed_at, had_bots |-> result.had_bots]

PlayerRows(result) ==
    {[game_id |-> result.game_id, player |-> x] : x \in result.players}

MoveRow(result, i) ==
    [game_id |-> result.game_id, sequence |-> i,
     player |-> result.moves[i].player, cards |-> result.moves[i].cards]
MoveRows(result) == {MoveRow(result, i) : i \in DOMAIN result.moves}

\* One transaction: the game, a row per player and a row per move.
WithRows(tables, result) ==
    [games |-> tables.games \cup {GameRow(result)},
     players |-> tables.players \cup PlayerRows(result),
     moves |-> tables.moves \cup MoveRows(result)]

GameOf(tables, id) == CHOOSE row \in tables.games : row.game_id = id
PlayersOf(tables, id) == {row.player : row \in {x \in tables.players : x.game_id = id}}

\* Wrong variant: without DESC.
RowsOldestFirst(tables, p, f) ==
    LET mine == {row \in tables.players : row.player.uuid = p}
        rows == {[won |-> row.player.won, passes |-> row.player.passes,
                  completed_at |-> GameOf(tables, row.game_id).completed_at,
                  had_bots |-> GameOf(tables, row.game_id).had_bots] : row \in mine}
    IN  Oldest({row \in rows : Matches(f, row.had_bots)})

\* fetch_player_history_rows: newest first.
HistoryRows(tables, p, f) ==
    LET mine == {row \in tables.players : row.player.uuid = p}
        rows == {[won |-> row.player.won, passes |-> row.player.passes,
                  completed_at |-> GameOf(tables, row.game_id).completed_at,
                  had_bots |-> GameOf(tables, row.game_id).had_bots] : row \in mine}
    IN  Newest({row \in rows : Matches(f, row.had_bots)})

\* get_play_type_breakdown_from_moves
MovesOfLength(tables, p, f, n) ==
    Cardinality({mv \in tables.moves :
                    /\ mv.player = p /\ mv.cards = n
                    /\ Matches(f, GameOf(tables, mv.game_id).had_bots)})

Won(rows) == [i \in DOMAIN rows |-> rows[i].won]

PostgresProfile(tables, p, f) ==
    LET rows == HistoryRows(tables, p, f)
        recent == Won(rows)
    IN  IF HistoryRows(tables, p, "all") = <<>> THEN NoProfile
        ELSE [summary |-> Rate(recent), streaks |-> Streaks(Reverse(recent)),
              style |-> [passes |-> Sum([i \in DOMAIN rows |-> rows[i].passes]),
                         plays |-> [n \in Lengths |-> MovesOfLength(tables, p, f, n)]],
              human_only |-> Rate(Won(HistoryRows(tables, p, "human_only"))),
              with_bots |-> Rate(Won(HistoryRows(tables, p, "with_bots"))),
              short |-> Rate(Window(recent, ShortForm)),
              long |-> Rate(Window(recent, LongForm))]

PostgresSummary(tables, row, p) ==
    LET game == GameOf(tables, row.game_id)
    IN  [game_id |-> row.game_id, completed_at |-> game.completed_at,
         winner_uuid |-> game.winner_uuid,
         cards_remaining |-> row.player.cards_remaining,
         final_score |-> row.player.final_score, had_bots |-> game.had_bots,
         opponents |-> Opponents(PlayersOf(tables, row.game_id), p)]

PostgresRecent(tables, p, limit, before, f) ==
    LET mine == {row \in tables.players : row.player.uuid = p}
        relevant == {row \in mine :
                        /\ GameOf(tables, row.game_id).completed_at < before
                        /\ Matches(f, GameOf(tables, row.game_id).had_bots)}
    IN  Page(Newest({PostgresSummary(tables, row, p) : row \in relevant}), limit)

\* The moves come back by their sequence.
PostgresMoves(tables, id) ==
    LET rows == {mv \in tables.moves : mv.game_id = id}
        Nth(i) == CHOOSE mv \in rows :
                      Cardinality({x \in rows : x.sequence < mv.sequence}) = i - 1
    IN  [i \in 1 .. Cardinality(rows) |-> [player |-> Nth(i).player, cards |-> Nth(i).cards]]

PostgresDetail(tables, p, id) ==
    IF \A x \in PlayersOf(tables, id) : x.uuid # p THEN NoDetail
    ELSE [game |-> GameOf(tables, id), players |-> PlayersOf(tables, id),
          moves |-> PostgresMoves(tables, id)]
=============================================================================
