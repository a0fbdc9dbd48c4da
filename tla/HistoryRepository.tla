------------------------------- MODULE HistoryRepository -------------------------------
(***************************************************************************)
(* The GameHistoryRepository as its callers share it: the store in memory or *)
(* the tables of Postgres, and what they have taken.                         *)
(***************************************************************************)
EXTENDS Tables

CONSTANT Outcome      \* what a finished game may be: players, winner, moves

\* A game's players are different ones, and its moves are theirs, in order.
ASSUME OutcomeAssumption ==
    \A o \in Outcome :
        /\ \A i \in DOMAIN o.players : o.players[i].cards \in Nat
        /\ \A i, j \in DOMAIN o.players :
              i # j => o.players[i].uuid # o.players[j].uuid
        /\ o.moves \in Seq([player : {o.players[i].uuid : i \in DOMAIN o.players},
                             cards : Nat])

VARIABLES store, tables,
          recorded     \* history variable: the results taken, in order

\* Wrong variant: nobody asks whether the store has the game.
RecordTwiceInMemory(result) ==
    store' = Stored(store, result) /\ recorded' = Append(recorded, result)

\* record_completed_game of either repository: false when it has the game.
RecordInMemory(result) ==
    IF IsStored(store, result.game_id) THEN UNCHANGED <<store, recorded>>
    ELSE store' = Stored(store, result) /\ recorded' = Append(recorded, result)

RecordInPostgres(result) ==
    tables' = IF HasRow(tables, result.game_id) THEN tables ELSE WithRows(tables, result)

-----------------------------------------------------------------------------
(* Properties. *)

LastOf(s, n) == IF Len(s) <= n THEN s ELSE SubSeq(s, Len(s) - n + 1, Len(s))
Ids(results) == [i \in DOMAIN results |-> results[i].game_id]

\* The store in memory holds the last Limit results it took, under their own ids,
\* and its order names exactly the games it holds: the eviction loop, which pops the
\* order until the map is small enough, always ends.
WindowIsNewest ==
    LET window == LastOf(recorded, Limit) IN
    /\ store.order = Ids(window)
    /\ DOMAIN store.games = {window[i].game_id : i \in DOMAIN window}
    /\ \A i \in DOMAIN window : store.games[window[i].game_id] = window[i]

\* A game handed in again is taken again only after Limit others were: one that the
\* store retains is never counted twice.
RecordedOnce ==
    \A i, j \in DOMAIN recorded :
        i < j /\ recorded[i].game_id = recorded[j].game_id => j - i > Limit
=============================================================================
