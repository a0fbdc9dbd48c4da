-------------------------------- MODULE CompletedGames --------------------------------
(***************************************************************************)
(* The two game history repositories, given the same results one after the   *)
(* other: the store in memory, which evicts, and the Postgres tables, which  *)
(* do not.  Results of different rooms may be recorded in another order than *)
(* their games were completed in, and a game may be handed in again.         *)
(***************************************************************************)
EXTENDS HistoryReads

CONSTANT MaxGames      \* bound: the games

ASSUME CompletedGamesAssumption == MaxGames \in Nat

vars == <<store, tables, recorded, given>>

Init == store = EmptyStore /\ tables = EmptyTables /\ recorded = <<>> /\ given = <<>>

Record(result) ==
    /\ RecordInMemory(result) /\ RecordInPostgres(result)
    /\ given' = Append(given, result)

Next ==
    /\ Len(given) < MaxResults
    /\ \E id \in 1 .. MaxGames, o \in Outcome, had_bots \in BOOLEAN, at \in Times :
          /\ \A i \in DOMAIN given :
                /\ given[i].completed_at # at
                /\ given[i].game_id = id => given[i].moves = o.moves
          /\ id \in 1 .. Cardinality(Firsts) + 1     \* ids by their first use
          /\ Record(GameResult([id |-> id, players |-> o.players, winner |-> o.winner,
                                moves |-> o.moves], "room", 1, at, had_bots))

Spec == Init /\ [][Next]_vars
=============================================================================
