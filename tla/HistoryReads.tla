--------------------------------- MODULE HistoryReads ---------------------------------
(***************************************************************************)
(* What players read of the same results from the store in memory and from   *)
(* the tables of Postgres, against each other and against what was handed in. *)
(***************************************************************************)
EXTENDS HistoryRepository

CONSTANTS Reader,       \* the players who read
          MaxResults    \* bound: the results handed in

ASSUME ReadsAssumption == MaxResults \in Nat

VARIABLE given        \* history variable: every result handed in, in order

\* The results that were the first of their game: those Postgres keeps.
Firsts == {given[i] : i \in {k \in DOMAIN given :
              \A j \in 1 .. k - 1 : given[j].game_id # given[k].game_id}}

\* Every result has a completion time of its own.
Times == 1 .. MaxResults
Now == MaxResults + 1

\* The tables that hold these results.
RowsOf(results) ==
    [games |-> {GameRow(x) : x \in results},
     players |-> UNION {PlayerRows(x) : x \in results},
     moves |-> UNION {MoveRows(x) : x \in results}]
Retained == RowsOf({store.games[id] : id \in DOMAIN store.games})
-----------------------------------------------------------------------------
(* Properties. *)

\* Over the same games the two repositories answer every read alike: a profile
\* under every filter, the recent games and every game's detail.
RepositoriesAgree ==
    \A p \in Reader, f \in Filter :
        /\ MemoryProfile(store, p, f) = PostgresProfile(Retained, p, f)
        /\ MemoryRecent(store, p, Limit, Now, f) = PostgresRecent(Retained, p, Limit, Now, f)
        /\ \A id \in {recorded[i].game_id : i \in DOMAIN recorded} :
              MemoryDetail(store, p, id) = PostgresDetail(Retained, p, id)

\* What a client lists that asks for the games before next_before until none come;
\* recent[before] is the page it gets.
Listed(recent) ==
    LET upTo[before \in NoMore .. Now] ==
            IF before = NoMore THEN <<>>
            ELSE Ids(recent[before].games) \o upTo[recent[before].next_before]
    IN  upTo[Now]

InOrder(results, p, f) ==
    Ids(Newest({x \in results : p \in Uuids(x) /\ Matches(f, x.had_bots)}))

\* Page after page a client lists every game of the player that the history has,
\* newest first and none twice: in memory those retained, in Postgres all of them.
PagesListEveryGame ==
    \A p \in Reader, f \in Filter, limit \in 1 .. MaxResults :
        /\ Listed([before \in 0 .. Now |-> MemoryRecent(store, p, limit, before, f)])
           = InOrder({recorded[i] : i \in Len(recorded) - Len(store.order) + 1 .. Len(recorded)},
                     p, f)
        /\ Listed([before \in 0 .. Now |-> PostgresRecent(tables, p, limit, before, f)])
           = InOrder(Firsts, p, f)
=============================================================================
