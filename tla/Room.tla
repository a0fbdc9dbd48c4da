----------------------------------- MODULE Room -----------------------------------
(***************************************************************************)
(* One room of the room repository (room/models.rs, room/repository.rs):     *)
(* who is seated, in the order they joined, who hosts, who is ready and who  *)
(* is connected.  The repository holds one lock for a whole operation, so    *)
(* each operation is one action; an operation on a missing room is an error  *)
(* that changes nothing, and is a guard that fails here.                     *)
(***************************************************************************)
EXTENDS Naturals, Sequences, FiniteSets

CONSTANTS Human,    \* uuids of sessions
          Bot,      \* uuids that start with "bot-"
          NoHost

Player == Human \cup Bot

ASSUME PlayersAssumption == Human \cap Bot = {} /\ NoHost \notin Player

Capacity == 4

VARIABLES exists,       \* whether the repository has the room
          players,      \* player_uuids
          host,         \* host_uuid
          ready,        \* ready_players
          connected     \* connected_players

vars == <<exists, players, host, ready, connected>>

Elements(s) == {s[i] : i \in 1 .. Len(s)}
Seated == Elements(players)

\* A seated player is in the list once (SeatedOnce), so retain takes one element out.
Position(s, p) == CHOOSE i \in 1 .. Len(s) : s[i] = p
Without(s, p) ==
    [i \in 1 .. Len(s) - 1 |-> IF i < Position(s, p) THEN s[i] ELSE s[i + 1]]

\* Wrong variant: whoever joined first, bots included.
FirstSeated(s) == s[1]

\* Wrong variant: the human who joined last.
LastHuman(s) ==
    s[CHOOSE i \in 1 .. Len(s) :
        s[i] \in Human /\ \A j \in i + 1 .. Len(s) : s[j] \notin Human]

\* The first element that is not a bot.
FirstHuman(s) ==
    s[CHOOSE i \in 1 .. Len(s) :
        s[i] \in Human /\ \A j \in 1 .. i - 1 : s[j] \notin Human]

Absent == /\ exists' = FALSE /\ players' = <<>> /\ host' = NoHost
          /\ ready' = {} /\ connected' = {}

Init == /\ exists = FALSE /\ players = <<>> /\ host = NoHost
        /\ ready = {} /\ connected = {}
-----------------------------------------------------------------------------
CreateRoom(h) ==
    /\ ~exists
    /\ exists' = TRUE /\ players' = <<h>> /\ host' = h
    /\ ready' = {} /\ connected' = {}

\* Wrong variant: the capacity is checked, but not whether the player is seated.
TryJoinAgain(p) ==
    /\ exists /\ Len(players) < Capacity
    /\ players' = Append(players, p)
    /\ connected' = connected \cup {p}
    /\ UNCHANGED <<exists, host, ready>>

\* Wrong variant: the fifth player is still let in.
TryJoinFull(p) ==
    /\ exists /\ p \notin Seated /\ Len(players) <= Capacity
    /\ players' = Append(players, p)
    /\ connected' = connected \cup {p}
    /\ UNCHANGED <<exists, host, ready>>

\* try_join_room: a seated player gets the unchanged room, a full room refuses.
TryJoinRoom(p) ==
    /\ exists /\ p \notin Seated /\ Len(players) < Capacity
    /\ players' = Append(players, p)
    /\ connected' = connected \cup {p}
    /\ UNCHANGED <<exists, host, ready>>

\* Empty, or only bots remain.
Deserted(rest) == Elements(rest) \cap Human = {}

\* leave_room: the seat, the ready and the connected entry go together; the
\* last human out deletes the room; a leaving host hands over.
LeaveRoom(p) ==
    LET rest == Without(players, p) IN
    /\ exists /\ p \in Seated
    /\ IF Deserted(rest)
       THEN Absent
       ELSE /\ players' = rest
            /\ ready' = ready \ {p} /\ connected' = connected \ {p}
            /\ host' = IF host = p THEN FirstHuman(rest) ELSE host
            /\ UNCHANGED exists

\* set_ready and toggle_ready: mark_ready ignores a player without a seat.
MarkReady(p) ==
    /\ exists /\ p \in Seated
    /\ ready' = ready \cup {p}
    /\ UNCHANGED <<exists, players, host, connected>>

MarkUnready(p) ==
    /\ exists
    /\ ready' = ready \ {p}
    /\ UNCHANGED <<exists, players, host, connected>>

\* clear_ready_states, when a game starts.
ClearReadyStates ==
    /\ exists
    /\ ready' = {}
    /\ UNCHANGED <<exists, players, host, connected>>

\* Wrong variant: a late connect event of a player who left is taken at its word.
MarkAnyConnected(p) ==
    /\ exists
    /\ connected' = connected \cup {p}
    /\ UNCHANGED <<exists, players, host, ready>>

MarkConnected(p) ==
    /\ exists /\ p \in Seated
    /\ connected' = connected \cup {p}
    /\ UNCHANGED <<exists, players, host, ready>>

MarkDisconnected(p) ==
    /\ exists
    /\ connected' = connected \ {p}
    /\ UNCHANGED <<exists, players, host, ready>>

\* delete_room, from the inactivity cleanup.
DeleteRoom == exists /\ Absent

\* Any player may ask for anything at any time: commands and events of a player
\* who has left arrive late.  Only a human has a session to create a room with.
Next ==
    \/ \E h \in Human : CreateRoom(h)
    \/ \E p \in Player :
        \/ TryJoinRoom(p)
        \/ LeaveRoom(p)
        \/ MarkReady(p)
        \/ MarkUnready(p)
        \/ MarkConnected(p)
        \/ MarkDisconnected(p)
    \/ ClearReadyStates
    \/ DeleteRoom

Spec == Init /\ [][Next]_vars
-----------------------------------------------------------------------------
TypeOK ==
    /\ exists \in BOOLEAN
    /\ players \in Seq(Player) /\ Len(players) <= Capacity
    /\ host \in Player \cup {NoHost}
    /\ ready \subseteq Player /\ connected \subseteq Player

\* Nobody holds two of the four seats, however often a player joins, leaves
\* and joins again; create_game refuses a list that names a player twice.
SeatedOnce ==
    \A i, j \in 1 .. Len(players) : players[i] = players[j] => i = j

\* A room is never without a host, and the host is a seated human, so that
\* somebody can start the game: "No human players left, only bots - this
\* shouldn't happen due to earlier check" in leave_room.
HostIsSeatedHuman == exists => host \in Human \cap Seated

\* The ready and the connected players are seated: a leaver who joins again
\* is not ready, and a connect or ready event that arrives late leaves no trace.
MarksBelongToSeated == ready \cup connected \subseteq Seated

\* Seniority of p over q in the list s.
Before(s, p, q) == \E i, j \in 1 .. Len(s) : i < j /\ s[i] = p /\ s[j] = q

\* The host keeps the room until leaving it, and then the human who has been
\* seated longest takes over.
HostPassesToSenior ==
    [][exists /\ exists' =>
        \/ host' = host
        \/ /\ host \notin Elements(players')
           /\ \A h \in (Human \cap Elements(players')) \ {host'} :
                 Before(players, host', h)]_vars
=============================================================================
