-------------------------------- MODULE Connection --------------------------------
(***************************************************************************)
(* The WebSocket connections of the players of one room: the task that serves *)
(* a connection from registration to clean-up (websockets/handler.rs), the    *)
(* registry of outbound channels (connection_manager.rs), and the WebSocket   *)
(* subscriber's part in who is shown as connected (connection_events.rs).     *)
(*                                                                           *)
(* A connection is its token.  Each await of the serving task is a step, so   *)
(* that the tasks of an old and a new connection of one player, and the       *)
(* subscriber, run between any two of them.  Messages are left out: of a      *)
(* channel it matters who holds a sender and whether the receiver is dropped. *)
(***************************************************************************)
EXTENDS Naturals, Sequences

CONSTANTS Human, Bot, NoHost,   \* as in Room
          MaxConnections        \* bound: connections opened in a run

ASSUME ConnectionAssumption ==
    /\ Human \cap Bot = {} /\ NoHost \notin Human \cup Bot
    /\ MaxConnections \in Nat

VARIABLES exists, players, host, ready, connected,   \* the room
          tokens,       \* next_token: connections so far
          owner,        \* token -> the player of its session
          serving,      \* token -> how far the task that serves it has come
          hungUp,       \* connections whose client has closed the socket
          registered,   \* player -> the token in the registry, or None
          queue         \* the events the WebSocket subscriber has yet to take

room == <<exists, players, host, ready, connected>>
vars == <<exists, players, host, ready, connected,
          tokens, owner, serving, hungUp, registered, queue>>

R == INSTANCE Room

None == 0
Token == 1 .. MaxConnections

\* "token": has its token; "inserted": in the registry; "marked": shown as
\* connected; "running": serving the socket; "ended": the receiver is dropped;
\* "removed", "unmarked": cleaning up; "done": cleaned up; "stale": found that
\* the registry no longer has it, and stopped.
Stage == {"none", "token", "inserted", "marked", "running", "ended",
          "removed", "unmarked", "done", "stale"}

Open(c) == serving[c] \in {"inserted", "marked", "running"}

Event(kind, p) == [kind |-> kind, player |-> p]
Connected(p) == Event("PlayerConnected", p)
Disconnected(p) == Event("PlayerDisconnected", p)

Advance(c, from, to) ==
    /\ serving[c] = from
    /\ serving' = [serving EXCEPT ![c] = to]

\* Some have joined, which marks them as connected.
Init ==
    /\ exists = TRUE /\ ready = {}
    /\ players \in {s \in UNION {[1 .. n -> Human] : n \in 1 .. R!Capacity} :
                       \A i, j \in DOMAIN s : s[i] = s[j] => i = j}
    /\ host = players[1] /\ connected = R!Seated
    /\ tokens = 0
    /\ owner = [c \in Token |-> None] /\ serving = [c \in Token |-> "none"]
    /\ hungUp = {}
    /\ registered = [p \in Human |-> None]
    /\ queue = <<>>
-----------------------------------------------------------------------------
(* The task that serves a connection. *)

\* The room exists when the socket is upgraded; whether the player is seated is
\* not asked.  The token is taken under a lock of its own.
TakeToken(p) ==
    /\ exists /\ tokens < MaxConnections
    /\ tokens' = tokens + 1
    /\ owner' = [owner EXCEPT ![tokens + 1] = p]
    /\ serving' = [serving EXCEPT ![tokens + 1] = "token"]
    /\ UNCHANGED <<room, hungUp, registered, queue>>

\* Wrong variant: the counter is read again when the registry is locked.
LatestToken(c) == tokens

OwnToken(c) == c

\* add_connection: the new sender replaces the old one, which is dropped.
Insert(c) ==
    /\ Advance(c, "token", "inserted")
    /\ registered' = [registered EXCEPT ![owner[c]] = OwnToken(c)]
    /\ UNCHANGED <<room, tokens, owner, hungUp, queue>>

\* mark_player_connected; an error when the room is gone, which is logged.
Mark(p) == IF exists /\ p \in R!Seated THEN R!MarkConnected(p) ELSE UNCHANGED room

MarkPresent(c) ==
    /\ Advance(c, "inserted", "marked")
    /\ Mark(owner[c])
    /\ UNCHANGED <<tokens, owner, hungUp, registered, queue>>

\* The event is emitted between two reads for the initial messages.
AnnounceConnected(c) ==
    /\ Advance(c, "marked", "running")
    /\ queue' = Append(queue, Connected(owner[c]))
    /\ UNCHANGED <<room, tokens, owner, hungUp, registered>>

ClientHangsUp(c) ==
    /\ Open(c) /\ c \notin hungUp
    /\ hungUp' = hungUp \cup {c}
    /\ UNCHANGED <<room, tokens, owner, serving, registered, queue>>

\* outbound_sender is a local of the serving task, which sends the initial
\* messages through it; it is dropped when the task returns.
TaskHoldsSender(c) == serving[c] \notin {"done", "stale"}

\* The receiver sees the end of the channel when nobody holds a sender.
ChannelClosed(c) == registered[owner[c]] # c /\ ~TaskHoldsSender(c)

\* Connection::run ends when the client is gone or the channel is closed.
RunEnds(c) ==
    /\ Advance(c, "running", "ended")
    /\ c \notin hungUp => ChannelClosed(c)
    /\ UNCHANGED <<room, tokens, owner, hungUp, registered, queue>>

\* Wrong variant: remove_connection, which asks for no token.
RegisteredToPlayer(c) == registered[owner[c]] # None

IsCurrent(c) == registered[owner[c]] = c

RemoveIfCurrent(c) ==
    /\ Advance(c, "ended", IF IsCurrent(c) THEN "removed" ELSE "stale")
    /\ registered' = [registered EXCEPT ![owner[c]] = IF IsCurrent(c) THEN None ELSE @]
    /\ UNCHANGED <<room, tokens, owner, hungUp, queue>>

MarkAbsent(c) ==
    /\ Advance(c, "removed", "unmarked")
    /\ IF exists THEN R!MarkDisconnected(owner[c]) ELSE UNCHANGED room
    /\ UNCHANGED <<tokens, owner, hungUp, registered, queue>>

AnnounceDisconnected(c) ==
    /\ Advance(c, "unmarked", "done")
    /\ queue' = Append(queue, Disconnected(owner[c]))
    /\ UNCHANGED <<room, tokens, owner, hungUp, registered>>
-----------------------------------------------------------------------------
(* The rest of the server. *)

\* send_to_player, from any handler at any time: a dropped receiver is found
\* and its entry removed.  A delivered message changes nothing here.
SendToClosed(p) ==
    /\ registered[p] # None /\ serving[registered[p]] = "ended"
    /\ registered' = [registered EXCEPT ![p] = None]
    /\ UNCHANGED <<room, tokens, owner, serving, hungUp, queue>>

Takes(kind) == queue # <<>> /\ Head(queue).kind = kind

\* handle_connect marks the player again, then broadcasts.
HandleConnect ==
    /\ Takes("PlayerConnected")
    /\ Mark(Head(queue).player)
    /\ queue' = Tail(queue)
    /\ UNCHANGED <<tokens, owner, serving, hungUp, registered>>

\* handle_disconnect only broadcasts.
HandleDisconnect ==
    /\ Takes("PlayerDisconnected")
    /\ queue' = Tail(queue)
    /\ UNCHANGED <<room, tokens, owner, serving, hungUp, registered>>

\* A leave request; the sockets stay as they are.
Leave(p) ==
    /\ R!LeaveRoom(p)
    /\ UNCHANGED <<tokens, owner, serving, hungUp, registered, queue>>
-----------------------------------------------------------------------------
Serve(c) ==
    \/ Insert(c)
    \/ MarkPresent(c)
    \/ AnnounceConnected(c)
    \/ RunEnds(c)
    \/ RemoveIfCurrent(c)
    \/ MarkAbsent(c)
    \/ AnnounceDisconnected(c)

Subscriber == HandleConnect \/ HandleDisconnect

Next ==
    \/ \E p \in Human : TakeToken(p) \/ Leave(p) \/ SendToClosed(p)
    \/ \E c \in Token : Serve(c) \/ ClientHangsUp(c)
    \/ Subscriber

Spec == Init /\ [][Next]_vars

\* The serving tasks and the subscriber are tokio tasks that run when they can.
\* A client need not hang up.
FairSpec == Spec /\ WF_vars(Subscriber) /\ \A c \in Token : WF_vars(Serve(c))
-----------------------------------------------------------------------------
\* A registered token is that player's: nobody gets the messages of another.
TypeOK ==
    /\ R!TypeOK
    /\ tokens \in 0 .. MaxConnections
    /\ owner \in [Token -> Human \cup {None}]
    /\ serving \in [Token -> Stage]
    /\ hungUp \subseteq Token
    /\ registered \in [Human -> Token \cup {None}]
    /\ \A p \in Human : registered[p] # None => owner[registered[p]] = p
    /\ \A i \in 1 .. Len(queue) : queue[i] \in {Connected(p) : p \in Human}
                                          \cup {Disconnected(p) : p \in Human}

\* Only a newer registration takes an open connection out of the registry: however
\* the clean-up of an old connection and the removals by send_to_player interleave
\* with a reconnect, the player who reconnected goes on receiving.  It takes the last
\* to insert for the newest: two connections of a player that take their tokens in
\* one order and insert in the other may leave the older one registered.
OpenStaysRegistered ==
    [][\A c \in Token :
          Open(c) /\ IsCurrent(c) /\ ~IsCurrent(c)' => registered'[owner[c]] # None]_vars

\* "close it first" and "Drop the existing sender to close the connection": a
\* connection that was replaced comes to its end.
ReplacedIsClosed ==
    \A c \in Token : serving[c] = "running" /\ ~IsCurrent(c) ~> serving[c] # "running"

\* "Players currently connected via WebSocket": once nothing is under way, a
\* seated player who has opened a connection is in connected_players exactly when
\* the registry has one.
Quiet ==
    /\ queue = <<>>
    /\ \A c \in Token : serving[c] \in {"none", "running", "done", "stale"}

PresenceIsCurrent ==
    Quiet /\ exists =>
        \A p \in R!Seated \cap {owner[c] : c \in Token} :
            p \in connected <=> registered[p] # None
=============================================================================
