----------------------------------- MODULE Round -----------------------------------
(***************************************************************************)
(* The event pipeline of one room with four seats: clients, the WebSocket,   *)
(* game and bot subscribers, and the game they start, play and clear away.   *)
(*                                                                           *)
(* The room's broadcast channel delivers every event to every subscriber, in *)
(* one order.  Each subscriber is a task that takes one event, runs its      *)
(* handler to the end and takes the next.  A queue holds the events a        *)
(* subscriber acts on; those it ignores are left out.  What a handler emits  *)
(* waits in its outbox and is sent event by event, so that other tasks run   *)
(* between a change of the state and the event that reports it.              *)
(*                                                                           *)
(* The cards of the game are counted, not named: whether a play is legal is  *)
(* what Game is about.  Seats are places in the room's player list.          *)
(***************************************************************************)
EXTENDS Integers, Sequences

CONSTANTS Human,          \* the seats of humans
          HandSize,       \* cards dealt to each seat
          MayTimeOut,     \* whether a bot's strategy may exceed its five seconds
          MaxStarts, MaxMoves, MaxToggles,  \* bounds: client commands of a run,
          MaxLeaves,                        \* humans who leave and bots removed,
          MaxAsked                          \* all of these together

Seat == 0 .. 3
Bot == Seat \ Human
NoSeat == -1

ASSUME RoundAssumption ==
    /\ Human \subseteq Seat
    /\ HandSize \in Nat \ {0} /\ MayTimeOut \in BOOLEAN
    /\ MaxStarts \in Nat /\ MaxMoves \in Nat /\ MaxToggles \in Nat
    /\ MaxLeaves \in Nat /\ MaxAsked \in Nat

VARIABLES room,        \* "open", or how far the teardown of the room has come
          seated,      \* who is in the room
          managed,     \* the bots the bot manager has
          game,        \* the room's entry in the game repository, or NoGame
          created,     \* games created so far: a game's identity
          ready,       \* the room's ready humans
          queue,       \* subscriber -> events it has yet to take
          outbox,      \* subscriber -> events its handler has yet to emit
          thinking,    \* the bot task between get_game and emit, or Idle
          announced,   \* the turn the clients were last told, NoSeat when none
          asked        \* client commands so far, by kind

vars == <<room, seated, managed, game, created, ready, queue, outbox,
          thinking, announced, asked>>
members == <<room, seated, managed>>
state == <<members, game, created, ready, thinking, announced>>

NoGame == [id |-> 0]
Idle == [seat |-> NoSeat, saw |-> NoGame]

NextSeat(s) == (s + 1) % 4

\* The game, with its cards counted: Game says which plays are legal.
NewGame(id, first) == [id |-> id, turn |-> first, passes |-> 0,
                       cards |-> [s \in Seat |-> HandSize]]
IsFinished(g) == \E s \in Seat : g.cards[s] = 0
Opening(g) == g.passes = 0 /\ \A s \in Seat : g.cards[s] = HandSize

AfterPass(g) == [g EXCEPT !.turn = NextSeat(@), !.passes = @ + 1]
AfterPlay(g) ==
    LET h == [g EXCEPT !.cards[g.turn] = @ - 1, !.passes = 0]
    IN  IF IsFinished(h) THEN h ELSE [h EXCEPT !.turn = NextSeat(@)]

Running == game # NoGame /\ ~IsFinished(game)
-----------------------------------------------------------------------------
(* Events and subscribers. *)

ReadyToggled(s, r) == [kind |-> "PlayerReadyToggled", player |-> s, is_ready |-> r]
TryStartGame == [kind |-> "TryStartGame"]
CreateGame == [kind |-> "CreateGame"]
StartGame(g) == [kind |-> "StartGame", game |-> g]
TryPlayMove(s, m, g) == [kind |-> "TryPlayMove", player |-> s, move |-> m, saw |-> g]
TurnChanged(s) == [kind |-> "TurnChanged", player |-> s]
GameWon(g) == [kind |-> "GameWon", game |-> g]

Subscriber == {"ws", "game", "bot"}
ActsOn(u) ==
    CASE u = "ws" -> {"PlayerReadyToggled", "TryStartGame", "StartGame",
                      "TurnChanged", "GameWon"}
      [] u = "game" -> {"CreateGame", "TryPlayMove"}
      [] u = "bot" -> {"TurnChanged"}

\* emit_to_room, with the subscribers' queues q as they are when it happens.  An
\* event of a room without its channel is dropped.
Delivered(q, e) ==
    [u \in Subscriber |->
        IF room # "removed" /\ e.kind \in ActsOn(u) THEN Append(q[u], e) ELSE q[u]]

\* Subscriber u is free, and the next event it takes is of this kind.
Takes(u, kind) ==
    /\ outbox[u] = <<>> /\ queue[u] # <<>> /\ Head(queue[u]).kind = kind

\* The handler of u is done with the event but for emitting these.
Done(u, emits) ==
    /\ queue' = [queue EXCEPT ![u] = Tail(@)]
    /\ outbox' = [outbox EXCEPT ![u] = emits]

Emit(u) ==
    /\ outbox[u] # <<>>
    /\ queue' = Delivered(queue, Head(outbox[u]))
    /\ outbox' = [outbox EXCEPT ![u] = Tail(@)]
    /\ UNCHANGED <<state, asked>>

\* The bounds allow another command of this kind.
MayAsk(kind, bound) ==
    /\ asked[kind] < bound
    /\ asked.starts + asked.moves + asked.toggles + asked.leaves < MaxAsked

Init ==
    /\ room = "open" /\ seated = Seat /\ managed = Bot
    /\ game = NoGame /\ created = 0
    /\ ready = {}
    /\ queue = [u \in Subscriber |-> <<>>] /\ outbox = queue
    /\ thinking = Idle /\ announced = NoSeat
    /\ asked = [starts |-> 0, moves |-> 0, toggles |-> 0, leaves |-> 0]
-----------------------------------------------------------------------------
(* Clients: a message on a socket becomes an event, at any time. *)

ClientReady(s) ==
    /\ MayAsk("toggles", MaxToggles)
    /\ \E r \in BOOLEAN : queue' = Delivered(queue, ReadyToggled(s, r))
    /\ asked' = [asked EXCEPT !.toggles = @ + 1]
    /\ UNCHANGED <<state, outbox>>

\* The host's request: anybody else's fails the host check and does nothing.
ClientStart ==
    /\ MayAsk("starts", MaxStarts)
    /\ queue' = Delivered(queue, TryStartGame)
    /\ asked' = [asked EXCEPT !.starts = @ + 1]
    /\ UNCHANGED <<state, outbox>>

ClientMove(s) ==
    /\ MayAsk("moves", MaxMoves)
    /\ \E m \in {"pass", "play"} : queue' = Delivered(queue, TryPlayMove(s, m, NoGame))
    /\ asked' = [asked EXCEPT !.moves = @ + 1]
    /\ UNCHANGED <<state, outbox>>
-----------------------------------------------------------------------------
(* Players leave at any time, also during a game, which takes no notice.  The room  *)
(* goes with its last human; its game, its bots and its channel go one by one.     *)

\* The leave request of a client, or of its socket through the WebSocket subscriber.
Leave(s) ==
    /\ s \in seated /\ MayAsk("leaves", MaxLeaves)
    /\ IF seated \cap Human = {s}
       THEN room' = "deleted" /\ seated' = {} /\ ready' = {}
       ELSE seated' = seated \ {s} /\ ready' = ready \ {s} /\ UNCHANGED room
    /\ asked' = [asked EXCEPT !.leaves = @ + 1]
    /\ UNCHANGED <<managed, game, created, queue, outbox, thinking, announced>>

RemoveGame ==
    /\ room = "deleted"
    /\ room' = "cleared" /\ game' = NoGame
    /\ UNCHANGED <<seated, managed, created, ready, queue, outbox, thinking, announced, asked>>

RemoveAllBots ==
    /\ room = "cleared" /\ managed # {}
    /\ managed' = {}
    /\ UNCHANGED <<room, seated, game, created, ready, queue, outbox,
                   thinking, announced, asked>>

RemoveChannel ==
    /\ room = "cleared" /\ managed = {}
    /\ room' = "removed"
    /\ UNCHANGED <<seated, managed, game, created, ready, queue, outbox,
                   thinking, announced, asked>>

\* The host removes a bot: its seat first, then its entry in the manager.
UnseatBot(s) ==
    /\ s \in seated /\ MayAsk("leaves", MaxLeaves)
    /\ seated' = seated \ {s}
    /\ asked' = [asked EXCEPT !.leaves = @ + 1]
    /\ UNCHANGED <<room, managed, game, created, ready, queue, outbox, thinking, announced>>

ForgetBot(s) ==
    /\ s \in managed \ seated /\ room = "open"
    /\ managed' = managed \ {s}
    /\ UNCHANGED <<room, seated, game, created, ready, queue, outbox,
                   thinking, announced, asked>>
-----------------------------------------------------------------------------
(* The WebSocket subscriber. *)

HandleReadyToggled ==
    LET e == Head(queue["ws"]) IN
    /\ Takes("ws", "PlayerReadyToggled")
    /\ ready' = IF e.is_ready /\ e.player \in seated THEN ready \cup {e.player}
                ELSE ready \ {e.player}
    /\ Done("ws", <<>>)
    /\ UNCHANGED <<members, game, created, thinking, announced, asked>>

\* Four seats taken and the humans ready: a game that still runs does not stand in
\* the way.
MayStart == seated = Seat /\ Human \subseteq ready

HandleTryStartGame ==
    /\ Takes("ws", "TryStartGame")
    /\ Done("ws", IF MayStart THEN <<CreateGame>> ELSE <<>>)
    /\ UNCHANGED <<state, asked>>

\* Wrong variant: the first turn is left for the clients to find out.
FirstTurnUnannounced(g) == <<>>

FirstTurnEvents(g) == <<TurnChanged(g.turn)>>

\* handle_start_game works with the game the event carries, and gives up when the
\* room has gone.
HandleStartGame ==
    LET g == Head(queue["ws"]).game IN
    /\ Takes("ws", "StartGame")
    /\ ready' = {}
    /\ IF room = "open" THEN announced' = g.turn /\ Done("ws", FirstTurnEvents(g))
                        ELSE UNCHANGED announced /\ Done("ws", <<>>)
    /\ UNCHANGED <<members, game, created, thinking, asked>>

\* An error, logged, when the game is gone; otherwise a broadcast.
HandleTurnChanged ==
    /\ Takes("ws", "TurnChanged")
    /\ announced' = IF game = NoGame THEN announced ELSE Head(queue["ws"]).player
    /\ Done("ws", <<>>)
    /\ UNCHANGED <<members, game, created, ready, thinking, asked>>

\* Wrong variant: the result is broadcast and the game kept.
GameKept == game

\* remove_game takes the room's entry, whichever game it is by now.
GameRemoved == NoGame

HandleGameWon ==
    /\ Takes("ws", "GameWon")
    /\ announced' = NoSeat
    /\ game' = GameRemoved
    /\ Done("ws", <<>>)
    /\ UNCHANGED <<members, created, ready, thinking, asked>>
-----------------------------------------------------------------------------
(* The game subscriber. *)

\* create_game replaces whatever game the room has; who is dealt the three of
\* diamonds begins.
HandleCreateGame ==
    /\ Takes("game", "CreateGame")
    /\ created' = created + 1
    /\ \E first \in Seat :
        /\ game' = NewGame(created + 1, first)
        /\ Done("game", <<StartGame(NewGame(created + 1, first))>>)
    /\ UNCHANGED <<members, ready, thinking, announced, asked>>

\* The names of bots go after the bots, and a player without a name stops it.
CreateGameFails ==
    /\ Takes("game", "CreateGame") /\ Bot # managed
    /\ Done("game", <<>>)
    /\ UNCHANGED <<state, asked>>

\* Whether play_cards may accept the move, and whether it may reject it: a move
\* of a bot was legal in the game the bot saw.
MayAccept(e) ==
    /\ Running /\ game.turn = e.player
    /\ e.move = "pass" => game.passes < 3

MayReject(e) ==
    \/ ~MayAccept(e)
    \/ e.move = "play" /\ e.saw # game

Result(e) == IF e.move = "pass" THEN AfterPass(game) ELSE AfterPlay(game)

\* Won, or MovePlayed (which no subscriber acts on) and the next turn.
MoveEvents(e, g) ==
    IF IsFinished(g) THEN <<GameWon(g)>> ELSE <<TurnChanged(g.turn)>>

AcceptMove ==
    LET e == Head(queue["game"]) IN
    /\ Takes("game", "TryPlayMove")
    /\ MayAccept(e)
    /\ game' = Result(e)
    /\ Done("game", MoveEvents(e, Result(e)))
    /\ UNCHANGED <<members, created, ready, thinking, announced, asked>>

\* The error is logged; no event tells anyone.
RejectMove ==
    /\ Takes("game", "TryPlayMove")
    /\ MayReject(Head(queue["game"]))
    /\ Done("game", <<>>)
    /\ UNCHANGED <<state, asked>>
-----------------------------------------------------------------------------
(* The bot subscriber: one task, which also sleeps and waits for the strategy. *)

\* Wrong variant: whoever the turn is with, without asking whether it is a bot.
ItsTurn(s) == game # NoGame /\ game.turn = s

BotsTurn(s) == s \in managed /\ game # NoGame /\ game.turn = s

\* The bot looks at the game; it keeps that copy while it thinks.
BotTurnChanged ==
    LET s == Head(queue["bot"]).player IN
    /\ Takes("bot", "TurnChanged") /\ thinking = Idle
    /\ thinking' = IF BotsTurn(s) THEN [seat |-> s, saw |-> game] ELSE Idle
    /\ Done("bot", <<>>)
    /\ UNCHANGED <<members, game, created, ready, announced, asked>>

\* The strategies play when they must and never pass on the opening move; a
\* strategy that times out passes whatever it saw.
BotDecides ==
    LET saw == thinking.saw
        passes == (saw.passes < 3 /\ ~Opening(saw)) \/ MayTimeOut
    IN
    /\ thinking # Idle
    /\ \E m \in {"play"} \cup (IF passes THEN {"pass"} ELSE {}) :
          queue' = Delivered(queue, TryPlayMove(thinking.seat, m, saw))
    /\ thinking' = Idle
    /\ UNCHANGED <<members, game, created, ready, announced, outbox, asked>>
-----------------------------------------------------------------------------
ClientStep ==
    \/ ClientStart
    \/ \E s \in Human : ClientReady(s) \/ ClientMove(s)

WsStep ==
    \/ HandleReadyToggled
    \/ HandleTryStartGame
    \/ HandleStartGame
    \/ HandleTurnChanged
    \/ HandleGameWon
    \/ Emit("ws")

GameStep == HandleCreateGame \/ CreateGameFails \/ AcceptMove \/ RejectMove \/ Emit("game")

BotStep == BotTurnChanged \/ BotDecides

MemberStep ==
    \/ \E s \in Human : Leave(s)
    \/ RemoveGame \/ RemoveAllBots \/ RemoveChannel
    \/ \E s \in Bot : UnseatBot(s) \/ ForgetBot(s)

Next == ClientStep \/ MemberStep \/ WsStep \/ GameStep \/ BotStep

Spec == Init /\ [][Next]_vars

\* Each subscriber is a task that runs whenever it has an event: recv returns,
\* every await in a handler does, and a strategy is cut off after five seconds.
\* Nothing is assumed of the clients.
Fairness == WF_vars(WsStep) /\ WF_vars(GameStep) /\ WF_vars(BotStep)

FairSpec == Spec /\ Fairness
-----------------------------------------------------------------------------
(* Properties. *)

Games == [id : Nat \ {0}, turn : Seat, passes : 0 .. 3, cards : [Seat -> 0 .. HandSize]]

TypeOK ==
    /\ room \in {"open", "deleted", "cleared", "removed"}
    /\ seated \subseteq Seat /\ managed \subseteq Bot
    /\ game \in Games \cup {NoGame}
    /\ created \in Nat
    /\ ready \subseteq Human \cap seated
    /\ DOMAIN queue = Subscriber /\ DOMAIN outbox = Subscriber
    /\ thinking \in [seat : Bot, saw : Games] \cup {Idle}
    /\ announced \in Seat \cup {NoSeat}

Elements(s) == {s[i] : i \in 1 .. Len(s)}
InFlight == UNION {Elements(queue[u]) \cup Elements(outbox[u]) : u \in Subscriber}

\* While it is a bot's turn something is under way that makes the bot act on the
\* game as it is now: the event that starts the game or names the turn, the bot
\* thinking about it, or the bot's move.  The check "Verify it's still the bot's
\* turn (guard against race conditions)" drops the rest and must not drop this.
BotTurnIsCarried ==
    room = "open" /\ Running /\ game.turn \in managed =>
        \/ StartGame(game) \in InFlight
        \/ TurnChanged(game.turn) \in Elements(queue["bot"]) \cup Elements(outbox["ws"])
                                       \cup Elements(outbox["game"])
        \/ thinking = [seat |-> game.turn, saw |-> game]
        \/ \E m \in {"pass", "play"} : TryPlayMove(game.turn, m, game) \in InFlight

\* Only a human can hold up a room: a bot whose turn it is acts in the end, and a
\* finished game is cleared away, so that nobody who reconnects is sent back into
\* it.  It holds as long as no strategy is cut off (MayTimeOut = FALSE): the pass that
\* is forced on a slow bot may be refused, and then nobody emits another event.
WaitsOnlyForHumans ==
    []<>(room # "open" \/ game = NoGame \/ (Running /\ game.turn \notin managed))

\* "Removed completed game from repository after win broadcast": the game a won
\* game's clean-up removes is a completed one.
RemovesOnlyCompleted ==
    [][game # NoGame /\ game' = NoGame => IsFinished(game)]_vars

\* "TURN_CHANGE - Turn advanced to next player": once everything under way has
\* been handled, the turn the clients were told last is the turn of the game.
AnnouncedTurnIsCurrent ==
    Running /\ InFlight = {} /\ thinking = Idle => announced = game.turn
=============================================================================
