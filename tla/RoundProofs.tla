-------------------------------- MODULE RoundProofs --------------------------------
(***************************************************************************)
(* A bot's turn is not lost between the subscribers of a room, for any seats *)
(* of humans, any hands, and any number of starts, moves, ready marks and    *)
(* departures at any time.                                                   *)
(***************************************************************************)
EXTENDS Round, SequenceTheorems, TLAPS

\* A pass that a bot decided on, unless its strategy was cut off, was its third at
\* most in the game it saw.
MoveRequest ==
    {e \in [kind : {"TryPlayMove"}, player : Seat, move : {"pass", "play"},
            saw : Games \cup {NoGame}] :
        e.saw # NoGame /\ e.move = "pass" => e.saw.passes < 3 \/ MayTimeOut}

Event ==
    [kind : {"PlayerReadyToggled"}, player : Human, is_ready : BOOLEAN]
    \cup [kind : {"TryStartGame", "CreateGame"}]
    \cup [kind : {"StartGame", "GameWon"}, game : Games]
    \cup [kind : {"TurnChanged"}, player : Seat]
    \cup MoveRequest

Queues ==
    /\ queue \in [Subscriber -> Seq(Event)]
    /\ outbox \in [Subscriber -> Seq(Event)]

RoundTypes == TypeOK /\ Queues

\* Where a change of turn is before the bot subscriber has taken it.
TurnBox == Elements(queue["bot"]) \cup Elements(outbox["ws"]) \cup Elements(outbox["game"])
-----------------------------------------------------------------------------
(* Games and events. *)

LEMMA GameTypes ==
    /\ NoGame \notin Games
    /\ \A first \in Seat, n \in Nat : NewGame(n + 1, first) \in Games
    /\ \A g \in Games : IsFinished(g) \in BOOLEAN /\ NextSeat(g.turn) \in Seat
<1>1. NoGame.id = 0
  BY DEF NoGame
<1>2. NoGame \notin Games
  BY <1>1 DEF Games
<1>3. ASSUME NEW first \in Seat, NEW n \in Nat PROVE NewGame(n + 1, first) \in Games
  BY RoundAssumption DEF NewGame, Games
<1>4. \A g \in Games : IsFinished(g) \in BOOLEAN /\ NextSeat(g.turn) \in Seat
  BY DEF IsFinished, NextSeat, Games, Seat
<1>5. QED
  BY <1>2, <1>3, <1>4

LEMMA PassTypes ==
    ASSUME NEW g \in Games, g.passes < 3
    PROVE  AfterPass(g) \in Games
<1>1. NextSeat(g.turn) \in Seat /\ g.passes + 1 \in 0 .. 3
  BY GameTypes DEF Games
<1>2. QED
  BY <1>1 DEF AfterPass, Games

LEMMA PlayTypes ==
    ASSUME NEW g \in Games, ~IsFinished(g)
    PROVE  AfterPlay(g) \in Games
<1> DEFINE h == [g EXCEPT !.cards[g.turn] = @ - 1, !.passes = 0]
<1>1. g.turn \in Seat /\ g.cards \in [Seat -> 0 .. HandSize]
  BY DEF Games
<1>2. g.cards[g.turn] - 1 \in 0 .. HandSize
  BY <1>1, RoundAssumption DEF IsFinished
<1>3. h \in Games
  <2> DEFINE cards == [g.cards EXCEPT ![g.turn] = @ - 1]
             played == [g EXCEPT !.cards = cards]
  <2>1. cards \in [Seat -> 0 .. HandSize]
    BY <1>1, <1>2
  <2>2. played \in Games
    <3> HIDE DEF cards
    <3>1. QED
      BY <2>1 DEF Games
  <2>3. h = [played EXCEPT !.passes = 0]
    BY DEF Games
  <2> HIDE DEF played
  <2>4. [played EXCEPT !.passes = 0] \in Games
    BY <2>2 DEF Games
  <2>5. QED
    BY <2>3, <2>4
<1>4. NextSeat(h.turn) \in Seat
  BY <1>3, GameTypes
<1> HIDE DEF h
<1>5. [h EXCEPT !.turn = NextSeat(@)] \in Games
  BY <1>3, <1>4 DEF Games
<1>6. QED
  BY <1>3, <1>5 DEF AfterPlay, h

LEMMA EventTypes ==
    /\ \A s \in Human, r \in BOOLEAN : ReadyToggled(s, r) \in Event
    /\ TryStartGame \in Event /\ CreateGame \in Event
    /\ \A g \in Games : StartGame(g) \in Event /\ GameWon(g) \in Event
    /\ \A s \in Seat : TurnChanged(s) \in Event
    /\ \A s \in Seat, m \in {"pass", "play"}, g \in Games \cup {NoGame} :
          (g # NoGame /\ m = "pass" => g.passes < 3 \/ MayTimeOut)
          => TryPlayMove(s, m, g) \in Event
BY DEF Event, MoveRequest, ReadyToggled, TryStartGame, CreateGame, StartGame, GameWon,
       TurnChanged, TryPlayMove

LEMMA EventFields ==
    ASSUME NEW e \in Event
    PROVE  /\ e.kind = "PlayerReadyToggled" => e.player \in Human /\ e.is_ready \in BOOLEAN
           /\ e.kind = "StartGame" => e.game \in Games /\ e = StartGame(e.game)
           /\ e.kind = "TurnChanged" => e.player \in Seat /\ e = TurnChanged(e.player)
           /\ e.kind = "TryPlayMove" =>
                 /\ e.player \in Seat /\ e.move \in {"pass", "play"}
                 /\ e.saw \in Games \cup {NoGame}
                 /\ e.saw # NoGame /\ e.move = "pass" => e.saw.passes < 3 \/ MayTimeOut
BY DEF Event, MoveRequest, StartGame, TurnChanged

LEMMA AppendElements ==
    ASSUME NEW s \in Seq(Event), NEW e \in Event
    PROVE  Append(s, e) \in Seq(Event) /\ Elements(Append(s, e)) = Elements(s) \cup {e}
<1>1. /\ Append(s, e) \in Seq(Event) /\ Len(Append(s, e)) = Len(s) + 1
      /\ \A i \in 1 .. Len(s) : Append(s, e)[i] = s[i]
      /\ Append(s, e)[Len(s) + 1] = e
  BY AppendProperties
<1>2. 1 .. Len(s) + 1 = 1 .. Len(s) \cup {Len(s) + 1}
  OBVIOUS
<1>3. QED
  BY <1>1, <1>2 DEF Elements

LEMMA TailElements ==
    ASSUME NEW s \in Seq(Event), s # <<>>
    PROVE  /\ Head(s) \in Event /\ Tail(s) \in Seq(Event)
           /\ Elements(s) = {Head(s)} \cup Elements(Tail(s))
<1>1. /\ Head(s) \in Event /\ Tail(s) \in Seq(Event) /\ Len(Tail(s)) = Len(s) - 1
      /\ \A i \in 1 .. Len(Tail(s)) : Tail(s)[i] = s[i + 1]
      /\ Len(s) \in Nat \ {0}
  BY HeadTailProperties, EmptySeq
<1>2. Head(s) = s[1]
  OBVIOUS
<1>3. ASSUME NEW x \in Elements(s) PROVE x \in {Head(s)} \cup Elements(Tail(s))
  <2>1. PICK i \in 1 .. Len(s) : x = s[i]
    BY DEF Elements
  <2>2. CASE i = 1
    BY <1>2, <2>1, <2>2
  <2>3. CASE i # 1
    <3>1. i - 1 \in 1 .. Len(Tail(s)) /\ (i - 1) + 1 = i
      BY <1>1, <2>3
    <3>2. Tail(s)[i - 1] = x
      BY <1>1, <2>1, <3>1
    <3>3. QED
      BY <3>1, <3>2 DEF Elements
  <2>4. QED
    BY <2>2, <2>3
<1>4. Head(s) \in Elements(s)
  BY <1>1, <1>2 DEF Elements
<1>5. ASSUME NEW x \in Elements(Tail(s)) PROVE x \in Elements(s)
  <2>1. PICK i \in 1 .. Len(Tail(s)) : x = Tail(s)[i]
    BY DEF Elements
  <2>2. i + 1 \in 1 .. Len(s) /\ x = s[i + 1]
    BY <1>1, <2>1
  <2>3. QED
    BY <2>2 DEF Elements
<1>6. QED
  BY <1>1, <1>3, <1>4, <1>5
-----------------------------------------------------------------------------
(* What a step does to the events that are under way. *)

LEMMA DeliverKeeps ==
    ASSUME Queues, NEW e \in Event, queue' = Delivered(queue, e), UNCHANGED outbox
    PROVE  /\ Queues' /\ InFlight \subseteq InFlight' /\ TurnBox \subseteq TurnBox'
           /\ room # "removed" /\ e.kind = "TryPlayMove" => e \in InFlight'
<1>1. ASSUME NEW u \in Subscriber
      PROVE  /\ queue'[u] \in Seq(Event) /\ Elements(queue[u]) \subseteq Elements(queue'[u])
             /\ room # "removed" /\ e.kind \in ActsOn(u) => e \in Elements(queue'[u])
  <2>1. queue[u] \in Seq(Event)
    BY DEF Queues
  <2>2. CASE room # "removed" /\ e.kind \in ActsOn(u)
    <3>1. queue'[u] = Append(queue[u], e)
      BY <2>2 DEF Delivered
    <3>2. QED
      BY <2>1, <3>1, AppendElements
  <2>3. CASE ~(room # "removed" /\ e.kind \in ActsOn(u))
    <3>1. queue'[u] = queue[u]
      BY <2>3 DEF Delivered
    <3>2. QED
      BY <2>1, <2>3, <3>1
  <2>4. QED
    BY <2>2, <2>3
<1>2. Queues'
  <2>1. queue' = [u \in Subscriber |-> queue'[u]]
    BY DEF Delivered
  <2>2. QED
    BY <1>1, <2>1 DEF Queues
<1>3. "game" \in Subscriber /\ "bot" \in Subscriber /\ "TryPlayMove" \in ActsOn("game")
  BY DEF Subscriber, ActsOn
<1>4. InFlight \subseteq InFlight'
  BY <1>1 DEF InFlight
<1>5. TurnBox \subseteq TurnBox'
  BY <1>1, <1>3 DEF TurnBox
<1>6. room # "removed" /\ e.kind = "TryPlayMove" => e \in InFlight'
  BY <1>1, <1>3 DEF InFlight
<1>7. QED
  BY <1>2, <1>4, <1>5, <1>6

\* What waits in an outbox is not lost when it is emitted.
LEMMA EmitKeeps ==
    ASSUME Queues, NEW u \in {"ws", "game"}, Emit(u), room # "removed",
           NEW e \in Event
    PROVE  /\ e \in InFlight /\ e.kind \in {"StartGame", "TryPlayMove"} => e \in InFlight'
           /\ e \in TurnBox /\ e.kind = "TurnChanged" => e \in TurnBox'
<1> DEFINE x == Head(outbox[u])
<1>1. /\ outbox[u] # <<>> /\ queue' = Delivered(queue, x)
      /\ outbox' = [outbox EXCEPT ![u] = Tail(@)]
  BY DEF Emit
<1>2. u \in Subscriber /\ outbox[u] \in Seq(Event)
  BY DEF Queues, Subscriber
<1>3. /\ x \in Event /\ Elements(outbox[u]) = {x} \cup Elements(outbox'[u])
      /\ \A v \in Subscriber \ {u} : outbox'[v] = outbox[v]
  BY <1>1, <1>2, TailElements DEF Queues
<1>4. ASSUME NEW v \in Subscriber
      PROVE  /\ Elements(queue[v]) \subseteq Elements(queue'[v])
             /\ x.kind \in ActsOn(v) => x \in Elements(queue'[v])
  <2>1. queue[v] \in Seq(Event)
    BY DEF Queues
  <2>2. queue'[v] = IF x.kind \in ActsOn(v) THEN Append(queue[v], x) ELSE queue[v]
    BY <1>1 DEF Delivered
  <2>3. QED
    BY <1>3, <2>1, <2>2, AppendElements
<1>5. /\ "StartGame" \in ActsOn("ws") /\ "TryPlayMove" \in ActsOn("game")
      /\ "TurnChanged" \in ActsOn("bot")
  BY DEF ActsOn
<1>6. Subscriber = {"ws", "game", "bot"}
  BY DEF Subscriber
<1> HIDE DEF x
<1>7. ASSUME e \in InFlight, e.kind \in {"StartGame", "TryPlayMove"} PROVE e \in InFlight'
  <2>1. CASE \E v \in Subscriber : e \in Elements(queue[v])
    BY <1>4, <2>1 DEF InFlight
  <2>2. CASE \E v \in Subscriber : e \in Elements(outbox[v])
    <3>1. CASE e = x
      <4>1. \E v \in Subscriber : e \in Elements(queue'[v])
        BY <1>4, <1>5, <1>6, <1>7, <3>1
      <4>2. QED
        BY <4>1 DEF InFlight
    <3>2. CASE e # x
      <4>1. \E v \in Subscriber : e \in Elements(outbox'[v])
        BY <1>2, <1>3, <2>2, <3>2
      <4>2. QED
        BY <4>1 DEF InFlight
    <3>3. QED
      BY <3>1, <3>2
  <2>3. QED
    BY <1>7, <2>1, <2>2 DEF InFlight
<1>8. ASSUME e \in TurnBox, e.kind = "TurnChanged" PROVE e \in TurnBox'
  <2>1. CASE e = x
    BY <1>4, <1>5, <1>6, <1>8, <2>1 DEF TurnBox
  <2>2. CASE e # x
    BY <1>2, <1>3, <1>4, <1>6, <1>8, <2>2 DEF TurnBox
  <2>3. QED
    BY <2>1, <2>2
<1>9. QED
  BY <1>7, <1>8

LEMMA EmitQueues ==
    ASSUME Queues, NEW u \in {"ws", "game"}, Emit(u)
    PROVE  Queues'
<1>1. /\ outbox[u] # <<>> /\ queue' = Delivered(queue, Head(outbox[u]))
      /\ outbox' = [outbox EXCEPT ![u] = Tail(@)]
  BY DEF Emit
<1>2. u \in Subscriber /\ outbox[u] \in Seq(Event)
  BY DEF Queues, Subscriber
<1>3. Head(outbox[u]) \in Event /\ Tail(outbox[u]) \in Seq(Event)
  BY <1>1, <1>2, TailElements
<1>4. outbox' \in [Subscriber -> Seq(Event)]
  BY <1>1, <1>2, <1>3 DEF Queues
<1> DEFINE x == Head(outbox[u])
<1>5. queue' = Delivered(queue, x) /\ x \in Event
  BY <1>1, <1>3
<1> HIDE DEF x
<1>6. ASSUME NEW v \in Subscriber PROVE queue'[v] \in Seq(Event)
  BY <1>5, AppendElements DEF Delivered, Queues
<1>7. queue' \in [Subscriber -> Seq(Event)]
  BY <1>5, <1>6 DEF Delivered
<1>8. QED
  BY <1>4, <1>7 DEF Queues

\* A handler consumes the event it takes, and nothing else; what it has to emit is
\* under way.
LEMMA HandlerKeeps ==
    ASSUME Queues, NEW u \in Subscriber, NEW kind, Takes(u, kind),
           NEW emits \in Seq(Event), Done(u, emits)
    PROVE  /\ Queues' /\ Head(queue[u]) \in Event /\ Head(queue[u]).kind = kind
           /\ Elements(emits) \subseteq InFlight'
           /\ u # "bot" => Elements(emits) \subseteq TurnBox'
           /\ \A e \in InFlight : e # Head(queue[u]) => e \in InFlight'
           /\ \A e \in TurnBox : u # "bot" \/ e # Head(queue[u]) => e \in TurnBox'
<1>1. /\ outbox[u] = <<>> /\ queue[u] # <<>> /\ Head(queue[u]).kind = kind
      /\ queue' = [queue EXCEPT ![u] = Tail(@)]
      /\ outbox' = [outbox EXCEPT ![u] = emits]
  BY DEF Takes, Done
<1>2. /\ Head(queue[u]) \in Event /\ Tail(queue[u]) \in Seq(Event)
      /\ Elements(queue[u]) = {Head(queue[u])} \cup Elements(Tail(queue[u]))
  BY <1>1, TailElements DEF Queues
<1>3. /\ queue'[u] = Tail(queue[u]) /\ outbox'[u] = emits
      /\ \A v \in Subscriber \ {u} : queue'[v] = queue[v] /\ outbox'[v] = outbox[v]
  BY <1>1 DEF Queues
<1>4. Queues'
  BY <1>1, <1>2 DEF Queues
<1>5. Elements(outbox[u]) = {}
  BY <1>1 DEF Elements
<1>6. Subscriber = {"ws", "game", "bot"}
  BY DEF Subscriber
<1>7. \A e \in InFlight : e # Head(queue[u]) => e \in InFlight'
  BY <1>2, <1>3, <1>5 DEF InFlight
<1>8. \A e \in TurnBox : u # "bot" \/ e # Head(queue[u]) => e \in TurnBox'
  BY <1>2, <1>3, <1>5, <1>6 DEF TurnBox
<1>9. Elements(emits) \subseteq InFlight'
  BY <1>3 DEF InFlight
<1>10. u # "bot" => Elements(emits) \subseteq TurnBox'
  BY <1>3, <1>6 DEF TurnBox
<1>11. QED
  BY <1>1, <1>2, <1>4, <1>7, <1>8, <1>9, <1>10
-----------------------------------------------------------------------------
(* Types. *)

LEMMA InitTypes == Init => RoundTypes
<1> SUFFICES ASSUME Init PROVE RoundTypes
  OBVIOUS
<1>1. TypeOK
  BY RoundAssumption DEF Init, TypeOK, Bot
<1>2. Queues
  BY DEF Init, Queues
<1>3. QED
  BY <1>1, <1>2 DEF RoundTypes

LEMMA ClientTypes == RoundTypes /\ ClientStep => RoundTypes'
<1> SUFFICES ASSUME RoundTypes, ClientStep PROVE RoundTypes'
  OBVIOUS
<1> USE DEF RoundTypes
<1>1. ASSUME NEW e \in Event, queue' = Delivered(queue, e), UNCHANGED <<state, outbox>>
      PROVE  RoundTypes'
  <2>1. Queues'
    BY <1>1, DeliverKeeps
  <2>2. TypeOK'
    BY <1>1, <2>1 DEF TypeOK, Queues, state, members
  <2>3. QED
    BY <2>1, <2>2
<1>2. NoGame \in Games \cup {NoGame} /\ \A s \in Human : s \in Seat
  BY RoundAssumption
<1>3. ASSUME NEW s \in Human, ClientReady(s) PROVE RoundTypes'
  BY <1>1, <1>3, EventTypes DEF ClientReady
<1>4. ASSUME ClientStart PROVE RoundTypes'
  BY <1>1, <1>4, EventTypes DEF ClientStart
<1>5. ASSUME NEW s \in Human, ClientMove(s) PROVE RoundTypes'
  <2>1. PICK m \in {"pass", "play"} : queue' = Delivered(queue, TryPlayMove(s, m, NoGame))
    BY <1>5 DEF ClientMove
  <2>2. TryPlayMove(s, m, NoGame) \in Event
    BY <1>2, EventTypes
  <2>3. QED
    BY <1>1, <1>5, <2>1, <2>2 DEF ClientMove
<1>6. QED
  BY <1>3, <1>4, <1>5 DEF ClientStep

LEMMA MemberTypes == RoundTypes /\ MemberStep => RoundTypes'
<1> SUFFICES ASSUME RoundTypes, MemberStep PROVE RoundTypes'
  OBVIOUS
<1> USE DEF RoundTypes, TypeOK
<1>1. Queues'
  BY DEF MemberStep, Leave, RemoveGame, RemoveAllBots, RemoveChannel, UnseatBot, ForgetBot,
         Queues
<1>2. ASSUME NEW s \in Human, Leave(s) PROVE TypeOK'
  BY <1>2 DEF Leave
<1>3. ASSUME RemoveGame \/ RemoveAllBots \/ RemoveChannel PROVE TypeOK'
  BY <1>3 DEF RemoveGame, RemoveAllBots, RemoveChannel
<1>4. ASSUME NEW s \in Bot, UnseatBot(s) \/ ForgetBot(s) PROVE TypeOK'
  BY <1>4 DEF UnseatBot, ForgetBot, Bot
<1>5. QED
  BY <1>1, <1>2, <1>3, <1>4 DEF MemberStep

LEMMA EmptyEmits == <<>> \in Seq(Event) /\ Elements(<<>>) = {}
BY DEF Elements

LEMMA OneEmit == \A e \in Event : <<e>> \in Seq(Event) /\ Elements(<<e>>) = {e}
BY DEF Elements

LEMMA WsTypes == RoundTypes /\ WsStep => RoundTypes'
<1> SUFFICES ASSUME RoundTypes, WsStep PROVE RoundTypes'
  OBVIOUS
<1> USE DEF RoundTypes
<1> DEFINE e == Head(queue["ws"])
<1>1. "ws" \in Subscriber
  BY DEF Subscriber
<1>2. ASSUME NEW kind, Takes("ws", kind), NEW emits \in Seq(Event), Done("ws", emits)
      PROVE  Queues' /\ e \in Event /\ e.kind = kind /\ DOMAIN queue' = Subscriber
                     /\ DOMAIN outbox' = Subscriber
  BY <1>1, <1>2, HandlerKeeps DEF Queues
<1>3. ASSUME HandleReadyToggled PROVE RoundTypes'
  <2>1. Queues' /\ e \in Event /\ e.kind = "PlayerReadyToggled"
        /\ DOMAIN queue' = Subscriber /\ DOMAIN outbox' = Subscriber
    BY <1>2, <1>3, EmptyEmits DEF HandleReadyToggled
  <2>2. e.player \in Human
    BY <2>1, EventFields
  <2>3. ready' \subseteq Human \cap seated
    BY <1>3, <2>2 DEF HandleReadyToggled, TypeOK
  <2>4. QED
    BY <1>3, <2>1, <2>3 DEF HandleReadyToggled, TypeOK, members
<1>4. ASSUME HandleTryStartGame PROVE RoundTypes'
  <2> DEFINE emits == IF MayStart THEN <<CreateGame>> ELSE <<>>
  <2>1. emits \in Seq(Event)
    BY EmptyEmits, OneEmit, EventTypes
  <2> HIDE DEF emits
  <2>2. Takes("ws", "TryStartGame") /\ Done("ws", emits) /\ UNCHANGED <<state, asked>>
    BY <1>4 DEF HandleTryStartGame, emits
  <2>3. Queues' /\ DOMAIN queue' = Subscriber /\ DOMAIN outbox' = Subscriber
    BY <1>2, <2>1, <2>2
  <2>4. QED
    BY <2>2, <2>3 DEF TypeOK, state, members
<1>5. ASSUME HandleStartGame PROVE RoundTypes'
  <2> DEFINE g == e.game
             emits == IF room = "open" THEN FirstTurnEvents(g) ELSE <<>>
  <2>1. e \in Event /\ e.kind = "StartGame"
    <3>1. Takes("ws", "StartGame")
      BY <1>5 DEF HandleStartGame
    <3>2. QED
      BY <1>1, <3>1, TailElements DEF Takes, Queues
  <2>2. g \in Games /\ g.turn \in Seat
    BY <2>1, EventFields DEF Games
  <2>3. emits \in Seq(Event)
    BY <2>2, EmptyEmits, OneEmit, EventTypes DEF FirstTurnEvents
  <2> HIDE DEF emits
  <2>4. Takes("ws", "StartGame") /\ Done("ws", emits)
    BY <1>5 DEF HandleStartGame, emits
  <2>5. Queues' /\ DOMAIN queue' = Subscriber /\ DOMAIN outbox' = Subscriber
    BY <1>2, <2>3, <2>4
  <2>6. announced' \in Seat \cup {NoSeat} /\ ready' = {}
    BY <1>5, <2>2 DEF HandleStartGame, TypeOK
  <2>7. QED
    BY <1>5, <2>5, <2>6 DEF HandleStartGame, TypeOK, members
<1>6. ASSUME HandleTurnChanged PROVE RoundTypes'
  <2>1. Queues' /\ e \in Event /\ e.kind = "TurnChanged"
        /\ DOMAIN queue' = Subscriber /\ DOMAIN outbox' = Subscriber
    BY <1>2, <1>6, EmptyEmits DEF HandleTurnChanged
  <2>2. e.player \in Seat
    BY <2>1, EventFields
  <2>3. announced' \in Seat \cup {NoSeat}
    BY <1>6, <2>2 DEF HandleTurnChanged, TypeOK
  <2>4. QED
    BY <1>6, <2>1, <2>3 DEF HandleTurnChanged, TypeOK, members
<1>7. ASSUME HandleGameWon PROVE RoundTypes'
  <2>1. Queues' /\ DOMAIN queue' = Subscriber /\ DOMAIN outbox' = Subscriber
    BY <1>2, <1>7, EmptyEmits DEF HandleGameWon
  <2>2. QED
    BY <1>7, <2>1 DEF HandleGameWon, GameRemoved, TypeOK, members
<1>8. ASSUME Emit("ws") PROVE RoundTypes'
  <2>1. Queues'
    BY <1>8, EmitQueues
  <2>2. QED
    BY <1>8, <2>1 DEF Emit, TypeOK, Queues, state, members
<1>9. QED
  BY <1>3, <1>4, <1>5, <1>6, <1>7, <1>8 DEF WsStep

\* A move that is accepted makes a game of it again.
LEMMA ResultTypes ==
    ASSUME RoundTypes, NEW e \in Event, e.kind = "TryPlayMove", MayAccept(e)
    PROVE  /\ Result(e) \in Games
           /\ MoveEvents(e, Result(e)) \in Seq(Event)
           /\ ~IsFinished(Result(e)) =>
                 TurnChanged(Result(e).turn) \in Elements(MoveEvents(e, Result(e)))
<1>1. game \in Games /\ ~IsFinished(game)
  BY DEF MayAccept, Running, RoundTypes, TypeOK
<1>2. CASE e.move = "pass"
  <2>1. game.passes < 3
    BY <1>2 DEF MayAccept
  <2>2. QED
    BY <1>1, <1>2, <2>1, PassTypes, EventTypes, OneEmit DEF Result, MoveEvents, Games
<1>3. CASE e.move # "pass"
  BY <1>1, <1>3, PlayTypes, EventTypes, OneEmit DEF Result, MoveEvents, Games
<1>4. QED
  BY <1>2, <1>3

LEMMA GameStepTypes == RoundTypes /\ GameStep => RoundTypes'
<1> SUFFICES ASSUME RoundTypes, GameStep PROVE RoundTypes'
  OBVIOUS
<1> USE DEF RoundTypes
<1> DEFINE e == Head(queue["game"])
<1>1. "game" \in Subscriber
  BY DEF Subscriber
<1>2. ASSUME NEW kind, Takes("game", kind), NEW emits \in Seq(Event), Done("game", emits)
      PROVE  Queues' /\ DOMAIN queue' = Subscriber /\ DOMAIN outbox' = Subscriber
  BY <1>1, <1>2, HandlerKeeps DEF Queues
<1>3. ASSUME HandleCreateGame PROVE RoundTypes'
  <2>1. PICK first \in Seat :
          /\ game' = NewGame(created + 1, first)
          /\ Done("game", <<StartGame(NewGame(created + 1, first))>>)
    BY <1>3 DEF HandleCreateGame
  <2>2. game' \in Games /\ created \in Nat
    BY <2>1, GameTypes DEF TypeOK
  <2>3. <<StartGame(NewGame(created + 1, first))>> \in Seq(Event)
    BY <2>1, <2>2, EventTypes, OneEmit
  <2>4. Takes("game", "CreateGame") /\ created' = created + 1
        /\ UNCHANGED <<members, ready, thinking, announced, asked>>
    BY <1>3 DEF HandleCreateGame
  <2>5. Queues' /\ DOMAIN queue' = Subscriber /\ DOMAIN outbox' = Subscriber
    BY <1>2, <2>1, <2>3, <2>4
  <2>6. QED
    BY <2>2, <2>4, <2>5 DEF TypeOK, members
<1>4. ASSUME CreateGameFails \/ RejectMove PROVE RoundTypes'
  <2>1. Queues' /\ DOMAIN queue' = Subscriber /\ DOMAIN outbox' = Subscriber
    BY <1>2, <1>4, EmptyEmits DEF CreateGameFails, RejectMove
  <2>2. UNCHANGED <<state, asked>>
    BY <1>4 DEF CreateGameFails, RejectMove
  <2>3. QED
    BY <2>1, <2>2 DEF TypeOK, state, members
<1>5. ASSUME AcceptMove PROVE RoundTypes'
  <2>1. /\ Takes("game", "TryPlayMove") /\ MayAccept(e) /\ game' = Result(e)
        /\ Done("game", MoveEvents(e, Result(e)))
        /\ UNCHANGED <<members, created, ready, thinking, announced, asked>>
    BY <1>5 DEF AcceptMove
  <2>2. e \in Event /\ e.kind = "TryPlayMove"
    BY <1>1, <2>1, TailElements DEF Takes, Queues
  <2>3. Result(e) \in Games /\ MoveEvents(e, Result(e)) \in Seq(Event)
    BY <2>1, <2>2, ResultTypes
  <2>4. Queues' /\ DOMAIN queue' = Subscriber /\ DOMAIN outbox' = Subscriber
    BY <1>2, <2>1, <2>3
  <2>5. QED
    BY <2>1, <2>3, <2>4 DEF TypeOK, members
<1>6. ASSUME Emit("game") PROVE RoundTypes'
  <2>1. Queues'
    BY <1>6, EmitQueues
  <2>2. QED
    BY <1>6, <2>1 DEF Emit, TypeOK, Queues, state, members
<1>7. QED
  BY <1>3, <1>4, <1>5, <1>6 DEF GameStep

\* What a bot decides on is an event, a pass only in a game that allows one.
LEMMA DecisionTypes ==
    ASSUME RoundTypes, BotDecides
    PROVE  \E m \in {"pass", "play"} :
              /\ TryPlayMove(thinking.seat, m, thinking.saw) \in Event
              /\ queue' = Delivered(queue, TryPlayMove(thinking.seat, m, thinking.saw))
<1> DEFINE saw == thinking.saw
           passes == (saw.passes < 3 /\ ~Opening(saw)) \/ MayTimeOut
<1>1. thinking \in [seat : Bot, saw : Games]
  BY DEF BotDecides, RoundTypes, TypeOK
<1>2. thinking.seat \in Seat /\ saw \in Games
  BY <1>1 DEF Bot
<1>3. PICK m \in {"play"} \cup (IF passes THEN {"pass"} ELSE {}) :
        queue' = Delivered(queue, TryPlayMove(thinking.seat, m, saw))
  BY DEF BotDecides
<1>4. m \in {"pass", "play"} /\ (m = "pass" => saw.passes < 3 \/ MayTimeOut)
  OBVIOUS
<1>5. TryPlayMove(thinking.seat, m, saw) \in Event
  BY <1>2, <1>4, EventTypes
<1>6. QED
  BY <1>3, <1>4, <1>5

LEMMA BotTypes == RoundTypes /\ BotStep => RoundTypes'
<1> SUFFICES ASSUME RoundTypes, BotStep PROVE RoundTypes'
  OBVIOUS
<1> USE DEF RoundTypes
<1>1. ASSUME BotTurnChanged PROVE RoundTypes'
  <2> DEFINE s == Head(queue["bot"]).player
  <2>1. /\ Takes("bot", "TurnChanged") /\ Done("bot", <<>>)
        /\ thinking' = IF BotsTurn(s) THEN [seat |-> s, saw |-> game] ELSE Idle
        /\ UNCHANGED <<members, game, created, ready, announced, asked>>
    BY <1>1 DEF BotTurnChanged
  <2>2. Queues' /\ DOMAIN queue' = Subscriber /\ DOMAIN outbox' = Subscriber
    BY <2>1, HandlerKeeps, EmptyEmits DEF Subscriber, Queues
  <2>3. thinking' \in [seat : Bot, saw : Games] \cup {Idle}
    BY <2>1 DEF BotsTurn, TypeOK
  <2>4. QED
    BY <2>1, <2>2, <2>3 DEF TypeOK, members
<1>2. ASSUME BotDecides PROVE RoundTypes'
  <2>1. PICK e \in Event : queue' = Delivered(queue, e)
    BY <1>2, DecisionTypes
  <2>2. thinking' = Idle /\ UNCHANGED <<members, game, created, ready, announced, outbox, asked>>
    BY <1>2 DEF BotDecides
  <2>3. Queues'
    BY <2>1, <2>2, DeliverKeeps
  <2>4. QED
    BY <2>2, <2>3 DEF TypeOK, Queues, members
<1>3. QED
  BY <1>1, <1>2 DEF BotStep

LEMMA NextTypes == RoundTypes /\ [Next]_vars => RoundTypes'
<1>1. RoundTypes /\ UNCHANGED vars => RoundTypes'
  BY DEF RoundTypes, TypeOK, Queues, vars
<1>2. QED
  BY <1>1, ClientTypes, MemberTypes, WsTypes, GameStepTypes, BotTypes DEF Next

\* The room, its game and everything under way are what they should be in every
\* reachable state.
THEOREM RoundInvariant == Spec => []RoundTypes
<1>1. Init => RoundTypes
  BY InitTypes
<1>2. RoundTypes /\ [Next]_vars => RoundTypes'
  BY NextTypes
<1>3. QED
  BY <1>1, <1>2, PTL DEF Spec

\* Only seated humans are ready and only bots think, whatever is toggled, restarted
\* or left while events are under way.
THEOREM RoundTypeCorrect == Spec => []TypeOK
BY RoundInvariant, PTL DEF RoundTypes
-----------------------------------------------------------------------------
(* What carries a bot's turn. *)

\* The alternatives of BotTurnIsCarried.
Carried ==
    \/ StartGame(game) \in InFlight
    \/ TurnChanged(game.turn) \in TurnBox
    \/ thinking = [seat |-> game.turn, saw |-> game]
    \/ \E m \in {"pass", "play"} : TryPlayMove(game.turn, m, game) \in InFlight

BotsToMove == room = "open" /\ Running /\ game.turn \in managed

LEMMA CarriedIsCarried ==
    /\ BotTurnIsCarried <=> (BotsToMove => Carried)
    /\ BotTurnIsCarried' <=> (BotsToMove' => Carried')
BY DEF BotTurnIsCarried, Carried, BotsToMove, TurnBox

\* Everything under way is an event.
LEMMA UnderWay == Queues => InFlight \subseteq Event /\ TurnBox \subseteq Event
<1> SUFFICES ASSUME Queues PROVE InFlight \subseteq Event /\ TurnBox \subseteq Event
  OBVIOUS
<1>1. ASSUME NEW s \in Seq(Event) PROVE Elements(s) \subseteq Event
  BY DEF Elements
<1>2. \A u \in Subscriber : /\ Elements(queue[u]) \subseteq Event
                            /\ Elements(outbox[u]) \subseteq Event
  BY <1>1 DEF Queues
<1>3. {"ws", "game", "bot"} = Subscriber
  BY DEF Subscriber
<1>4. QED
  BY <1>2, <1>3 DEF InFlight, TurnBox

LEMMA EventKinds ==
    /\ \A g : StartGame(g).kind = "StartGame"
    /\ \A s : TurnChanged(s).kind = "TurnChanged"
    /\ \A s, m, g : /\ TryPlayMove(s, m, g).kind = "TryPlayMove"
                    /\ TryPlayMove(s, m, g).player = s
                    /\ TryPlayMove(s, m, g).move = m
                    /\ TryPlayMove(s, m, g).saw = g
BY DEF StartGame, TurnChanged, TryPlayMove

\* A step that leaves the game and the thinking bot alone, and loses nothing that
\* carries a turn.
LEMMA StaysCarried ==
    ASSUME RoundTypes, BotTurnIsCarried,
           UNCHANGED <<game, thinking>>,
           room' = "open" => room = "open", managed' \subseteq managed,
           room = "open" =>
              /\ \A e \in Event : e.kind \in {"StartGame", "TryPlayMove"} /\ e \in InFlight
                                  => e \in InFlight'
              /\ \A e \in Event : e.kind = "TurnChanged" /\ e \in TurnBox => e \in TurnBox'
    PROVE  BotTurnIsCarried'
<1> SUFFICES ASSUME BotsToMove' PROVE Carried'
  BY CarriedIsCarried
<1>1. BotsToMove /\ room = "open"
  BY DEF BotsToMove, Running
<1>2. Carried
  BY <1>1, CarriedIsCarried
<1>3. InFlight \subseteq Event /\ TurnBox \subseteq Event
  BY UnderWay DEF RoundTypes
<1>4. CASE StartGame(game) \in InFlight
  BY <1>1, <1>3, <1>4, EventKinds DEF Carried
<1>5. CASE TurnChanged(game.turn) \in TurnBox
  BY <1>1, <1>3, <1>5, EventKinds DEF Carried
<1>6. CASE thinking = [seat |-> game.turn, saw |-> game]
  BY <1>6 DEF Carried
<1>7. ASSUME NEW m \in {"pass", "play"}, TryPlayMove(game.turn, m, game) \in InFlight
      PROVE  Carried'
  <2>1. TryPlayMove(game.turn, m, game) \in InFlight'
    BY <1>1, <1>3, <1>7, EventKinds
  <2>2. QED
    BY <2>1 DEF Carried
<1>8. QED
  BY <1>2, <1>4, <1>5, <1>6, <1>7 DEF Carried

LEMMA ClientCarries == RoundTypes /\ BotTurnIsCarried /\ ClientStep => BotTurnIsCarried'
<1> SUFFICES ASSUME RoundTypes, BotTurnIsCarried, ClientStep PROVE BotTurnIsCarried'
  OBVIOUS
<1>1. ASSUME NEW e \in Event, queue' = Delivered(queue, e), UNCHANGED <<state, outbox>>
      PROVE  BotTurnIsCarried'
  <2>1. InFlight \subseteq InFlight' /\ TurnBox \subseteq TurnBox'
    BY <1>1, DeliverKeeps DEF RoundTypes
  <2>2. UNCHANGED <<game, thinking, room, managed>>
    BY <1>1 DEF state, members
  <2>3. QED
    BY <2>1, <2>2, StaysCarried
<1>2. NoGame \in Games \cup {NoGame} /\ \A s \in Human : s \in Seat
  BY RoundAssumption
<1>3. ASSUME NEW s \in Human, ClientReady(s) PROVE BotTurnIsCarried'
  BY <1>1, <1>3, EventTypes DEF ClientReady
<1>4. ASSUME ClientStart PROVE BotTurnIsCarried'
  BY <1>1, <1>4, EventTypes DEF ClientStart
<1>5. ASSUME NEW s \in Human, ClientMove(s) PROVE BotTurnIsCarried'
  <2>1. PICK m \in {"pass", "play"} : queue' = Delivered(queue, TryPlayMove(s, m, NoGame))
    BY <1>5 DEF ClientMove
  <2>2. TryPlayMove(s, m, NoGame) \in Event
    BY <1>2, EventTypes
  <2>3. QED
    BY <1>1, <1>5, <2>1, <2>2 DEF ClientMove
<1>6. QED
  BY <1>3, <1>4, <1>5 DEF ClientStep

\* Nothing a member does touches an event; a game is only taken from a room that
\* has gone.
LEMMA MemberCarries == RoundTypes /\ BotTurnIsCarried /\ MemberStep => BotTurnIsCarried'
<1> SUFFICES ASSUME RoundTypes, BotTurnIsCarried, MemberStep PROVE BotTurnIsCarried'
  OBVIOUS
<1>1. UNCHANGED <<queue, outbox, thinking>>
  BY DEF MemberStep, Leave, RemoveGame, RemoveAllBots, RemoveChannel, UnseatBot, ForgetBot
<1>2. InFlight' = InFlight /\ TurnBox' = TurnBox
  BY <1>1 DEF InFlight, TurnBox
<1>3. CASE RemoveGame
  BY <1>3, CarriedIsCarried DEF RemoveGame, BotsToMove
<1>4. CASE ~RemoveGame
  <2>1. UNCHANGED game /\ (room' = "open" => room = "open") /\ managed' \subseteq managed
    BY <1>4 DEF MemberStep, Leave, RemoveAllBots, RemoveChannel, UnseatBot, ForgetBot
  <2>2. QED
    BY <1>1, <1>2, <2>1, StaysCarried
<1>5. QED
  BY <1>3, <1>4

LEMMA WsCarries == RoundTypes /\ BotTurnIsCarried /\ WsStep => BotTurnIsCarried'
<1> SUFFICES ASSUME RoundTypes, BotTurnIsCarried, WsStep PROVE BotTurnIsCarried'
  OBVIOUS
<1>1. "ws" \in Subscriber /\ Queues
  BY DEF Subscriber, RoundTypes
<1>2. ASSUME NEW kind \in {"PlayerReadyToggled", "TryStartGame", "TurnChanged"},
             Takes("ws", kind), NEW emits \in Seq(Event), Done("ws", emits),
             UNCHANGED <<members, game, thinking>>
      PROVE  BotTurnIsCarried'
  <2>1. /\ Head(queue["ws"]).kind = kind
        /\ \A e \in InFlight : e # Head(queue["ws"]) => e \in InFlight'
        /\ \A e \in TurnBox : e \in TurnBox'
    BY <1>1, <1>2, HandlerKeeps
  <2>2. kind \notin {"StartGame", "TryPlayMove"}
    OBVIOUS
  <2>3. UNCHANGED <<game, thinking, room, managed>>
    BY <1>2 DEF members
  <2>4. QED
    BY <2>1, <2>2, <2>3, StaysCarried
<1>3. CASE HandleReadyToggled
  BY <1>2, <1>3, EmptyEmits DEF HandleReadyToggled
<1>4. CASE HandleTryStartGame
  <2> DEFINE emits == IF MayStart THEN <<CreateGame>> ELSE <<>>
  <2>1. emits \in Seq(Event)
    BY EmptyEmits, OneEmit, EventTypes
  <2>2. Takes("ws", "TryStartGame") /\ Done("ws", emits) /\ UNCHANGED <<members, game, thinking>>
    BY <1>4 DEF HandleTryStartGame, state
  <2> HIDE DEF emits
  <2>3. QED
    BY <1>2, <2>1, <2>2
<1>5. CASE HandleTurnChanged
  BY <1>2, <1>5, EmptyEmits DEF HandleTurnChanged
<1>6. CASE HandleStartGame
  <2> DEFINE e == Head(queue["ws"])
  <2> SUFFICES ASSUME BotsToMove' PROVE Carried'
    BY CarriedIsCarried
  <2>1. /\ Takes("ws", "StartGame") /\ UNCHANGED <<game, thinking, room, managed>>
        /\ room = "open" => Done("ws", FirstTurnEvents(e.game))
    BY <1>6 DEF HandleStartGame, members
  <2>2. BotsToMove /\ room = "open"
    BY <2>1 DEF BotsToMove, Running
  <2>3. e \in Event /\ e.kind = "StartGame"
    BY <1>1, <2>1, TailElements DEF Takes, Queues
  <2>4. e.game \in Games /\ e = StartGame(e.game) /\ e.game.turn \in Seat
    BY <2>3, EventFields DEF Games
  <2> DEFINE told == TurnChanged(e.game.turn)
  <2>5. <<told>> \in Seq(Event) /\ Elements(<<told>>) = {told} /\ Done("ws", <<told>>)
    BY <2>1, <2>2, <2>4, EventTypes, OneEmit DEF FirstTurnEvents
  <2> HIDE DEF told
  <2>6. /\ told \in TurnBox'
        /\ \A x \in InFlight : x # e => x \in InFlight'
        /\ \A x \in TurnBox : x \in TurnBox'
    BY <1>1, <2>1, <2>5, HandlerKeeps
  <2>7. CASE e = StartGame(game)
    <3>1. e.game = game
      BY <2>7 DEF StartGame
    <3>2. TurnChanged(game'.turn) \in TurnBox'
      BY <2>1, <2>6, <3>1 DEF told
    <3>3. QED
      BY <3>2 DEF Carried
  <2>8. CASE e # StartGame(game)
    <3>1. Carried
      BY <2>2, CarriedIsCarried
    <3>2. \A m : e # TryPlayMove(game.turn, m, game)
      BY <2>3, EventKinds
    <3>3. QED
      BY <2>1, <2>6, <2>8, <3>1, <3>2 DEF Carried
  <2>9. QED
    BY <2>7, <2>8
<1>7. CASE HandleGameWon
  BY <1>7, CarriedIsCarried DEF HandleGameWon, GameRemoved, BotsToMove, Running
<1>8. CASE Emit("ws")
  <2>1. UNCHANGED <<game, thinking, room, managed>>
    BY <1>8 DEF Emit, state, members
  <2>2. ASSUME room = "open", NEW e \in Event
        PROVE  /\ e.kind \in {"StartGame", "TryPlayMove"} /\ e \in InFlight => e \in InFlight'
               /\ e.kind = "TurnChanged" /\ e \in TurnBox => e \in TurnBox'
    BY <1>1, <1>8, <2>2, EmitKeeps
  <2>3. QED
    BY <2>1, <2>2, StaysCarried
<1>9. QED
  BY <1>3, <1>4, <1>5, <1>6, <1>7, <1>8 DEF WsStep

LEMMA NewGameIsCarried ==
    ASSUME Queues, Takes("game", "CreateGame"), game' \in Games,
           Done("game", <<StartGame(game')>>)
    PROVE  BotTurnIsCarried'
<1> DEFINE x == StartGame(game')
<1>1. <<x>> \in Seq(Event) /\ Elements(<<x>>) = {x} /\ Done("game", <<x>>)
  BY EventTypes, OneEmit
<1>2. "game" \in Subscriber
  BY DEF Subscriber
<1> HIDE DEF x
<1>3. x \in InFlight'
  BY <1>1, <1>2, HandlerKeeps
<1>4. Carried'
  BY <1>3 DEF x, Carried, StartGame
<1>5. QED
  BY <1>4, CarriedIsCarried

\* The move that carries the turn of a bot is accepted: the game is the one the bot
\* saw, and a bot passes only where the game lets it, unless its strategy is cut off.
LEMMA CarrierIsNotRejected ==
    ASSUME MayTimeOut = FALSE, NEW e \in Event, e.kind = "TryPlayMove",
           Running, e.player = game.turn, e.saw = game
    PROVE  ~MayReject(e)
<1>1. e.move = "pass" => game.passes < 3
  BY EventFields DEF Running
<1>2. QED
  BY <1>1 DEF MayReject, MayAccept

LEMMA GameStepCarries ==
    ASSUME MayTimeOut = FALSE, RoundTypes, BotTurnIsCarried, GameStep
    PROVE  BotTurnIsCarried'
<1> DEFINE e == Head(queue["game"])
<1>1. "game" \in Subscriber /\ Queues
  BY DEF Subscriber, RoundTypes
<1>2. CASE HandleCreateGame
  <2>1. PICK first \in Seat :
          /\ game' = NewGame(created + 1, first)
          /\ Done("game", <<StartGame(NewGame(created + 1, first))>>)
    BY <1>2 DEF HandleCreateGame
  <2>2. game' \in Games
    BY <2>1, GameTypes DEF RoundTypes, TypeOK
  <2>3. QED
    BY <1>1, <1>2, <2>1, <2>2, NewGameIsCarried DEF HandleCreateGame
<1>3. CASE CreateGameFails
  <2>1. UNCHANGED <<game, thinking, room, managed>> /\ Takes("game", "CreateGame")
        /\ Done("game", <<>>)
    BY <1>3 DEF CreateGameFails, state, members
  <2>2. /\ e.kind = "CreateGame"
        /\ \A x \in InFlight : x # e => x \in InFlight'
        /\ \A x \in TurnBox : x \in TurnBox'
    BY <1>1, <2>1, HandlerKeeps, EmptyEmits
  <2>3. QED
    BY <2>1, <2>2, StaysCarried
<1>4. CASE AcceptMove
  <2>1. /\ Takes("game", "TryPlayMove") /\ MayAccept(e) /\ game' = Result(e)
        /\ Done("game", MoveEvents(e, Result(e)))
    BY <1>4 DEF AcceptMove
  <2>2. e \in Event /\ e.kind = "TryPlayMove"
    BY <1>1, <2>1, TailElements DEF Takes, Queues
  <2> DEFINE emits == MoveEvents(e, Result(e))
  <2>3. /\ emits \in Seq(Event) /\ Done("game", emits)
        /\ ~IsFinished(game') => TurnChanged(game'.turn) \in Elements(emits)
    BY <2>1, <2>2, ResultTypes
  <2> HIDE DEF emits
  <2>4. Elements(emits) \subseteq TurnBox'
    BY <1>1, <2>1, <2>3, HandlerKeeps
  <2>5. ~IsFinished(game') => TurnChanged(game'.turn) \in TurnBox'
    BY <2>3, <2>4
  <2>6. BotsToMove' => ~IsFinished(game')
    BY DEF BotsToMove, Running
  <2>7. TurnChanged(game'.turn) \in TurnBox' => Carried'
    BY DEF Carried
  <2>8. QED
    BY <2>5, <2>6, <2>7, CarriedIsCarried
<1>5. CASE RejectMove
  <2>1. /\ Takes("game", "TryPlayMove") /\ MayReject(e) /\ Done("game", <<>>)
        /\ UNCHANGED <<game, thinking, room, managed>>
    BY <1>5 DEF RejectMove, state, members
  <2> SUFFICES ASSUME BotsToMove' PROVE Carried'
    BY CarriedIsCarried
  <2>2. BotsToMove /\ Running /\ Carried
    BY <2>1, CarriedIsCarried DEF BotsToMove, Running
  <2>3. /\ e \in Event /\ e.kind = "TryPlayMove"
        /\ \A x \in InFlight : x # e => x \in InFlight'
        /\ \A x \in TurnBox : x \in TurnBox'
    BY <1>1, <2>1, HandlerKeeps, EmptyEmits
  <2>4. ~(e.player = game.turn /\ e.saw = game)
    BY <2>1, <2>2, <2>3, CarrierIsNotRejected
  <2>5. e # StartGame(game) /\ \A m : e # TryPlayMove(game.turn, m, game)
    BY <2>3, <2>4, EventKinds
  <2>6. QED
    BY <2>1, <2>2, <2>3, <2>5 DEF Carried
<1>6. CASE Emit("game")
  <2>1. UNCHANGED <<game, thinking, room, managed>>
    BY <1>6 DEF Emit, state, members
  <2>2. ASSUME room = "open", NEW x \in Event
        PROVE  /\ x.kind \in {"StartGame", "TryPlayMove"} /\ x \in InFlight => x \in InFlight'
               /\ x.kind = "TurnChanged" /\ x \in TurnBox => x \in TurnBox'
    BY <1>1, <1>6, <2>2, EmitKeeps
  <2>3. QED
    BY <2>1, <2>2, StaysCarried
<1>7. QED
  BY <1>2, <1>3, <1>4, <1>5, <1>6 DEF GameStep

\* The bot takes over from the event that names it, and its move from the bot.
LEMMA BotCarries == RoundTypes /\ BotTurnIsCarried /\ BotStep => BotTurnIsCarried'
<1> SUFFICES ASSUME RoundTypes, BotTurnIsCarried, BotStep, BotsToMove' PROVE Carried'
  BY CarriedIsCarried
<1>1. UNCHANGED <<game, room, managed>>
  BY DEF BotStep, BotTurnChanged, BotDecides, members
<1>2. BotsToMove /\ Running /\ Carried
  BY <1>1, CarriedIsCarried DEF BotsToMove, Running
<1>3. game \in Games /\ game # NoGame /\ Queues
  BY <1>2 DEF Running, RoundTypes, TypeOK
<1>4. Idle # [seat |-> game.turn, saw |-> game]
  BY <1>3 DEF Idle
<1>5. CASE BotTurnChanged
  <2> DEFINE e == Head(queue["bot"])
  <2>1. /\ Takes("bot", "TurnChanged") /\ Done("bot", <<>>) /\ thinking = Idle
        /\ thinking' = IF BotsTurn(e.player) THEN [seat |-> e.player, saw |-> game] ELSE Idle
    BY <1>5 DEF BotTurnChanged
  <2>2. /\ e.kind = "TurnChanged"
        /\ \A x \in InFlight : x # e => x \in InFlight'
        /\ \A x \in TurnBox : x # e => x \in TurnBox'
    BY <1>3, <2>1, HandlerKeeps, EmptyEmits DEF Subscriber
  <2>3. e # StartGame(game) /\ \A m : e # TryPlayMove(game.turn, m, game)
    BY <2>2, EventKinds
  <2>4. CASE e = TurnChanged(game.turn)
    <3>1. e.player = game.turn
      BY <2>4 DEF TurnChanged
    <3>2. BotsTurn(e.player)
      BY <1>2, <1>3, <3>1 DEF BotsTurn, BotsToMove
    <3>3. thinking' = [seat |-> game.turn, saw |-> game]
      BY <2>1, <3>1, <3>2
    <3>4. QED
      BY <1>1, <3>3 DEF Carried
  <2>5. CASE e # TurnChanged(game.turn)
    BY <1>1, <1>2, <1>4, <2>1, <2>2, <2>3, <2>5 DEF Carried
  <2>6. QED
    BY <2>4, <2>5
<1>6. CASE BotDecides
  <2>1. PICK m \in {"pass", "play"} :
          /\ TryPlayMove(thinking.seat, m, thinking.saw) \in Event
          /\ queue' = Delivered(queue, TryPlayMove(thinking.seat, m, thinking.saw))
    BY <1>6, DecisionTypes
  <2> DEFINE x == TryPlayMove(thinking.seat, m, thinking.saw)
  <2>2. x \in Event /\ x.kind = "TryPlayMove" /\ queue' = Delivered(queue, x)
        /\ UNCHANGED outbox /\ room # "removed"
    BY <1>2, <1>6, <2>1, EventKinds DEF BotDecides, BotsToMove
  <2> HIDE DEF x
  <2>3. InFlight \subseteq InFlight' /\ TurnBox \subseteq TurnBox' /\ x \in InFlight'
    BY <1>3, <2>2, DeliverKeeps
  <2>4. CASE thinking = [seat |-> game.turn, saw |-> game]
    <3>1. x = TryPlayMove(game.turn, m, game)
      BY <2>4 DEF x
    <3>2. QED
      BY <1>1, <2>3, <3>1 DEF Carried
  <2>5. CASE thinking # [seat |-> game.turn, saw |-> game]
    BY <1>1, <1>2, <2>3, <2>5 DEF Carried
  <2>6. QED
    BY <2>4, <2>5
<1>7. QED
  BY <1>5, <1>6 DEF BotStep

\* As long as no strategy of a bot is cut off, what makes a bot act on its turn is
\* always under way in an open room: "Verify it's still the bot's turn (guard
\* against race conditions)" drops other turns and never this one.  A strategy
\* that is cut off passes even where the game refuses a fourth pass.
THEOREM BotTurnsAreCarried ==
    ASSUME MayTimeOut = FALSE PROVE Spec => []BotTurnIsCarried
<1> DEFINE Inv == RoundTypes /\ BotTurnIsCarried
<1>1. Init => Inv
  BY InitTypes DEF Init, BotTurnIsCarried, Running
<1>2. Inv /\ [Next]_vars => Inv'
  <2> SUFFICES ASSUME Inv, [Next]_vars PROVE Inv'
    OBVIOUS
  <2>1. RoundTypes'
    BY NextTypes
  <2>2. CASE UNCHANGED vars
    <3>1. BotTurnIsCarried'
      BY <2>2 DEF vars, BotTurnIsCarried, Running, InFlight
    <3>2. QED
      BY <2>1, <3>1
  <2>3. CASE Next
    BY <2>1, <2>3, ClientCarries, MemberCarries, WsCarries, GameStepCarries, BotCarries DEF Next
  <2>4. QED
    BY <2>1, <2>2, <2>3
<1>3. QED
  BY <1>1, <1>2, PTL DEF Spec
=============================================================================
