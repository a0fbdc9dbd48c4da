------------------------------ MODULE LifecycleProofs -----------------------------
(***************************************************************************)
(* Bots and channel of a room that handlers take apart step by step, for any *)
(* number of handlers at a time and any limit of bots.                       *)
(***************************************************************************)
EXTENDS Lifecycle, TLAPS

RP == INSTANCE RoomProofs

OnBot(t) == task[t].at \in BotSteps
Fresh(t) == task[t].at \in {"count", "recount", "insert"}
OnTeardown(t) == task[t].at \in TeardownSteps

Types ==
    /\ managed \subseteq made /\ named \subseteq made /\ made \subseteq Bot
    /\ channel \in BOOLEAN
    /\ task \in [Task -> Tasks]

\* A bot that is yet to be inserted is known to its handler alone, and one that a
\* handler has yet to unname has left the manager for good.
BotsInHand ==
    \A t \in Task :
        /\ OnBot(t) => task[t].bot \in made
        /\ Fresh(t) \/ At(t, "unname") => task[t].bot \notin managed
        /\ Fresh(t) =>
              \A u \in Task \ {t} : OnBot(u) => task[u].bot # task[t].bot

\* A leaver's teardown starts when the room is gone; the clean-up removes the
\* channel only after the room, and may only be relied on once it has come so far.
Teardowns ==
    /\ \A t \in Task :
        /\ OnTeardown(t) /\ task[t].by = "leave" => ~exists /\ ~At(t, "room")
        /\ At(t, "channel") => ~exists
    /\ exists => channel
    /\ ~exists /\ channel =>
          \E t \in Task : OnTeardown(t) /\ (task[t].by = "leave" \/ At(t, "channel"))

LifecycleInv ==
    /\ RP!RoomInv
    /\ Types
    /\ BotsInHand
    /\ UnseatedBotIsInHand
    /\ Teardowns

LEMMA RoomAssumption == RP!PlayersAssumption
BY LifecycleAssumption DEF RP!PlayersAssumption, RP!Player

\* The room's own steps, as they are known to the proofs about a room.
LEMMA SameJoin ==
    ASSUME NEW p
    PROVE  R!TryJoinRoom(p) <=> RP!TryJoinRoom(p)
BY DEF R!TryJoinRoom, RP!TryJoinRoom, R!Seated, RP!Seated, R!Elements, RP!Elements,
       R!Capacity, RP!Capacity

LEMMA SameLeave ==
    ASSUME NEW p
    PROVE  R!LeaveRoom(p) <=> RP!LeaveRoom(p)
BY DEF R!LeaveRoom, RP!LeaveRoom, R!Without, RP!Without, R!Position, RP!Position,
       R!Seated, RP!Seated, R!Elements, RP!Elements, R!Deserted, RP!Deserted,
       R!Absent, RP!Absent, R!FirstHuman, RP!FirstHuman

LEMMA SameDelete == R!DeleteRoom <=> RP!DeleteRoom
BY DEF R!DeleteRoom, RP!DeleteRoom, R!Absent, RP!Absent

LEMMA SameSeats == R!Seated = RP!Seated
BY DEF R!Seated, RP!Seated, R!Elements, RP!Elements

\* What joining and leaving do to the seats.
LEMMA JoinSeats ==
    ASSUME RP!RoomInv, NEW p \in Human \cup Bot, R!TryJoinRoom(p)
    PROVE  /\ exists /\ exists'
           /\ R!Seated' = R!Seated \cup {p}
           /\ RP!RoomInv'
<1>1. RP!TryJoinRoom(p) /\ p \in RP!Player
  BY SameJoin DEF RP!Player
<1>2. RP!RoomInv'
  BY <1>1, RoomAssumption, RP!JoinPreserves
<1>3. /\ players \in Seq(RP!Player) /\ p \notin RP!Elements(players)
      /\ \A i, j \in 1 .. Len(players) : players[i] = players[j] => i = j
  BY <1>1 DEF RP!RoomInv, RP!TypeOK, RP!SeatedOnce, RP!TryJoinRoom, RP!Seated
<1>4. RP!Elements(Append(players, p)) = RP!Elements(players) \cup {p}
  BY <1>1, <1>3, RoomAssumption, RP!AppendProperties
<1>5. players' = Append(players, p) /\ exists /\ exists'
  BY <1>1 DEF RP!TryJoinRoom
<1>6. QED BY <1>2, <1>4, <1>5 DEF R!Seated, R!Elements, RP!Elements

LEMMA LeaveSeats ==
    ASSUME RP!RoomInv, NEW p \in Human \cup Bot, R!LeaveRoom(p)
    PROVE  /\ exists
           /\ exists' => R!Seated' = R!Seated \ {p}
           /\ p \in Bot => exists'
           /\ RP!RoomInv'
<1>1. RP!LeaveRoom(p) /\ p \in RP!Player
  BY SameLeave DEF RP!Player
<1>2. RP!RoomInv'
  BY <1>1, RoomAssumption, RP!LeavePreserves
<1>3. /\ players \in Seq(RP!Player) /\ p \in RP!Elements(players)
      /\ \A i, j \in 1 .. Len(players) : players[i] = players[j] => i = j
  BY <1>1 DEF RP!RoomInv, RP!TypeOK, RP!SeatedOnce, RP!LeaveRoom, RP!Seated
<1>4. RP!Elements(RP!Without(players, p)) = RP!Elements(players) \ {p}
  BY <1>1, <1>3, RoomAssumption, RP!WithoutProperties
<1>5. exists /\ (exists' => players' = RP!Without(players, p))
  BY <1>1 DEF RP!LeaveRoom, RP!Absent
<1>6. p \in Bot => exists'
  <2>1. exists /\ host \in Human \cap RP!Elements(players)
    BY <1>5 DEF RP!RoomInv, RP!HostIsSeatedHuman, RP!Seated
  <2>2. p \in Bot => ~RP!Deserted(RP!Without(players, p))
    BY <1>4, <2>1, LifecycleAssumption DEF RP!Deserted
  <2>3. QED BY <1>1, <2>1, <2>2 DEF RP!LeaveRoom
<1>7. QED BY <1>2, <1>4, <1>5, <1>6 DEF R!Seated, R!Elements, RP!Elements

LEMMA DeleteIsSafe ==
    ASSUME R!DeleteRoom
    PROVE  exists /\ ~exists' /\ RP!RoomInv'
<1>1. RP!DeleteRoom
  BY SameDelete
<1>2. RP!Absent /\ exists
  BY <1>1 DEF RP!DeleteRoom
<1>3. RP!RoomInv'
  BY <1>2, RoomAssumption, RP!AbsentIsSafe
<1>4. QED BY <1>2, <1>3 DEF RP!Absent

LEMMA RoomStays ==
    ASSUME RP!RoomInv, UNCHANGED room
    PROVE  exists' = exists /\ R!Seated' = R!Seated /\ RP!RoomInv'
BY DEF room, R!Seated, R!Elements, RP!RoomInv, RP!TypeOK, RP!SeatedOnce, RP!Seated,
       RP!Elements, RP!HostIsSeatedHuman, RP!MarksBelongToSeated

LEMMA InitInv == Init => LifecycleInv
<1> SUFFICES ASSUME Init
             PROVE  LifecycleInv
  OBVIOUS
<1>1. host \in Human /\ players = <<host>> /\ exists
  BY DEF Init
<1>2. players \in Seq(RP!Player) /\ Len(players) = 1 /\ players[1] = host
  BY <1>1 DEF RP!Player
<1>3. RP!Elements(players) = {host}
  BY <1>2 DEF RP!Elements
<1>4. RP!RoomInv
  BY <1>1, <1>2, <1>3 DEF Init, RP!RoomInv, RP!TypeOK, RP!SeatedOnce, RP!Capacity,
     RP!HostIsSeatedHuman, RP!MarksBelongToSeated, RP!Seated, RP!Player
<1>5. \A t \in Task : task[t] = Idle /\ task[t].at = "idle"
  BY DEF Init, Idle
<1>6. Types
  BY DEF Init, Types, Tasks
<1>7. BotsInHand /\ UnseatedBotIsInHand /\ Teardowns
  BY <1>5 DEF Init, BotsInHand, UnseatedBotIsInHand, Teardowns, OnBot, Fresh, OnTeardown,
     At, BotSteps, TeardownSteps
<1>8. QED BY <1>4, <1>6, <1>7 DEF LifecycleInv

\* Steps of adding a bot.
LEMMA AddingPreserves ==
    ASSUME LifecycleInv, NEW t \in Task, AddsBot(t)
    PROVE  LifecycleInv'
<1> USE DEF LifecycleInv, Types, Tasks, BotsInHand, UnseatedBotIsInHand, Teardowns,
        OnBot, Fresh, OnTeardown, At, Goes, GoesOn, Idle, WithBot, BotSteps, TeardownSteps
<1>1. ASSUME NEW b \in Bot, AddBot(t, b)  PROVE LifecycleInv'
  BY <1>1, RoomStays DEF AddBot
<1>2. ASSUME CountBots(t)  PROVE LifecycleInv'
  BY <1>2, RoomStays DEF CountBots
<1>3. ASSUME InsertBot(t)  PROVE LifecycleInv'
  BY <1>3, RoomStays DEF InsertBot
<1>4. ASSUME NameBot(t)  PROVE LifecycleInv'
  BY <1>4, RoomStays DEF NameBot
<1>5. ASSUME SeatBot(t)  PROVE LifecycleInv'
  BY <1>5, JoinSeats DEF SeatBot
<1>6. ASSUME SeatRefused(t)  PROVE LifecycleInv'
  BY <1>6, RoomStays DEF SeatRefused
<1>7. ASSUME UndoBot(t)  PROVE LifecycleInv'
  BY <1>7, RoomStays DEF UndoBot, BotForgotten
<1>8. QED BY <1>1, <1>2, <1>3, <1>4, <1>5, <1>6, <1>7 DEF AddsBot

\* Steps of removing a bot: an unseated bot is still in the remover's hands.
LEMMA RemovingPreserves ==
    ASSUME LifecycleInv, NEW t \in Task, RemovesBot(t)
    PROVE  LifecycleInv'
<1> USE DEF LifecycleInv, Types, Tasks, BotsInHand, UnseatedBotIsInHand, Teardowns,
        OnBot, Fresh, OnTeardown, At, Goes, GoesOn, Idle, WithBot, BotSteps, TeardownSteps
<1>1. ASSUME NEW b \in Bot, RemoveBot(t, b)  PROVE LifecycleInv'
  BY <1>1, RoomStays DEF RemoveBot
<1>2. ASSUME UnseatBot(t)  PROVE LifecycleInv'
  <2>1. /\ task[t].at = "unseat" /\ task[t].bot \in Bot
        /\ task' = [task EXCEPT ![t].at = "forget"]
        /\ UNCHANGED <<managed, named, channel, made>>
    BY <1>2 DEF UnseatBot
  \* The host is a human and stays: a bot's leave never deletes the room.
  <2>2. /\ RP!RoomInv' /\ (exists' <=> exists)
        /\ exists => R!Seated \ {task[t].bot} \subseteq R!Seated'
    <3>1. CASE exists /\ task[t].bot \in R!Seated
      <4>1. R!LeaveRoom(task[t].bot)
        BY <1>2, <3>1 DEF UnseatBot
      <4>2. exists' /\ R!Seated' = R!Seated \ {task[t].bot} /\ RP!RoomInv'
        BY <2>1, <4>1, LeaveSeats
      <4>3. QED BY <3>1, <4>2
    <3>2. CASE ~(exists /\ task[t].bot \in R!Seated)
      BY <1>2, <3>2, RoomStays DEF UnseatBot
    <3>3. QED BY <3>1, <3>2
  <2>3. Types' /\ BotsInHand'
    BY <2>1
  <2>4. UnseatedBotIsInHand' /\ Teardowns'
    BY <2>1, <2>2
  <2>5. QED BY <2>2, <2>3, <2>4
<1>3. ASSUME ForgetBot(t)  PROVE LifecycleInv'
  BY <1>3, RoomStays DEF ForgetBot
<1>4. ASSUME UnnameBot(t)  PROVE LifecycleInv'
  BY <1>4, RoomStays DEF UnnameBot
<1>5. QED BY <1>1, <1>2, <1>3, <1>4 DEF RemovesBot

\* Steps of leaving, of the clean-up and of the teardown.
LEMMA TeardownPreserves ==
    ASSUME LifecycleInv, NEW t \in Task, TearsDown(t)
    PROVE  LifecycleInv'
<1> USE DEF LifecycleInv, Types, Tasks, BotsInHand, UnseatedBotIsInHand, Teardowns,
        OnBot, Fresh, OnTeardown, At, Goes, GoesOn, Idle, Teardown, BotSteps, TeardownSteps
<1>1. ASSUME NEW h \in Human, Leave(t, h)  PROVE LifecycleInv'
  BY <1>1, LeaveSeats, LifecycleAssumption DEF Leave
<1>2. ASSUME CleanUp(t)  PROVE LifecycleInv'
  BY <1>2, RoomStays DEF CleanUp
<1>3. ASSUME ListBots(t)  PROVE LifecycleInv'
  BY <1>3, RoomStays DEF ListBots
<1>4. ASSUME RemoveAllBots(t)  PROVE LifecycleInv'
  BY <1>4, RoomStays DEF RemoveAllBots
<1>5. ASSUME RemoveNames(t)  PROVE LifecycleInv'
  BY <1>5, RoomStays DEF RemoveNames, NextOf
<1>6. ASSUME DeleteRoom(t)  PROVE LifecycleInv'
  BY <1>6, RoomStays, DeleteIsSafe DEF DeleteRoom
<1>7. ASSUME RemoveChannel(t)  PROVE LifecycleInv'
  <2>1. /\ task[t].at = "channel" /\ ~channel'
        /\ task' = [task EXCEPT ![t] = Idle]
        /\ UNCHANGED <<room, managed, named, made>>
    BY <1>7 DEF RemoveChannel
  <2>2. ~exists /\ ~exists' /\ RP!RoomInv'
    BY <2>1, RoomStays
  <2>3. Types' /\ BotsInHand'
    <3>1. channel' \in BOOLEAN
      BY <1>7, Zenon DEF RemoveChannel
    <3>2. \A u \in Task : task'[u] = IF u = t THEN Idle ELSE task[u]
      BY <2>1
    <3>3. task' \in [Task -> Tasks]
      BY <2>1
    <3>4. BotsInHand'
      BY <2>1, <3>2
    <3>5. QED BY <2>1, <3>1, <3>3, <3>4
  <2>4. UnseatedBotIsInHand' /\ Teardowns'
    BY <2>1, <2>2
  <2>5. QED BY <2>2, <2>3, <2>4
<1>8. QED BY <1>1, <1>2, <1>3, <1>4, <1>5, <1>6, <1>7 DEF TearsDown

LEMMA JoiningPreserves ==
    ASSUME LifecycleInv, NEW h \in Human, Join(h)
    PROVE  LifecycleInv'
BY JoinSeats DEF Join, LifecycleInv, Types, BotsInHand, UnseatedBotIsInHand, Teardowns,
   OnBot, Fresh, OnTeardown, At

LEMMA InvIsInductive == LifecycleInv /\ [Next]_vars => LifecycleInv'
<1> SUFFICES ASSUME LifecycleInv, [Next]_vars
             PROVE  LifecycleInv'
  OBVIOUS
<1>1. CASE UNCHANGED vars
  <2>1. RP!RoomInv'
    BY <1>1, RoomStays DEF vars, room, LifecycleInv
  <2>2. R!Seated' = R!Seated
    BY <1>1, RoomStays DEF vars, room, LifecycleInv
  <2>3. QED BY <1>1, <2>1, <2>2 DEF vars, LifecycleInv, Types, BotsInHand, UnseatedBotIsInHand,
              Teardowns, OnBot, Fresh, OnTeardown, At
<1>2. QED BY <1>1, AddingPreserves, RemovingPreserves, TeardownPreserves, JoiningPreserves
          DEF Next

THEOREM LifecycleInvariant == Spec => []LifecycleInv
<1>1. QED BY InitInv, InvIsInductive, PTL DEF Spec

\* The state keeps its types: every handler is at a step of its own procedure.
THEOREM LifecycleTypeCorrect == Spec => []TypeOK
<1>1. LifecycleInv => TypeOK
  BY DEF LifecycleInv, Types, TypeOK, R!TypeOK, RP!RoomInv, RP!TypeOK, R!Player, RP!Player,
     R!Capacity, RP!Capacity
<1>2. QED BY <1>1, LifecycleInvariant, PTL

\* No bot is forgotten in the manager of a living room, whatever the number of
\* handlers that add and remove bots at a time.
THEOREM NoBotIsForgotten == Spec => []UnseatedBotIsInHand
<1>1. LifecycleInv => UnseatedBotIsInHand
  BY DEF LifecycleInv
<1>2. QED BY <1>1, LifecycleInvariant, PTL

\* The event channel is there as long as the room, and some teardown has yet to
\* remove it afterwards.
THEOREM ChannelGoesWithRoom == Spec => []ChannelFollowsRoom
<1>1. LifecycleInv => ChannelFollowsRoom
  BY DEF LifecycleInv, Types, Teardowns, ChannelFollowsRoom, OnTeardown, At, TeardownSteps
<1>2. QED BY <1>1, LifecycleInvariant, PTL
=============================================================================
