----------------------------- MODULE ConnectionProofs ----------------------------
(***************************************************************************)
(* The registry of connections, for any number of players and connections.   *)
(***************************************************************************)
EXTENDS Connection, TLAPS

RP == INSTANCE RoomProofs

Taken(c) == serving[c] # "none"

\* Tokens are handed out one after the other, to a player each, and the registry
\* has only what was handed out.
Tokens ==
    /\ \A c \in Token : Taken(c) <=> c <= tokens
    /\ \A c \in Token : Taken(c) => owner[c] \in Human
    /\ \A p \in Human : registered[p] # None => Taken(registered[p])

Types ==
    /\ tokens \in 0 .. MaxConnections
    /\ owner \in [Token -> Human \cup {None}]
    /\ serving \in [Token -> Stage]
    /\ hungUp \subseteq Token
    /\ registered \in [Human -> Token \cup {None}]

RegisteredToOwner == \A p \in Human : registered[p] # None => owner[registered[p]] = p

Events == {Connected(p) : p \in Human} \cup {Disconnected(p) : p \in Human}

ConnectionInv ==
    /\ RP!RoomInv
    /\ Types
    /\ Tokens
    /\ RegisteredToOwner
    /\ queue \in Seq(Events)

LEMMA RoomAssumption == RP!PlayersAssumption
BY ConnectionAssumption DEF RP!PlayersAssumption, RP!Player

\* The room's own steps, as they are known to the proofs about a room.
LEMMA RoomSteps ==
    ASSUME RP!RoomInv,
           \/ \E p \in Human : R!LeaveRoom(p) \/ R!MarkConnected(p) \/ R!MarkDisconnected(p)
           \/ UNCHANGED room
    PROVE  RP!RoomInv'
<1>1. ASSUME NEW p \in Human, R!LeaveRoom(p)  PROVE RP!RoomInv'
  <2>1. RP!LeaveRoom(p)
    BY <1>1 DEF R!LeaveRoom, RP!LeaveRoom, R!Without, RP!Without, R!Position, RP!Position,
       R!Seated, RP!Seated, R!Elements, RP!Elements, R!Deserted, RP!Deserted,
       R!Absent, RP!Absent, R!FirstHuman, RP!FirstHuman
  <2>2. QED BY <2>1, RoomAssumption, RP!LeavePreserves DEF RP!Player
<1>2. ASSUME NEW p \in Human, R!MarkConnected(p)  PROVE RP!RoomInv'
  BY <1>2 DEF R!MarkConnected, R!Seated, R!Elements, RP!RoomInv, RP!TypeOK, RP!SeatedOnce,
     RP!Seated, RP!Elements, RP!HostIsSeatedHuman, RP!MarksBelongToSeated, RP!Player
<1>3. ASSUME NEW p \in Human, R!MarkDisconnected(p)  PROVE RP!RoomInv'
  BY <1>3 DEF R!MarkDisconnected, R!Seated, R!Elements, RP!RoomInv, RP!TypeOK,
     RP!SeatedOnce, RP!Seated, RP!Elements, RP!HostIsSeatedHuman, RP!MarksBelongToSeated
<1>4. CASE UNCHANGED room
  BY <1>4 DEF room, RP!RoomInv, RP!TypeOK, RP!SeatedOnce, RP!Seated,
     RP!Elements, RP!HostIsSeatedHuman, RP!MarksBelongToSeated
<1>5. QED BY <1>1, <1>2, <1>3, <1>4

LEMMA MarkIsSafe ==
    ASSUME RP!RoomInv, NEW p \in Human, Mark(p)
    PROVE  RP!RoomInv'
BY RoomSteps DEF Mark

LEMMA InitInv == Init => ConnectionInv
<1> SUFFICES ASSUME Init
             PROVE  ConnectionInv
  OBVIOUS
<1>1. PICK n \in 1 .. R!Capacity : players \in [1 .. n -> Human]
  BY DEF Init
<1>2. /\ n \in Nat /\ n >= 1 /\ n <= 4 /\ R!Capacity = 4 /\ RP!Capacity = 4
  BY <1>1 DEF R!Capacity, RP!Capacity
<1>3. /\ players \in Seq(RP!Player) /\ Len(players) = n /\ DOMAIN players = 1 .. n
  BY <1>1, <1>2 DEF RP!Player
<1>4. /\ RP!Seated = R!Seated /\ players[1] \in Human \cap RP!Seated
      /\ R!Seated \subseteq RP!Player
  BY <1>1, <1>2, <1>3 DEF R!Seated, R!Elements, RP!Seated, RP!Elements, RP!Player
<1>5. RP!SeatedOnce
  BY <1>3 DEF Init, RP!SeatedOnce
<1>6. RP!RoomInv
  BY <1>2, <1>3, <1>4, <1>5 DEF Init, RP!RoomInv, RP!TypeOK, RP!HostIsSeatedHuman,
     RP!MarksBelongToSeated, RP!Player
<1>7. Types /\ Tokens /\ RegisteredToOwner /\ queue \in Seq(Events)
  BY ConnectionAssumption DEF Init, Types, Tokens, RegisteredToOwner, Taken, Token, None, Stage
<1>8. QED BY <1>6, <1>7 DEF ConnectionInv

\* Steps of the task that serves a connection.
LEMMA ServePreserves ==
    ASSUME ConnectionInv, NEW c \in Token, Serve(c)
    PROVE  ConnectionInv'
<1> USE DEF ConnectionInv, Types, Tokens, RegisteredToOwner, Taken, Advance, Stage, Token, None
<1>1. ASSUME Insert(c)  PROVE ConnectionInv'
  BY <1>1, RoomSteps DEF Insert, OwnToken
<1>2. ASSUME MarkPresent(c)  PROVE ConnectionInv'
  BY <1>2, MarkIsSafe DEF MarkPresent
<1>3. ASSUME AnnounceConnected(c)  PROVE ConnectionInv'
  <2>1. queue' \in Seq(Events)
    BY <1>3 DEF AnnounceConnected, Events
  <2>2. QED BY <1>3, <2>1, RoomSteps DEF AnnounceConnected
<1>4. ASSUME RunEnds(c)  PROVE ConnectionInv'
  BY <1>4, RoomSteps DEF RunEnds
<1>5. ASSUME RemoveIfCurrent(c)  PROVE ConnectionInv'
  BY <1>5, RoomSteps DEF RemoveIfCurrent, IsCurrent
<1>6. ASSUME MarkAbsent(c)  PROVE ConnectionInv'
  BY <1>6, RoomSteps DEF MarkAbsent
<1>7. ASSUME AnnounceDisconnected(c)  PROVE ConnectionInv'
  <2>1. queue' \in Seq(Events)
    BY <1>7 DEF AnnounceDisconnected, Events
  <2>2. QED BY <1>7, <2>1, RoomSteps DEF AnnounceDisconnected
<1>8. QED BY <1>1, <1>2, <1>3, <1>4, <1>5, <1>6, <1>7 DEF Serve

LEMMA InvIsInductive == ConnectionInv /\ [Next]_vars => ConnectionInv'
<1> SUFFICES ASSUME ConnectionInv, [Next]_vars
             PROVE  ConnectionInv'
  OBVIOUS
<1> USE DEF ConnectionInv, Types, Tokens, RegisteredToOwner, Taken, Stage, Token, None
<1>1. ASSUME NEW p \in Human, TakeToken(p)  PROVE ConnectionInv'
  BY <1>1, RoomSteps, ConnectionAssumption DEF TakeToken
<1>2. ASSUME NEW p \in Human, Leave(p)  PROVE ConnectionInv'
  BY <1>2, RoomSteps DEF Leave
<1>3. ASSUME NEW p \in Human, SendToClosed(p)  PROVE ConnectionInv'
  BY <1>3, RoomSteps DEF SendToClosed
<1>4. ASSUME NEW c \in Token, ClientHangsUp(c)  PROVE ConnectionInv'
  BY <1>4, RoomSteps DEF ClientHangsUp
<1>5. CASE HandleConnect
  <2>1. Head(queue) \in Events /\ Head(queue).kind = "PlayerConnected" /\ queue' \in Seq(Events)
    BY <1>5 DEF HandleConnect, Takes
  <2>2. Head(queue).player \in Human
    BY <2>1 DEF Events, Connected, Disconnected, Event
  <2>3. RP!RoomInv'
    BY <1>5, <2>2, MarkIsSafe DEF HandleConnect
  <2>4. QED BY <1>5, <2>1, <2>3 DEF HandleConnect
<1>6. CASE HandleDisconnect
  <2>1. queue' \in Seq(Events)
    BY <1>6 DEF HandleDisconnect, Takes
  <2>2. QED BY <1>6, <2>1, RoomSteps DEF HandleDisconnect
<1>7. CASE UNCHANGED vars
  <2>1. RP!RoomInv'
    BY <1>7, RoomSteps DEF vars, room
  <2>2. QED BY <1>7, <2>1 DEF vars
<1>8. QED BY <1>1, <1>2, <1>3, <1>4, <1>5, <1>6, <1>7, ServePreserves DEF Next, Subscriber

THEOREM ConnectionInvariant == Spec => []ConnectionInv
<1>1. QED BY InitInv, InvIsInductive, PTL DEF Spec

\* The registry never has a connection under another player's name, however the
\* registrations of several connections interleave.
THEOREM ConnectionTypeCorrect == Spec => []TypeOK
<1>1. ConnectionInv => TypeOK
  <2>1. ConnectionInv => R!TypeOK
    BY DEF ConnectionInv, R!TypeOK, RP!RoomInv, RP!TypeOK, R!Player, RP!Player,
       R!Capacity, RP!Capacity
  <2>2. ConnectionInv => \A i \in 1 .. Len(queue) : queue[i] \in Events
    BY DEF ConnectionInv
  <2>3. QED BY <2>1, <2>2 DEF ConnectionInv, Types, RegisteredToOwner, TypeOK, Events
<1>2. QED BY <1>1, ConnectionInvariant, PTL

\* A player with an open registered connection loses it to a newer one only: the
\* token keeps the clean-up of an old connection away from it, and a send removes
\* only an entry whose receiver is gone.
THEOREM OnlyANewerReplaces == Spec => OpenStaysRegistered
<1> DEFINE Stays(c) == Open(c) /\ IsCurrent(c) /\ ~IsCurrent(c)' => registered'[owner[c]] # None
<1>1. ASSUME ConnectionInv, [Next]_vars, NEW c \in Token, Open(c), IsCurrent(c), ~IsCurrent(c)'
      PROVE  registered'[owner[c]] # None
  <2> DEFINE p == owner[c]
  <2>1. /\ p \in Human /\ registered[p] = c /\ c # None /\ c <= tokens
        /\ serving[c] \in {"inserted", "marked", "running"}
    BY <1>1 DEF ConnectionInv, Tokens, Taken, Open, IsCurrent, Token, None
  <2>2. SUFFICES registered'[p] = c \/ registered'[p] # None
    BY <2>1
  <2>3. ASSUME NEW d \in Token, Insert(d)  PROVE registered'[p] # None
    BY <1>1, <2>1, <2>3 DEF Insert, OwnToken, Advance, ConnectionInv, Types, Tokens, Taken,
       Token, None
  <2>4. ASSUME NEW d \in Token, RemoveIfCurrent(d)  PROVE registered'[p] = c
    <3>1. serving[d] = "ended" /\ d # c
      BY <2>1, <2>4 DEF RemoveIfCurrent, Advance
    <3>2. QED BY <1>1, <2>1, <2>4, <3>1 DEF RemoveIfCurrent, IsCurrent, ConnectionInv, Types
  <2>5. ASSUME NEW q \in Human, SendToClosed(q)  PROVE registered'[p] = c
    BY <1>1, <2>1, <2>5 DEF SendToClosed, ConnectionInv, Types
  <2>6. CASE UNCHANGED registered
    BY <2>1, <2>6
  <2>7. QED
    BY <1>1, <2>3, <2>4, <2>5, <2>6 DEF Next, Serve, Subscriber, TakeToken, Leave,
       MarkPresent, AnnounceConnected, RunEnds, MarkAbsent, AnnounceDisconnected,
       ClientHangsUp, HandleConnect, HandleDisconnect, vars
<1>2. ConnectionInv /\ [Next]_vars => [\A c \in Token : Stays(c)]_vars
  BY <1>1
<1>3. QED BY <1>2, ConnectionInvariant, PTL DEF Spec, OpenStaysRegistered
=============================================================================
