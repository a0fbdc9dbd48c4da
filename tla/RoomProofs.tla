-------------------------------- MODULE RoomProofs --------------------------------
(***************************************************************************)
(* The invariants of a room, for any set of humans and bots.  RoomInv is     *)
(* inductive as it stands: who may host (HostIsSeatedHuman) needs that a     *)
(* seat is held once, because the leaver is looked for by position.          *)
(***************************************************************************)
EXTENDS Room, TLAPS

RoomInv ==
    /\ TypeOK
    /\ SeatedOnce
    /\ HostIsSeatedHuman
    /\ MarksBelongToSeated
    /\ exists \/ players = <<>>

\* What leaving does to the list: one seat less, everybody else in the same order.
LEMMA WithoutProperties ==
    ASSUME NEW s \in Seq(Player), NEW p \in Elements(s),
           \A i, j \in 1 .. Len(s) : s[i] = s[j] => i = j
    PROVE  /\ Position(s, p) \in 1 .. Len(s) /\ s[Position(s, p)] = p
           /\ Without(s, p) \in Seq(Player)
           /\ Len(Without(s, p)) = Len(s) - 1
           /\ Elements(Without(s, p)) = Elements(s) \ {p}
           /\ \A i, j \in 1 .. Len(Without(s, p)) :
                 Without(s, p)[i] = Without(s, p)[j] => i = j
<1> DEFINE k == Position(s, p)
           w == Without(s, p)
<1>1. k \in 1 .. Len(s) /\ s[k] = p
  <2>1. \E i \in 1 .. Len(s) : s[i] = p
    BY DEF Elements
  <2>2. QED BY <2>1 DEF Position
<1> HIDE DEF k
<1>2. w = [i \in 1 .. Len(s) - 1 |-> IF i < k THEN s[i] ELSE s[i + 1]]
  BY DEF Without, k
<1>3. Len(s) - 1 \in Nat
  BY <1>1
<1>4. /\ w \in Seq(Player)
      /\ Len(w) = Len(s) - 1
      /\ \A i \in 1 .. Len(s) - 1 : w[i] = IF i < k THEN s[i] ELSE s[i + 1]
  <2>1. \A i \in 1 .. Len(s) - 1 : s[i] \in Player /\ s[i + 1] \in Player
    BY <1>1
  <2>2. w \in [1 .. Len(s) - 1 -> Player]
    BY <1>2, <2>1
  <2>3. QED BY <1>2, <1>3, <2>2
<1> HIDE DEF w
<1>5. Elements(w) = Elements(s) \ {p}
  <2>1. ASSUME NEW x \in Elements(w)  PROVE x \in Elements(s) \ {p}
    <3>1. PICK i \in 1 .. Len(s) - 1 : w[i] = x
      BY <1>4 DEF Elements
    <3>2. CASE i < k
      BY <3>1, <3>2, <1>1, <1>4 DEF Elements
    <3>3. CASE ~(i < k)
      <4>1. x = s[i + 1] /\ i + 1 \in 1 .. Len(s) /\ i + 1 # k
        BY <3>1, <3>3, <1>1, <1>4
      <4>2. QED BY <4>1, <1>1 DEF Elements
    <3>4. QED BY <3>2, <3>3
  <2>2. ASSUME NEW x \in Elements(s) \ {p}  PROVE x \in Elements(w)
    <3>1. PICK i \in 1 .. Len(s) : s[i] = x
      BY DEF Elements
    <3>2. i # k
      BY <3>1, <1>1
    <3>3. CASE i < k
      <4>1. i \in 1 .. Len(w) /\ w[i] = x
        BY <3>1, <3>3, <1>1, <1>4
      <4>2. QED BY <4>1 DEF Elements
    <3>4. CASE i > k
      <4>1. i - 1 \in 1 .. Len(w) /\ ~(i - 1 < k) /\ (i - 1) + 1 = i
        BY <3>4, <1>1, <1>4
      <4>2. w[i - 1] = x
        BY <3>1, <4>1, <1>4
      <4>3. QED BY <4>1, <4>2 DEF Elements
    <3>5. QED BY <3>2, <3>3, <3>4, <1>1
  <2>3. QED BY <2>1, <2>2
<1>6. ASSUME NEW i \in 1 .. Len(w), NEW j \in 1 .. Len(w), w[i] = w[j]
      PROVE  i = j
  <2> DEFINE At(n) == IF n < k THEN n ELSE n + 1
  <2>1. At(i) \in 1 .. Len(s) /\ w[i] = s[At(i)]
    BY <1>1, <1>4
  <2>2. At(j) \in 1 .. Len(s) /\ w[j] = s[At(j)]
    BY <1>1, <1>4
  <2>3. At(i) = At(j)
    BY <1>6, <2>1, <2>2
  <2>4. QED BY <2>3, <1>1
<1>7. QED BY <1>1, <1>4, <1>5, <1>6 DEF k, w

\* A list with a human in it has a first one (the four seats bound the list, which
\* spares an induction).
LEMMA FirstHumanProperties ==
    ASSUME NEW s \in Seq(Player), Len(s) <= Capacity, ~Deserted(s)
    PROVE  /\ FirstHuman(s) \in Human \cap Elements(s)
           /\ \A h \in Human \cap Elements(s) :
                 h = FirstHuman(s) \/ Before(s, FirstHuman(s), h)
<1> DEFINE IsFirst(i) == s[i] \in Human /\ \A j \in 1 .. i - 1 : s[j] \notin Human
<1>1. PICK i \in 1 .. Len(s) : s[i] \in Human
  BY DEF Deserted, Elements
<1>2. Len(s) \in Nat /\ Len(s) <= 4
  BY DEF Capacity
<1>3. \E m \in 1 .. Len(s) : IsFirst(m)
  <2>1. CASE s[1] \in Human
    <3>1. 1 \in 1 .. Len(s) /\ 1 .. 1 - 1 = {}
      BY <1>1
    <3>2. QED BY <2>1, <3>1
  <2>2. CASE s[1] \notin Human /\ Len(s) >= 2 /\ s[2] \in Human
    <3>1. 2 \in 1 .. Len(s) /\ 1 .. 2 - 1 = {1}
      BY <2>2, <1>2
    <3>2. QED BY <2>2, <3>1
  <2>3. CASE /\ s[1] \notin Human /\ s[2] \notin Human
             /\ Len(s) >= 3 /\ s[3] \in Human
    <3>1. 3 \in 1 .. Len(s) /\ 1 .. 3 - 1 = {1, 2}
      BY <2>3, <1>2
    <3>2. QED BY <2>3, <3>1
  <2>4. CASE /\ s[1] \notin Human /\ s[2] \notin Human /\ s[3] \notin Human
             /\ Len(s) >= 4 /\ s[4] \in Human
    <3>1. 4 \in 1 .. Len(s) /\ 1 .. 4 - 1 = {1, 2, 3}
      BY <2>4, <1>2
    <3>2. QED BY <2>4, <3>1
  <2>5. i = 1 \/ i = 2 \/ i = 3 \/ i = 4
    BY <1>1, <1>2
  <2>6. QED BY <1>1, <1>2, <2>1, <2>2, <2>3, <2>4, <2>5
<1>4. PICK f \in 1 .. Len(s) : IsFirst(f) /\ FirstHuman(s) = s[f]
  BY <1>3 DEF FirstHuman
<1>5. ASSUME NEW h \in Human \cap Elements(s)
      PROVE  h = s[f] \/ Before(s, s[f], h)
  <2>1. PICK j \in 1 .. Len(s) : s[j] = h
    BY DEF Elements
  <2>2. ~(j < f)
    BY <1>4, <2>1
  <2>3. CASE j = f
    BY <2>1, <2>3
  <2>4. CASE f < j
    BY <2>1, <2>4 DEF Before
  <2>5. QED BY <2>2, <2>3, <2>4
<1>6. QED BY <1>4, <1>5 DEF Elements

\* What joining does to the list.
LEMMA AppendProperties ==
    ASSUME NEW s \in Seq(Player), NEW p \in Player, p \notin Elements(s),
           \A i, j \in 1 .. Len(s) : s[i] = s[j] => i = j
    PROVE  /\ Append(s, p) \in Seq(Player)
           /\ Len(Append(s, p)) = Len(s) + 1
           /\ Elements(Append(s, p)) = Elements(s) \cup {p}
           /\ \A i, j \in 1 .. Len(Append(s, p)) :
                 Append(s, p)[i] = Append(s, p)[j] => i = j
<1> DEFINE a == Append(s, p)
<1>1. /\ a \in Seq(Player) /\ Len(a) = Len(s) + 1
      /\ \A i \in 1 .. Len(s) : a[i] = s[i]
      /\ a[Len(s) + 1] = p
  OBVIOUS
<1> HIDE DEF a
<1>2. 1 .. Len(a) = (1 .. Len(s)) \cup {Len(s) + 1}
  BY <1>1
<1>3. Elements(a) = Elements(s) \cup {p}
  BY <1>1, <1>2 DEF Elements
<1>4. \A i, j \in 1 .. Len(a) : a[i] = a[j] => i = j
  BY <1>1, <1>2 DEF Elements
<1>5. QED BY <1>1, <1>3, <1>4 DEF a
-----------------------------------------------------------------------------
LEMMA EmptyList == <<>> \in Seq(Player) /\ Len(<<>>) = 0 /\ Elements(<<>>) = {}
<1>1. <<>> \in Seq(Player) /\ Len(<<>>) = 0
  OBVIOUS
<1>2. 1 .. 0 = {}
  OBVIOUS
<1>3. QED BY <1>1, <1>2 DEF Elements

LEMMA InitRoomInv == Init => RoomInv
<1> SUFFICES ASSUME Init
             PROVE  RoomInv
  OBVIOUS
<1>1. TypeOK
  <2>1. players \in Seq(Player) /\ Len(players) <= Capacity
    BY EmptyList DEF Init, Capacity
  <2>2. QED BY <2>1 DEF Init, TypeOK
<1>2. SeatedOnce
  <2>1. 1 .. Len(players) = {}
    BY EmptyList DEF Init
  <2>2. QED BY <2>1 DEF SeatedOnce
<1>3. HostIsSeatedHuman /\ MarksBelongToSeated
  BY DEF Init, HostIsSeatedHuman, MarksBelongToSeated
<1>4. QED BY <1>1, <1>2, <1>3 DEF Init, RoomInv

LEMMA JoinPreserves ==
    ASSUME RoomInv, NEW p \in Player, TryJoinRoom(p)
    PROVE  RoomInv'
<1>1. /\ players \in Seq(Player) /\ p \notin Elements(players)
      /\ \A i, j \in 1 .. Len(players) : players[i] = players[j] => i = j
  BY DEF RoomInv, TypeOK, SeatedOnce, TryJoinRoom, Seated
<1>2. /\ players' \in Seq(Player)
      /\ Len(players') = Len(players) + 1
      /\ Elements(players') = Elements(players) \cup {p}
      /\ SeatedOnce'
  BY <1>1, AppendProperties DEF TryJoinRoom, SeatedOnce
<1>3. TypeOK'
  BY <1>1, <1>2 DEF RoomInv, TypeOK, TryJoinRoom, Capacity
<1>4. HostIsSeatedHuman' /\ MarksBelongToSeated'
  BY <1>2 DEF RoomInv, HostIsSeatedHuman, MarksBelongToSeated, TryJoinRoom, Seated
<1>5. QED BY <1>2, <1>3, <1>4 DEF RoomInv, TryJoinRoom

LEMMA AbsentIsSafe == Absent => RoomInv'
<1> SUFFICES ASSUME Absent
             PROVE  RoomInv'
  OBVIOUS
<1>1. TypeOK'
  <2>1. players' \in Seq(Player) /\ Len(players') <= Capacity
    BY EmptyList DEF Absent, Capacity
  <2>2. QED BY <2>1 DEF Absent, TypeOK
<1>2. SeatedOnce'
  <2>1. 1 .. Len(players') = {}
    BY EmptyList DEF Absent
  <2>2. QED BY <2>1 DEF SeatedOnce
<1>3. HostIsSeatedHuman' /\ MarksBelongToSeated'
  BY DEF Absent, HostIsSeatedHuman, MarksBelongToSeated
<1>4. QED BY <1>1, <1>2, <1>3 DEF Absent, RoomInv

LEMMA LeavePreserves ==
    ASSUME RoomInv, NEW p \in Player, LeaveRoom(p)
    PROVE  RoomInv'
<1> DEFINE rest == Without(players, p)
<1>1. /\ rest \in Seq(Player) /\ Len(rest) = Len(players) - 1
      /\ Elements(rest) = Elements(players) \ {p}
      /\ \A i, j \in 1 .. Len(rest) : rest[i] = rest[j] => i = j
  BY WithoutProperties DEF RoomInv, TypeOK, SeatedOnce, LeaveRoom, Seated
<1>2. CASE Deserted(rest)
  BY <1>2, AbsentIsSafe DEF LeaveRoom
<1>3. CASE ~Deserted(rest)
  <2>1. /\ players' = rest /\ exists' /\ exists
        /\ ready' = ready \ {p} /\ connected' = connected \ {p}
        /\ host' = IF host = p THEN FirstHuman(rest) ELSE host
    BY <1>3 DEF LeaveRoom
  <2>2. Len(rest) <= Capacity
    BY <1>1 DEF RoomInv, TypeOK, Capacity
  <2>3. FirstHuman(rest) \in Human \cap Elements(rest)
    BY <1>1, <1>3, <2>2, FirstHumanProperties
  <2>4. HostIsSeatedHuman'
    BY <1>1, <2>1, <2>3 DEF RoomInv, HostIsSeatedHuman, Seated
  <2>5. MarksBelongToSeated' /\ SeatedOnce'
    BY <1>1, <2>1 DEF RoomInv, MarksBelongToSeated, SeatedOnce, Seated
  <2>6. TypeOK'
    BY <1>1, <2>1, <2>2, <2>3 DEF RoomInv, TypeOK, Player
  <2>7. QED BY <2>1, <2>4, <2>5, <2>6 DEF RoomInv
<1>4. QED BY <1>2, <1>3

LEMMA RoomInvIsInductive == RoomInv /\ [Next]_vars => RoomInv'
<1> SUFFICES ASSUME RoomInv, [Next]_vars
             PROVE  RoomInv'
  OBVIOUS
<1> USE DEF RoomInv, TypeOK, SeatedOnce, HostIsSeatedHuman, MarksBelongToSeated, Seated
<1>1. ASSUME NEW h \in Human, CreateRoom(h)  PROVE RoomInv'
  BY <1>1 DEF CreateRoom, Elements, Capacity, Player
<1>2. ASSUME NEW p \in Player, TryJoinRoom(p)  PROVE RoomInv'
  BY <1>2, JoinPreserves
<1>3. ASSUME NEW p \in Player, LeaveRoom(p)  PROVE RoomInv'
  BY <1>3, LeavePreserves
<1>4. ASSUME NEW p \in Player, MarkReady(p)  PROVE RoomInv'
  BY <1>4 DEF MarkReady
<1>5. ASSUME NEW p \in Player, MarkUnready(p)  PROVE RoomInv'
  BY <1>5 DEF MarkUnready
<1>6. ASSUME NEW p \in Player, MarkConnected(p)  PROVE RoomInv'
  BY <1>6 DEF MarkConnected
<1>7. ASSUME NEW p \in Player, MarkDisconnected(p)  PROVE RoomInv'
  BY <1>7 DEF MarkDisconnected
<1>8. CASE ClearReadyStates
  BY <1>8 DEF ClearReadyStates
<1>9. CASE DeleteRoom
  BY <1>9, AbsentIsSafe DEF DeleteRoom
<1>10. CASE UNCHANGED vars
  BY <1>10 DEF vars
<1>11. QED
  BY <1>1, <1>2, <1>3, <1>4, <1>5, <1>6, <1>7, <1>8, <1>9, <1>10 DEF Next

\* Every conjunct of RoomInv holds throughout a room's life.
THEOREM RoomInvariant == Spec => []RoomInv
<1>1. QED BY InitRoomInv, RoomInvIsInductive, PTL DEF Spec

\* The state variables keep their types and the seats stay at most four.
THEOREM RoomTypeCorrect == Spec => []TypeOK
<1>1. RoomInv => TypeOK
  BY DEF RoomInv
<1>2. QED BY <1>1, RoomInvariant, PTL

\* No player ever holds two seats of a room.
THEOREM NobodyHoldsTwoSeats == Spec => []SeatedOnce
<1>1. RoomInv => SeatedOnce
  BY DEF RoomInv
<1>2. QED BY <1>1, RoomInvariant, PTL

\* As long as a room exists, a human who is seated in it hosts it: the branch of
\* leave_room that gives up the host is unreachable.
THEOREM HostIsAlwaysSeated == Spec => []HostIsSeatedHuman
<1>1. RoomInv => HostIsSeatedHuman
  BY DEF RoomInv
<1>2. QED BY <1>1, RoomInvariant, PTL

\* Ready and connected entries never outlive the seat.
THEOREM MarksEndWithTheSeat == Spec => []MarksBelongToSeated
<1>1. RoomInv => MarksBelongToSeated
  BY DEF RoomInv
<1>2. QED BY <1>1, RoomInvariant, PTL

\* The host changes only by leaving, and the human seated longest follows.
THEOREM SeniorHumanFollows == Spec => HostPassesToSenior
<1> DEFINE Passes ==
        exists /\ exists' =>
            \/ host' = host
            \/ /\ host \notin Elements(players')
               /\ \A h \in (Human \cap Elements(players')) \ {host'} :
                     Before(players, host', h)
<1>1. ASSUME RoomInv, NEW p \in Player, LeaveRoom(p), exists', host' # host
      PROVE  Passes
  <2> DEFINE rest == Without(players, p)
  <2>1. /\ rest \in Seq(Player) /\ Len(rest) = Len(players) - 1
        /\ Elements(rest) = Elements(players) \ {p}
    BY <1>1, WithoutProperties DEF RoomInv, TypeOK, SeatedOnce, LeaveRoom, Seated
  <2>2. ~Deserted(rest) /\ players' = rest /\ host = p /\ host' = FirstHuman(rest)
    BY <1>1 DEF LeaveRoom, Absent
  <2>3. Len(rest) <= Capacity
    BY <1>1, <2>1 DEF RoomInv, TypeOK, Capacity
  <2>4. \A h \in (Human \cap Elements(rest)) \ {host'} : Before(rest, host', h)
    BY <2>1, <2>2, <2>3, FirstHumanProperties
  <2>5. ASSUME NEW a, NEW b, Before(rest, a, b)  PROVE Before(players, a, b)
    <3>1. PICK i, j \in 1 .. Len(rest) : i < j /\ rest[i] = a /\ rest[j] = b
      BY <2>5 DEF Before
    <3> DEFINE k == Position(players, p)
               At(n) == IF n < k THEN n ELSE n + 1
    <3>2. k \in 1 .. Len(players) /\ players \in Seq(Player)
      BY <1>1, WithoutProperties DEF RoomInv, TypeOK, SeatedOnce, LeaveRoom, Seated
    <3>3. \A n \in 1 .. Len(rest) : rest[n] = players[At(n)]
      BY <2>1 DEF Without
    <3> HIDE DEF k, rest
    <3>4. /\ At(i) \in 1 .. Len(players) /\ At(j) \in 1 .. Len(players)
          /\ At(i) < At(j)
      BY <2>1, <3>1, <3>2
    <3>5. QED BY <3>1, <3>3, <3>4 DEF Before
  <2>6. host \notin Elements(players')
    BY <2>1, <2>2
  <2>7. QED BY <2>2, <2>4, <2>5, <2>6
<1>2. ASSUME RoomInv, [Next]_vars  PROVE Passes
  <2>1. \/ host' = host \/ ~exists \/ ~exists'
        \/ \E p \in Player : LeaveRoom(p)
    BY <1>2 DEF Next, vars, CreateRoom, TryJoinRoom, MarkReady, MarkUnready,
                MarkConnected, MarkDisconnected, ClearReadyStates, DeleteRoom, Absent
  <2>2. QED BY <1>1, <1>2, <2>1
<1>3. RoomInv /\ [Next]_vars => [Passes]_vars
  BY <1>2
<1>4. QED BY <1>3, RoomInvariant, PTL DEF Spec, HostPassesToSenior
=============================================================================
