------------------------------- MODULE EventBusProofs -------------------------------
(***************************************************************************)
(* The ring of a room's channel is a queue for each of its subscribers, for  *)
(* any number of subscriptions, events and any capacity.                     *)
(***************************************************************************)
EXTENDS EventBus, SequenceTheorems, TLAPS

Types ==
    /\ room \in {"none", "open", "deleted", "removed"}
    /\ room_channels \in Subscriber \cup {NoChannel}
    /\ channel \in [Subscriber -> [buffer : Seq(Nat), tail : Nat]]
    /\ receiver \in [Subscriber ->
            [step : {"new", "create", "listening", "lagged", "closed"},
             channel : Subscriber \cup {NoChannel}, next : Nat]]
    /\ starting \in Nat /\ emitted \in Nat
    /\ heard \in [Subscriber -> Seq(Nat)] /\ sent \in [Subscriber -> Seq(Nat)]

\* The buffer holds the end of s, as much of it as fits.
HoldsEnd(buffer, s) ==
    /\ Len(buffer) <= Len(s) /\ Len(buffer) <= Capacity
    /\ Len(buffer) < Len(s) => Len(buffer) = Capacity
    /\ \A i \in 1 .. Len(buffer) : buffer[i] = s[Len(s) - Len(buffer) + i]

\* A channel holds the last events sent on it.
Rings ==
    \A c \in Subscriber :
        channel[c].tail = Len(sent[c]) /\ HoldsEnd(channel[c].buffer, sent[c])

\* Who has a receiver has one of a channel that was created before, and is at an
\* event that was sent on it or at the next one.
Places ==
    \A u \in Subscriber : Is(u, "listening") =>
        /\ receiver[u].channel \in Subscriber /\ receiver[u].channel < starting
        /\ receiver[u].next <= channel[receiver[u].channel].tail

\* create_room has come to the subscription `starting`: those before it have had
\* their receivers, and channels have the numbers of those.
Starts ==
    /\ \A u \in Subscriber :
          /\ u < starting => ~Is(u, "new") /\ ~Is(u, "create")
          /\ u > starting => Is(u, "new")
          /\ u = starting => Is(u, "new") \/ Is(u, "create")
          /\ u >= starting => sent[u] = <<>> /\ channel[u] = NewChannel
    /\ room_channels < starting

\* A room's channel is created once: while a subscription is about to create it
\* the map has none, so that nobody's channel is replaced.
CreatedOnce ==
    \A u \in Subscriber : Is(u, "create") => room_channels = NoChannel

BusInv == Types /\ Rings /\ Places /\ Starts /\ CreatedOnce
-----------------------------------------------------------------------------
(* Sequences of events. *)

\* What is left of a sequence that is heard up to k begins with its next event.
LEMMA RestOfSequence ==
    ASSUME NEW s \in Seq(Nat), NEW k \in Nat, k < Len(s)
    PROVE  LET rest == SubSeq(s, k + 1, Len(s)) IN
           /\ rest # <<>> /\ Head(rest) = s[k + 1]
           /\ Tail(rest) = SubSeq(s, k + 2, Len(s))
<1>1. k + 1 \in 1 .. Len(s) /\ Len(s) \in k + 1 .. Len(s)
  OBVIOUS
<1>2. Len(SubSeq(s, k + 1, Len(s))) = Len(s) - (k + 1) + 1
  <2>1. \A i \in k + 1 .. Len(s) : s[i] \in Nat
    OBVIOUS
  <2>2. QED
    BY <1>1, <2>1, SubSeqProperties
<1> DEFINE rest == SubSeq(s, k + 1, Len(s))
<1>3. Head(rest) = s[k + 1] /\ Tail(rest) = SubSeq(s, (k + 1) + 1, Len(s))
  BY <1>1, HeadTailOfSubSeq
<1>4. (k + 1) + 1 = k + 2
  OBVIOUS
<1> HIDE DEF rest
<1>5. rest # <<>>
  <2>1. Len(rest) # 0
    <3>1. Len(rest) = Len(s) - (k + 1) + 1
      BY <1>2 DEF rest
    <3>2. QED
      BY <3>1
  <2>2. QED
    BY <2>1
<1>6. Tail(rest) = SubSeq(s, k + 2, Len(s))
  BY <1>3, <1>4
<1>7. QED
  BY <1>3, <1>5, <1>6 DEF rest

\* An event that is sent is the last of what is left to hear.
LEMMA RestGrows ==
    ASSUME NEW s \in Seq(Nat), NEW e \in Nat, NEW k \in Nat, k <= Len(s)
    PROVE  SubSeq(Append(s, e), k + 1, Len(Append(s, e)))
           = Append(SubSeq(s, k + 1, Len(s)), e)
<1> DEFINE t == Append(s, e)
           rest == SubSeq(s, k + 1, Len(s))
           more == SubSeq(t, k + 1, Len(t))
<1>1. t \in Seq(Nat) /\ Len(t) = Len(s) + 1 /\ t[Len(s) + 1] = e
      /\ \A i \in 1 .. Len(s) : t[i] = s[i]
  BY AppendProperties
<1>2. /\ rest \in Seq(Nat) /\ Len(rest) = Len(s) - k
      /\ \A i \in 1 .. Len(s) - k : rest[i] = s[k + i]
  <2>1. \A i \in k + 1 .. Len(s) : s[i] \in Nat
    OBVIOUS
  <2>2. QED
    BY <2>1, SubSeqProperties
<1>3. /\ more \in Seq(Nat) /\ Len(more) = Len(s) + 1 - k
      /\ \A i \in 1 .. Len(s) + 1 - k : more[i] = t[k + i]
  <2>1. \A i \in k + 1 .. Len(t) : t[i] \in Nat
    BY <1>1
  <2>2. QED
    BY <1>1, <2>1, SubSeqProperties, SMTT(30)
<1>4. /\ Append(rest, e) \in Seq(Nat) /\ Len(Append(rest, e)) = Len(rest) + 1
      /\ \A i \in 1 .. Len(rest) : Append(rest, e)[i] = rest[i]
      /\ Append(rest, e)[Len(rest) + 1] = e
  <2> HIDE DEF rest
  <2>1. QED
    BY <1>2, AppendProperties
<1> HIDE DEF t, rest, more
<1>5. Len(more) = Len(Append(rest, e))
  BY <1>2, <1>3, <1>4
<1>6. ASSUME NEW i \in 1 .. Len(more)
      PROVE  more[i] = Append(rest, e)[i]
  <2>1. CASE i <= Len(s) - k
    BY <2>1, <1>1, <1>2, <1>3, <1>4
  <2>2. CASE i = Len(s) - k + 1
    BY <2>2, <1>1, <1>2, <1>3, <1>4, SMTT(30)
  <2>3. i \in 1 .. Len(s) + 1 - k
    BY <1>3
  <2>4. i <= Len(s) - k \/ i = Len(s) - k + 1
    BY <2>3
  <2>5. QED
    BY <2>1, <2>2, <2>4
<1>7. QED
  BY <1>3, <1>4, <1>5, <1>6, SeqEqual DEF t, rest, more

\* A push appends while there is room, and drops the oldest event when there is none.
LEMMA PushAppends ==
    ASSUME NEW buffer \in Seq(Nat), NEW e \in Nat, Len(buffer) < Capacity
    PROVE  /\ Push(buffer, e) \in Seq(Nat) /\ Len(Push(buffer, e)) = Len(buffer) + 1
           /\ Push(buffer, e)[Len(buffer) + 1] = e
           /\ \A i \in 1 .. Len(buffer) : Push(buffer, e)[i] = buffer[i]
BY AppendProperties DEF Push

LEMMA PushDropsOldest ==
    ASSUME NEW buffer \in Seq(Nat), NEW e \in Nat, Len(buffer) = Capacity
    PROVE  /\ Push(buffer, e) \in Seq(Nat) /\ Len(Push(buffer, e)) = Len(buffer)
           /\ Push(buffer, e)[Len(buffer)] = e
           /\ \A i \in 1 .. Len(buffer) - 1 : Push(buffer, e)[i] = buffer[i + 1]
<1> DEFINE rest == Tail(buffer)
<1>1. Push(buffer, e) = Append(rest, e)
  BY BusAssumption DEF Push
<1>2. Len(buffer) \in Nat \ {0} /\ buffer # <<>>
  BY BusAssumption
<1>3. /\ rest \in Seq(Nat) /\ Len(rest) = Len(buffer) - 1
      /\ \A i \in 1 .. Len(rest) : rest[i] = buffer[i + 1]
  BY <1>2, HeadTailProperties
<1> HIDE DEF rest
<1>4. /\ Append(rest, e) \in Seq(Nat) /\ Len(Append(rest, e)) = Len(rest) + 1
      /\ \A i \in 1 .. Len(rest) : Append(rest, e)[i] = rest[i]
      /\ Append(rest, e)[Len(rest) + 1] = e
  BY <1>3, AppendProperties
<1>5. QED
  BY <1>1, <1>2, <1>3, <1>4

LEMMA PushedRing ==
    ASSUME NEW buffer \in Seq(Nat), NEW s \in Seq(Nat), NEW e \in Nat, HoldsEnd(buffer, s)
    PROVE  HoldsEnd(Push(buffer, e), Append(s, e))
<1> DEFINE n == Len(buffer)
           pushed == Push(buffer, e)
           t == Append(s, e)
<1>1. /\ n \in Nat /\ Len(s) \in Nat /\ Capacity \in Nat \ {0}
      /\ n <= Len(s) /\ n <= Capacity /\ (n < Len(s) => n = Capacity)
      /\ \A i \in 1 .. n : buffer[i] = s[Len(s) - n + i]
  BY BusAssumption DEF HoldsEnd
<1>2. /\ Len(t) = Len(s) + 1 /\ t[Len(s) + 1] = e
      /\ \A i \in 1 .. Len(s) : t[i] = s[i]
  BY AppendProperties
<1>3. CASE n < Capacity
  <2>1. /\ Len(pushed) = n + 1 /\ pushed[n + 1] = e
        /\ \A i \in 1 .. n : pushed[i] = buffer[i]
    BY <1>3, PushAppends
  <2> HIDE DEF pushed, t, n
  <2>2. ASSUME NEW i \in 1 .. n + 1 PROVE pushed[i] = t[Len(s) - n + i]
    <3>1. CASE i = n + 1
      BY <1>1, <1>2, <2>1, <3>1
    <3>2. CASE i \in 1 .. n
      <4>1. Len(s) - n + i \in 1 .. Len(s)
        BY <1>1, <3>2
      <4>2. QED
        BY <1>1, <1>2, <2>1, <3>2, <4>1
    <3>3. QED
      BY <1>1, <3>1, <3>2
  <2>3. \A i \in 1 .. n + 1 : Len(t) - Len(pushed) + i = Len(s) - n + i
    BY <1>1, <1>2, <2>1
  <2>4. \A i \in 1 .. Len(pushed) : pushed[i] = t[Len(t) - Len(pushed) + i]
    BY <2>1, <2>2, <2>3
  <2>5. Len(pushed) = Len(t) /\ Len(pushed) <= Capacity
    BY <1>1, <1>2, <1>3, <2>1
  <2>6. HoldsEnd(pushed, t)
    BY <1>1, <2>4, <2>5 DEF HoldsEnd
  <2>7. QED
    BY <2>6 DEF pushed, t
<1>4. CASE n = Capacity
  <2>1. /\ Len(pushed) = n /\ pushed[n] = e
        /\ \A i \in 1 .. n - 1 : pushed[i] = buffer[i + 1]
    BY <1>4, PushDropsOldest
  <2> HIDE DEF pushed, t, n
  <2>2. ASSUME NEW i \in 1 .. n PROVE pushed[i] = t[Len(s) + 1 - n + i]
    <3>1. CASE i = n
      BY <1>1, <1>2, <2>1, <3>1
    <3>2. CASE i \in 1 .. n - 1
      <4>1. Len(s) + 1 - n + i \in 1 .. Len(s) /\ i + 1 \in 1 .. n
        BY <1>1, <3>2, SMTT(30)
      <4>2. pushed[i] = buffer[i + 1] /\ Len(s) - n + (i + 1) = Len(s) + 1 - n + i
        BY <1>1, <2>1, <3>2, SMTT(30)
      <4>3. QED
        BY <1>1, <1>2, <4>1, <4>2
    <3>3. QED
      BY <1>1, <3>1, <3>2
  <2>3. \A i \in 1 .. n : Len(t) - Len(pushed) + i = Len(s) + 1 - n + i
    BY <1>1, <1>2, <2>1
  <2>4. \A i \in 1 .. Len(pushed) : pushed[i] = t[Len(t) - Len(pushed) + i]
    BY <2>1, <2>2, <2>3
  <2>5. Len(pushed) <= Len(t) /\ Len(pushed) = Capacity
    BY <1>1, <1>2, <1>4, <2>1
  <2>6. HoldsEnd(pushed, t)
    BY <1>1, <2>4, <2>5 DEF HoldsEnd
  <2>7. QED
    BY <2>6 DEF pushed, t
<1>5. QED
  BY <1>1, <1>3, <1>4

\* What a receiver that does not lag is at is where the ring has its next event.
LEMMA PlaceInRing ==
    ASSUME NEW buffer \in Seq(Nat), NEW s \in Seq(Nat), HoldsEnd(buffer, s),
           NEW next \in Nat, next < Len(s), ~(next < Len(s) - Len(buffer))
    PROVE  buffer[next - (Len(s) - Len(buffer)) + 1] = s[next + 1]
<1> DEFINE i == next - (Len(s) - Len(buffer)) + 1
<1>1. Len(buffer) \in Nat /\ Len(s) \in Nat /\ Len(buffer) <= Len(s)
  BY DEF HoldsEnd
<1>2. i \in 1 .. Len(buffer) /\ Len(s) - Len(buffer) + i = next + 1
  BY <1>1
<1>3. buffer[i] = s[Len(s) - Len(buffer) + i]
  BY <1>2 DEF HoldsEnd
<1>4. QED
  BY <1>2, <1>3
-----------------------------------------------------------------------------
(* The invariant. *)

LEMMA InitInv == Init => BusInv
<1> SUFFICES ASSUME Init PROVE BusInv
  OBVIOUS
<1> USE BusAssumption DEF Init, Subscriber, NoChannel, NewChannel, Receiver, Is
<1>1. Types
  BY DEF Types
<1>2. Rings
  BY DEF Rings, HoldsEnd
<1>3. Places /\ Starts /\ CreatedOnce
  BY DEF Places, Starts, CreatedOnce
<1>4. QED
  BY <1>1, <1>2, <1>3 DEF BusInv

\* The steps that leave channels and receivers alone.
LEMMA RoomStepInv ==
    ASSUME BusInv, UNCHANGED <<channel, receiver, starting, sent>>,
           room' \in {"none", "open", "deleted", "removed"},
           room_channels' \in {room_channels, NoChannel},
           emitted' \in Nat, heard' = heard
    PROVE  BusInv'
<1> USE DEF BusInv, Is
<1>1. Types'
  BY DEF Types
<1>2. Rings'
  BY DEF Rings
<1>3. Places'
  BY DEF Places
<1>4. Starts'
  BY DEF Starts, Types, NoChannel, NewChannel, Subscriber
<1>5. CreatedOnce'
  BY DEF CreatedOnce
<1>6. QED
  BY <1>1, <1>2, <1>3, <1>4, <1>5

LEMMA SubscribeInv ==
    ASSUME BusInv, NEW u \in Subscriber, SubscribeToRoom(u)
    PROVE  BusInv'
<1> USE DEF BusInv
<1>1. /\ Is(u, "new") /\ u = starting
      /\ UNCHANGED <<room, room_channels, channel, emitted, heard, sent>>
  BY DEF SubscribeToRoom, MayStart
<1> DEFINE c == room_channels
<1>2. CASE c = NoChannel
  <2>1. /\ receiver' = [receiver EXCEPT ![u] = Receiver("create", NoChannel, 0)]
        /\ starting' = starting
    BY <1>2 DEF SubscribeToRoom
  <2>2. Types'
    BY <1>1, <2>1 DEF Types, Receiver
  <2>3. /\ \A v \in Subscriber \ {u} : receiver'[v] = receiver[v]
        /\ receiver'[u].step = "create"
    BY <2>1 DEF Types, Receiver
  <2>4. Rings'
    BY <1>1 DEF Rings
  <2>5. Places'
    BY <1>1, <2>1, <2>3 DEF Places, Is
  <2>6. Starts' /\ CreatedOnce'
    BY <1>1, <1>2, <2>1, <2>3 DEF Starts, CreatedOnce, Is, NewChannel
  <2>7. QED
    BY <2>2, <2>4, <2>5, <2>6
<1>3. CASE c # NoChannel
  <2>1. /\ receiver' = [receiver EXCEPT ![u] = Receiver("listening", c, channel[c].tail)]
        /\ starting' = starting + 1
    BY <1>3 DEF SubscribeToRoom
  <2>2. c \in Subscriber /\ c < starting /\ channel[c].tail \in Nat /\ starting \in Nat
    BY <1>3 DEF Types, Starts
  <2>3. Types'
    BY <1>1, <2>1, <2>2 DEF Types, Receiver
  <2>4. /\ \A v \in Subscriber \ {u} : receiver'[v] = receiver[v]
        /\ receiver'[u] = Receiver("listening", c, channel[c].tail)
    BY <2>1 DEF Types
  <2>5. Rings'
    BY <1>1 DEF Rings
  <2>6. Places'
    BY <1>1, <2>1, <2>2, <2>4 DEF Places, Is, Receiver, Types, Subscriber
  <2>7. Starts'
    BY <1>1, <2>1, <2>2, <2>4 DEF Starts, Is, Receiver, Subscriber, NewChannel
  <2>8. CreatedOnce'
    BY <1>1, <2>4 DEF CreatedOnce, Is, Receiver
  <2>9. QED
    BY <2>3, <2>5, <2>6, <2>7, <2>8
<1>4. QED
  BY <1>2, <1>3

LEMMA CreateChannelInv ==
    ASSUME BusInv, NEW u \in Subscriber, CreateChannel(u)
    PROVE  BusInv'
<1> USE DEF BusInv
<1>1. /\ Is(u, "create") /\ room_channels' = u
      /\ receiver' = [receiver EXCEPT ![u] = Receiver("listening", u, 0)]
      /\ starting' = starting + 1
      /\ UNCHANGED <<room, channel, emitted, heard, sent>>
  BY DEF CreateChannel
<1>2. starting \in Nat /\ u = starting
  BY <1>1 DEF Starts, Types, Is, Subscriber
<1>3. Types'
  BY <1>1, <1>2 DEF Types, Receiver
<1>4. /\ \A v \in Subscriber \ {u} : receiver'[v] = receiver[v]
      /\ receiver'[u] = Receiver("listening", u, 0)
  BY <1>1 DEF Types
<1>5. Rings'
  BY <1>1 DEF Rings
<1>6. Places'
  BY <1>1, <1>2, <1>4 DEF Places, Is, Receiver, Types, Subscriber
<1>7. Starts'
  BY <1>1, <1>2, <1>4 DEF Starts, Is, Receiver, Subscriber, NewChannel
<1>8. CreatedOnce'
  <2>1. ASSUME NEW v \in Subscriber, Is(v, "create")' PROVE FALSE
    <3>1. v # u /\ Is(v, "create")
      BY <2>1, <1>4 DEF Is, Receiver
    <3>2. QED
      BY <3>1, <1>2 DEF Starts, Is, Subscriber
  <2>2. QED
    BY <2>1 DEF CreatedOnce
<1>9. QED
  BY <1>3, <1>5, <1>6, <1>7, <1>8

LEMMA ReceiverStepInv ==
    ASSUME BusInv, NEW u \in Subscriber, Is(u, "listening"),
           NEW step \in {"listening", "lagged", "closed"}, NEW next \in Nat,
           receiver' = [receiver EXCEPT ![u].step = step, ![u].next = next],
           step = "listening" => next <= Of(u).tail,
           heard' \in [Subscriber -> Seq(Nat)],
           UNCHANGED <<room, room_channels, channel, starting, emitted, sent>>
    PROVE  BusInv'
<1> USE DEF BusInv
<1>1. Types'
  BY ZenonT(30) DEF Types
<1>2. /\ \A v \in Subscriber \ {u} : receiver'[v] = receiver[v]
      /\ receiver'[u].step = step /\ receiver'[u].next = next
      /\ receiver'[u].channel = receiver[u].channel
  BY DEF Types
<1>3. Rings'
  BY DEF Rings
<1>4. Places'
  BY <1>2 DEF Places, Is, Of
<1>5. Starts'
  BY <1>2 DEF Starts, Is, NewChannel
<1>6. CreatedOnce'
  BY <1>2 DEF CreatedOnce, Is
<1>7. QED
  BY <1>1, <1>3, <1>4, <1>5, <1>6

\* The event at a receiver's place is the next one of its channel.
LEMMA NextEvent ==
    ASSUME BusInv, NEW u \in Subscriber, Is(u, "listening"), ~Lagged(u),
           receiver[u].next < Of(u).tail
    PROVE  LET s == sent[receiver[u].channel] IN
           /\ s \in Seq(Nat) /\ receiver[u].next \in Nat /\ receiver[u].next < Len(s)
           /\ Of(u).buffer[receiver[u].next - Oldest(u) + 1] = s[receiver[u].next + 1]
<1> DEFINE c == receiver[u].channel
           next == receiver[u].next
           buffer == channel[c].buffer
<1>1. c \in Subscriber /\ next \in Nat /\ Of(u) = channel[c]
  BY DEF BusInv, Types, Places, Of
<1>2. sent[c] \in Seq(Nat) /\ buffer \in Seq(Nat)
  BY <1>1 DEF BusInv, Types
<1>3. channel[c].tail = Len(sent[c]) /\ HoldsEnd(buffer, sent[c])
  BY <1>1 DEF BusInv, Rings
<1>4. Oldest(u) = Len(sent[c]) - Len(buffer)
  BY <1>1, <1>3 DEF Oldest
<1>5. ~(next < Len(sent[c]) - Len(buffer)) /\ next < Len(sent[c])
  BY <1>1, <1>3, <1>4 DEF Lagged
<1>6. buffer[next - (Len(sent[c]) - Len(buffer)) + 1] = sent[c][next + 1]
  BY <1>1, <1>2, <1>3, <1>5, PlaceInRing
<1>7. QED
  BY <1>1, <1>2, <1>4, <1>5, <1>6

LEMMA EmitInv ==
    ASSUME BusInv, EmitToRoom
    PROVE  BusInv'
<1> USE DEF BusInv
<1> DEFINE c == room_channels
           e == emitted + 1
<1>1. e \in Nat /\ emitted' = e
      /\ UNCHANGED <<room, room_channels, receiver, starting, heard>>
  BY DEF EmitToRoom, Types
<1>2. CASE ~(c # NoChannel /\ Receivers(c) # {})
  <2>1. UNCHANGED <<channel, sent>>
    BY <1>2 DEF EmitToRoom
  <2>2. QED
    BY <1>1, <2>1, RoomStepInv DEF Types
<1>3. CASE c # NoChannel /\ Receivers(c) # {}
  <2> DEFINE buffer == channel[c].buffer
             pushed == Push(buffer, e)
  <2>1. c \in Subscriber /\ c < starting /\ starting \in Nat
    BY <1>3 DEF Types, Starts
  <2>2. /\ channel' = [channel EXCEPT ![c] = [buffer |-> pushed, tail |-> @.tail + 1]]
        /\ sent' = [sent EXCEPT ![c] = Append(@, e)]
    BY <1>1, <1>3 DEF EmitToRoom
  <2>3. /\ buffer \in Seq(Nat) /\ sent[c] \in Seq(Nat) /\ Len(buffer) <= Capacity
        /\ channel[c].tail = Len(sent[c]) /\ channel[c].tail \in Nat
    BY <2>1 DEF Types, Rings, HoldsEnd
  <2>4. pushed \in Seq(Nat) /\ Append(sent[c], e) \in Seq(Nat)
    BY <1>1, <2>3, PushAppends, PushDropsOldest, AppendProperties, BusAssumption
  <2>5. Types'
    <3> HIDE DEF pushed, e, c
    <3>1. QED
      BY <1>1, <2>1, <2>2, <2>3, <2>4, SMTT(30) DEF Types
  <2>6. /\ \A d \in Subscriber \ {c} : channel'[d] = channel[d] /\ sent'[d] = sent[d]
        /\ channel'[c].buffer = pushed /\ channel'[c].tail = channel[c].tail + 1
        /\ sent'[c] = Append(sent[c], e)
    <3> HIDE DEF pushed, e, c
    <3>1. QED
      BY <2>1, <2>2 DEF Types
  <2>7. Rings'
    <3>1. HoldsEnd(pushed, Append(sent[c], e))
      BY <1>1, <2>1, <2>3, PushedRing DEF Rings
    <3>2. Len(Append(sent[c], e)) = Len(sent[c]) + 1
      BY <1>1, <2>3, AppendProperties
    <3> HIDE DEF e, c, pushed
    <3>3. QED
      BY <2>3, <2>6, <3>1, <3>2 DEF Rings
  <2>8. Places'
    <3> HIDE DEF e, c, pushed
    <3>1. ASSUME NEW v \in Subscriber, Is(v, "listening")
          PROVE  LET d == receiver[v].channel IN
                 d \in Subscriber /\ d < starting /\ receiver[v].next <= channel'[d].tail
      <4> DEFINE d == receiver[v].channel
      <4>1. /\ d \in Subscriber /\ d < starting /\ receiver[v].next <= channel[d].tail
            /\ receiver[v].next \in Nat
        BY <3>1 DEF Places, Types
      <4>2. CASE d = c
        BY <4>1, <4>2, <2>3, <2>6
      <4>3. CASE d # c
        BY <4>1, <4>3, <2>6
      <4>4. QED
        BY <4>1, <4>2, <4>3
    <3>2. QED
      BY <1>1, <3>1 DEF Places, Is
  <2>9. Starts'
    <3> HIDE DEF e, c, pushed
    <3>1. QED
      BY <1>1, <2>1, <2>6 DEF Starts, Is, NewChannel, Subscriber
  <2>10. CreatedOnce'
    BY <1>1 DEF CreatedOnce, Is
  <2>11. QED
    BY <2>5, <2>7, <2>8, <2>9, <2>10
<1>4. QED
  BY <1>2, <1>3

LEMMA NextInv == BusInv /\ [Next]_vars => BusInv'
<1> SUFFICES ASSUME BusInv, [Next]_vars PROVE BusInv'
  OBVIOUS
<1> USE DEF NoChannel
<1>1. CASE CreateRoom
  BY <1>1, RoomStepInv DEF CreateRoom, BusInv, Types
<1>2. CASE EmitToRoom
  BY <1>2, EmitInv
<1>3. CASE DeleteRoom
  BY <1>3, RoomStepInv DEF DeleteRoom, BusInv, Types
<1>4. CASE RemoveRoom
  BY <1>4, RoomStepInv DEF RemoveRoom, BusInv, Types
<1>5. ASSUME NEW u \in Subscriber, SubscribeToRoom(u) \/ CreateChannel(u)
      PROVE  BusInv'
  BY <1>5, SubscribeInv, CreateChannelInv
<1>6. ASSUME NEW u \in Subscriber, Receive(u)
      PROVE  BusInv'
  <2> DEFINE next == receiver[u].next
             c == receiver[u].channel
  <2>1. /\ Is(u, "listening") /\ ~Lagged(u) /\ next < Of(u).tail
        /\ receiver' = [receiver EXCEPT ![u].next = @ + 1]
        /\ UNCHANGED <<room, room_channels, channel, starting, emitted, sent>>
    BY <1>6 DEF Receive
  <2>2. next \in Nat /\ Of(u).tail \in Nat
    BY <2>1 DEF BusInv, Types, Places, Of
  <2>3. receiver' = [receiver EXCEPT ![u].step = "listening", ![u].next = next + 1]
    BY <2>1 DEF BusInv, Types, Is
  <2>4. sent[c][next + 1] \in Nat
    BY <2>1, NextEvent
  <2>5. heard' \in [Subscriber -> Seq(Nat)]
    <3>1. heard' = [heard EXCEPT ![u] = Append(@, sent[c][next + 1])]
      BY <1>6, <2>1, NextEvent DEF Receive
    <3>2. heard[u] \in Seq(Nat)
      BY DEF BusInv, Types
    <3>3. Append(heard[u], sent[c][next + 1]) \in Seq(Nat)
      BY <2>4, <3>2, AppendProperties
    <3>4. QED
      BY <3>1, <3>3 DEF BusInv, Types
  <2> DEFINE after == next + 1
  <2>6. after \in Nat /\ after <= Of(u).tail
    BY <2>1, <2>2
  <2> HIDE DEF after
  <2>7. receiver' = [receiver EXCEPT ![u].step = "listening", ![u].next = after]
    BY <2>3 DEF after
  <2>8. QED
    BY <2>1, <2>5, <2>6, <2>7, ReceiverStepInv
<1>7. ASSUME NEW u \in Subscriber, EndSubscription(u)
      PROVE  BusInv'
  <2> DEFINE next == receiver[u].next
             step == IF Lagged(u) THEN "lagged" ELSE "closed"
  <2>1. /\ Is(u, "listening") /\ receiver' = [receiver EXCEPT ![u].step = step]
        /\ UNCHANGED <<room, room_channels, channel, starting, emitted, heard, sent>>
    BY <1>7 DEF EndSubscription
  <2>2. next \in Nat
    BY DEF BusInv, Types
  <2>3. receiver' = [receiver EXCEPT ![u].step = step, ![u].next = next]
    BY <2>1 DEF BusInv, Types
  <2>4. heard' \in [Subscriber -> Seq(Nat)]
    BY <2>1 DEF BusInv, Types
  <2>5. step \in {"listening", "lagged", "closed"} /\ step # "listening"
    OBVIOUS
  <2> HIDE DEF step
  <2>6. QED
    BY <2>1, <2>2, <2>3, <2>4, <2>5, ReceiverStepInv
<1>8. CASE UNCHANGED vars
  BY <1>8, RoomStepInv DEF vars, BusInv, Types
<1>9. QED
  BY <1>1, <1>2, <1>3, <1>4, <1>5, <1>6, <1>7, <1>8 DEF Next, SubscriptionStep

\* What is true of channels and receivers in every reachable state: the map never
\* loses a channel to a second subscription, each channel holds the last Capacity of
\* its events, and no receiver is ahead of its channel.
THEOREM BusInvariant == Spec => []BusInv
<1>1. Init => BusInv
  BY InitInv
<1>2. BusInv /\ [Next]_vars => BusInv'
  BY NextInv
<1>3. QED
  BY <1>1, <1>2, PTL DEF Spec
-----------------------------------------------------------------------------
(* EventBus implements Delivery. *)

Running == {u \in Subscriber : Is(u, "listening")}
Cut == {u \in Subscriber :
           \/ Is(u, "lagged") \/ Is(u, "closed")
           \/ Is(u, "listening") /\ receiver[u].channel # room_channels}
Queue == [u \in Subscriber |-> Waiting(u)]

\* Who neither subscribes nor receives, and whose channel gets no event, waits for
\* what it waited for.
LEMMA WaitingKept ==
    ASSUME NEW u \in Subscriber, UNCHANGED <<receiver[u], sent[receiver[u].channel]>>
    PROVE  Waiting(u)' = Waiting(u)
BY DEF Waiting, Is

LEMMA InitImplements == Init => Queues!Init
<1> SUFFICES ASSUME Init PROVE Queues!Init
  OBVIOUS
<1>1. \A u \in Subscriber : receiver[u].step = "new"
  BY DEF Init, Receiver
<1>2. QED
  BY <1>1 DEF Init, Queues!Init, Is, Waiting

\* A step that leaves the mapped variables alone is none of Delivery's.
LEMMA Stutters ==
    ASSUME Running' = Running, Cut' = Cut, UNCHANGED <<heard, emitted>>,
           \A u \in Subscriber : Waiting(u)' = Waiting(u)
    PROVE  UNCHANGED Queues!vars
BY DEF Queues!vars, Running, Cut

LEMMA JoinImplements ==
    ASSUME BusInv, NEW u \in Subscriber, NEW c \in Subscriber, NEW next \in Nat,
           Is(u, "new") \/ Is(u, "create"),
           receiver' = [receiver EXCEPT ![u] = Receiver("listening", c, next)],
           room_channels' = c, room_channels \in {c, NoChannel},
           next = Len(sent[c]), UNCHANGED <<emitted, heard, sent>>,
           room_channels = NoChannel =>
               \A v \in Subscriber : Is(v, "listening") => receiver[v].channel # c
    PROVE  Queues!Join(u)
<1>1. /\ receiver'[u] = Receiver("listening", c, next)
      /\ \A v \in Subscriber \ {u} : receiver'[v] = receiver[v]
  BY DEF BusInv, Types
<1>2. \A v \in Subscriber : Is(v, "listening") => receiver[v].channel \in Subscriber
  BY DEF BusInv, Places
<1>3. Running' = Running \cup {u} /\ u \notin Running \cup Cut
  BY <1>1 DEF Running, Cut, Is, Receiver
<1>4. Cut' = Cut
  BY <1>1, <1>2 DEF Cut, Is, Receiver, NoChannel, Subscriber
<1>5. ASSUME NEW v \in Subscriber PROVE Waiting(v)' = Waiting(v)
  <2>1. CASE v = u
    <3>1. /\ receiver'[u].step = "listening" /\ receiver'[u].channel = c
          /\ receiver'[u].next = next /\ sent' = sent
      BY <1>1 DEF Receiver
    <3>2. Waiting(u)' = SubSeq(sent[c], next + 1, Len(sent[c]))
      BY <3>1 DEF Waiting, Is
    <3>3. next + 1 \in Int /\ Len(sent[c]) \in Int /\ Len(sent[c]) < next + 1
      OBVIOUS
    <3>4. Waiting(u)' = <<>>
      BY <3>2, <3>3, SubSeqEmpty
    <3>5. Waiting(u) = <<>>
      BY DEF Waiting, Is
    <3>6. QED
      BY <2>1, <3>4, <3>5
  <2>2. CASE v # u
    BY <1>1, <2>2, WaitingKept
  <2>3. QED
    BY <2>1, <2>2
<1>6. QED
  BY <1>3, <1>4, <1>5 DEF Queues!Join, Running, Cut

LEMMA EmitImplements ==
    ASSUME BusInv, EmitToRoom
    PROVE  Queues!Emit
<1> DEFINE c == room_channels
           e == emitted + 1
<1>1. e \in Nat /\ emitted' = e /\ UNCHANGED <<room_channels, receiver, heard>>
  BY DEF EmitToRoom, BusInv, Types
<1>2. Running' = Running /\ Cut' = Cut
  BY <1>1 DEF Running, Cut, Is
<1>3. \A u \in Running \ Cut : receiver[u].channel = c /\ c \in Subscriber
  BY DEF Running, Cut, BusInv, Places
<1>4. ASSUME NEW u \in Subscriber
      PROVE  Waiting(u)' = IF u \in Running \ Cut THEN Append(Waiting(u), e) ELSE Waiting(u)
  <2>1. CASE u \in Running \ Cut
    <3>1. u \in Receivers(c) /\ c # NoChannel /\ c \in Subscriber
      BY <2>1, <1>3 DEF Receivers, Running, NoChannel, Subscriber
    <3>2. sent' = [sent EXCEPT ![c] = Append(@, e)]
      BY <1>1, <3>1 DEF EmitToRoom
    <3>3. /\ receiver[u].next \in Nat /\ receiver[u].next <= Len(sent[c])
          /\ sent[c] \in Seq(Nat)
      BY <2>1, <1>3, <3>1 DEF Running, BusInv, Types, Places, Rings
    <3>4. sent'[c] = Append(sent[c], e)
      BY <3>1, <3>2 DEF BusInv, Types
    <3>5. /\ Waiting(u) = SubSeq(sent[c], receiver[u].next + 1, Len(sent[c]))
          /\ Waiting(u)' = SubSeq(sent'[c], receiver[u].next + 1, Len(sent'[c]))
      BY <1>1, <1>3, <2>1 DEF Waiting, Running, Is
    <3> HIDE DEF e, c
    <3>6. QED
      BY <1>1, <2>1, <3>3, <3>4, <3>5, RestGrows, ZenonT(30)
  <2>2. CASE u \notin Running
    BY <1>1, <2>2 DEF Waiting, Running, Is
  <2>3. CASE u \in Running \cap Cut
    <3>1. receiver[u].channel # c /\ receiver[u].channel \in Subscriber
      BY <2>3 DEF Running, Cut, Is, BusInv, Places
    <3>2. sent'[receiver[u].channel] = sent[receiver[u].channel]
      BY <3>1 DEF EmitToRoom, BusInv, Types
    <3>3. QED
      BY <1>1, <2>3, <3>2, WaitingKept
  <2>4. QED
    BY <2>1, <2>2, <2>3
<1>5. QED
  BY <1>1, <1>2, <1>4 DEF Queues!Emit, Running, Cut

LEMMA ReceiveImplements ==
    ASSUME BusInv, NEW u \in Subscriber, Receive(u)
    PROVE  Queues!Handle(u)
<1> DEFINE c == receiver[u].channel
           next == receiver[u].next
<1>1. /\ Is(u, "listening") /\ ~Lagged(u) /\ next < Of(u).tail
      /\ receiver' = [receiver EXCEPT ![u].next = @ + 1]
      /\ UNCHANGED <<room_channels, emitted, sent>>
  BY DEF Receive
<1>2. /\ receiver'[u].step = "listening" /\ receiver'[u].channel = c
      /\ receiver'[u].next = next + 1
      /\ \A v \in Subscriber \ {u} : receiver'[v] = receiver[v]
  BY <1>1 DEF BusInv, Types, Is
<1>3. Running' = Running /\ Cut' = Cut /\ u \in Running
  BY <1>1, <1>2 DEF Running, Cut, Is
<1>4. /\ sent[c] \in Seq(Nat) /\ next \in Nat /\ next < Len(sent[c])
      /\ heard' = [heard EXCEPT ![u] = Append(@, sent[c][next + 1])]
  BY <1>1, NextEvent DEF Receive
<1>5. /\ Waiting(u) = SubSeq(sent[c], next + 1, Len(sent[c]))
      /\ Waiting(u)' = SubSeq(sent[c], next + 2, Len(sent[c]))
  <2>1. (next + 1) + 1 = next + 2
    BY <1>4
  <2>2. QED
    BY <1>1, <1>2, <2>1 DEF Waiting, Is
<1>6. Waiting(u) # <<>> /\ Head(Waiting(u)) = sent[c][next + 1] /\ Waiting(u)' = Tail(Waiting(u))
  <2> HIDE DEF c, next
  <2>1. QED
    BY <1>4, <1>5, RestOfSequence
<1>7. ASSUME NEW v \in Subscriber \ {u} PROVE Waiting(v)' = Waiting(v)
  BY <1>1, <1>2, WaitingKept
<1>8. QED
  BY <1>1, <1>3, <1>4, <1>6, <1>7 DEF Queues!Handle, Running, Cut

LEMMA EndImplements ==
    ASSUME BusInv, NEW u \in Subscriber, EndSubscription(u)
    PROVE  Queues!End(u)
<1> DEFINE c == receiver[u].channel
           next == receiver[u].next
           step == IF Lagged(u) THEN "lagged" ELSE "closed"
<1>1. /\ Is(u, "listening") /\ (Lagged(u) \/ Closed(u))
      /\ receiver' = [receiver EXCEPT ![u].step = step]
      /\ UNCHANGED <<room_channels, emitted, heard, sent>>
  BY DEF EndSubscription
<1>2. /\ receiver'[u].step = step
      /\ \A v \in Subscriber \ {u} : receiver'[v] = receiver[v]
  BY <1>1 DEF BusInv, Types
<1>3. Running' = Running \ {u} /\ Cut' = Cut \cup {u} /\ u \in Running
  BY <1>1, <1>2 DEF Running, Cut, Is
<1>4. /\ c \in Subscriber /\ next \in Nat /\ sent[c] \in Seq(Nat) /\ Of(u) = channel[c]
      /\ channel[c].tail = Len(sent[c]) /\ HoldsEnd(channel[c].buffer, sent[c])
      /\ channel[c].buffer \in Seq(Nat) /\ next <= Len(sent[c])
  BY <1>1 DEF BusInv, Types, Places, Rings, Of
<1>5. Waiting(u) = SubSeq(sent[c], next + 1, Len(sent[c])) /\ Len(Waiting(u)) = Len(sent[c]) - next
  <2>1. \A i \in next + 1 .. Len(sent[c]) : sent[c][i] \in Nat
    BY <1>4
  <2>2. Waiting(u) = SubSeq(sent[c], next + 1, Len(sent[c]))
    BY <1>1 DEF Waiting
  <2> HIDE DEF c, next
  <2>3. next + 1 \in Int /\ Len(sent[c]) \in Int
    BY <1>4
  <2>4. Len(Waiting(u)) = IF next + 1 <= Len(sent[c]) THEN Len(sent[c]) - (next + 1) + 1 ELSE 0
    BY <2>1, <2>2, <2>3, SubSeqProperties
  <2>5. QED
    BY <1>4, <2>2, <2>3, <2>4
<1>6. ASSUME Lagged(u) PROVE Len(Waiting(u)) > Capacity
  <2>1. next < Len(sent[c]) - Len(channel[c].buffer)
    BY <1>4, <1>6 DEF Lagged, Oldest
  <2> HIDE DEF c, next
  <2>2. Len(channel[c].buffer) \in Nat /\ Len(sent[c]) \in Nat
    BY <1>4
  <2>3. Len(channel[c].buffer) < Len(sent[c]) => Len(channel[c].buffer) = Capacity
    BY <1>4 DEF HoldsEnd
  <2>4. next \in Nat /\ Len(Waiting(u)) = Len(sent[c]) - next
    BY <1>4, <1>5
  <2>5. Len(channel[c].buffer) = Capacity
    <3> DEFINE n == Len(channel[c].buffer)
               m == Len(sent[c])
    <3>1. n \in Nat /\ m \in Nat /\ next \in Nat /\ next < m - n
      BY <2>1, <2>2, <2>4
    <3> HIDE DEF n, m
    <3>2. n < m
      BY <3>1
    <3>3. QED
      BY <2>3, <3>2 DEF n, m
  <2>6. QED
    BY <2>1, <2>2, <2>4, <2>5, BusAssumption
<1>7. ASSUME Closed(u) PROVE u \in Cut /\ Waiting(u) = <<>>
  <2>1. u \in Cut /\ next = Len(sent[c])
    BY <1>1, <1>4, <1>7 DEF Closed, Cut, Is
  <2> HIDE DEF c, next
  <2>2. next + 1 \in Int /\ Len(sent[c]) \in Int /\ Len(sent[c]) < next + 1
    BY <1>4, <2>1
  <2>3. Waiting(u) = <<>>
    BY <1>5, <2>2, SubSeqEmpty
  <2>4. QED
    BY <2>1, <2>3
<1>8. Waiting(u)' = <<>>
  BY <1>2 DEF Waiting, Is
<1>9. ASSUME NEW v \in Subscriber \ {u} PROVE Waiting(v)' = Waiting(v)
  BY <1>1, <1>2, WaitingKept
<1>10. QED
  BY <1>1, <1>3, <1>6, <1>7, <1>8, <1>9 DEF Queues!End, Running, Cut

LEMMA RemoveImplements ==
    ASSUME BusInv, RemoveRoom
    PROVE  Queues!Remove
<1>1. room_channels' = NoChannel /\ UNCHANGED <<receiver, emitted, heard, sent>>
  BY DEF RemoveRoom
<1>2. \A u \in Subscriber : Is(u, "listening") => receiver[u].channel # NoChannel
  BY DEF BusInv, Places, Subscriber, NoChannel
<1>3. Running' = Running /\ Cut' = Cut \cup Running
  BY <1>1, <1>2 DEF Running, Cut, Is
<1>4. \A u \in Subscriber : Waiting(u)' = Waiting(u)
  BY <1>1, WaitingKept
<1>5. QED
  BY <1>1, <1>3, <1>4 DEF Queues!Remove, Running, Cut

LEMMA NextImplements == BusInv /\ [Next]_vars => [Queues!Next]_(Queues!vars)
<1> SUFFICES ASSUME BusInv, [Next]_vars PROVE [Queues!Next]_(Queues!vars)
  OBVIOUS
<1>1. ASSUME UNCHANGED <<room_channels, receiver, emitted, heard, sent>>
      PROVE  UNCHANGED Queues!vars
  <2>1. Running' = Running /\ Cut' = Cut
    BY <1>1 DEF Running, Cut, Is
  <2>2. \A u \in Subscriber : Waiting(u)' = Waiting(u)
    BY <1>1, WaitingKept
  <2>3. QED
    BY <1>1, <2>1, <2>2, Stutters
<1>2. CASE CreateRoom \/ DeleteRoom \/ UNCHANGED vars
  BY <1>1, <1>2 DEF CreateRoom, DeleteRoom, vars
<1>3. CASE EmitToRoom
  BY <1>3, EmitImplements DEF Queues!Next
<1>4. CASE RemoveRoom
  BY <1>4, RemoveImplements DEF Queues!Next
<1>5. ASSUME NEW u \in Subscriber, SubscribeToRoom(u)
      PROVE  [Queues!Next]_(Queues!vars)
  <2>1. /\ Is(u, "new") /\ u = starting
        /\ UNCHANGED <<room_channels, channel, emitted, heard, sent>>
    BY <1>5 DEF SubscribeToRoom, MayStart
  <2>2. CASE room_channels = NoChannel
    <3>1. receiver' = [receiver EXCEPT ![u] = Receiver("create", NoChannel, 0)]
      BY <1>5, <2>2 DEF SubscribeToRoom
    <3>2. /\ receiver'[u].step = "create"
          /\ \A v \in Subscriber \ {u} : receiver'[v] = receiver[v]
      BY <3>1 DEF BusInv, Types, Receiver
    <3>3. Running' = Running /\ Cut' = Cut
      BY <2>1, <3>2 DEF Running, Cut, Is
    <3>4. ASSUME NEW v \in Subscriber PROVE Waiting(v)' = Waiting(v)
      <4>1. CASE v = u
        BY <2>1, <3>2, <4>1 DEF Waiting, Is
      <4>2. CASE v # u
        BY <2>1, <3>2, <4>2, WaitingKept
      <4>3. QED
        BY <4>1, <4>2
    <3>5. QED
      BY <2>1, <3>3, <3>4, Stutters
  <2>3. CASE room_channels # NoChannel
    <3> DEFINE c == room_channels
               next == channel[c].tail
    <3>1. c \in Subscriber /\ next \in Nat /\ next = Len(sent[c])
      BY <2>3 DEF BusInv, Types, Rings
    <3>2. receiver' = [receiver EXCEPT ![u] = Receiver("listening", c, next)]
      BY <1>5, <2>3 DEF SubscribeToRoom
    <3>3. Queues!Join(u)
      <4> HIDE DEF next
      <4>1. QED
        BY <2>1, <2>3, <3>1, <3>2, JoinImplements
    <3>4. QED
      BY <3>3 DEF Queues!Next
  <2>4. QED
    BY <2>2, <2>3
<1>6. ASSUME NEW u \in Subscriber, CreateChannel(u)
      PROVE  [Queues!Next]_(Queues!vars)
  <2>1. /\ Is(u, "create") /\ room_channels' = u
        /\ receiver' = [receiver EXCEPT ![u] = Receiver("listening", u, 0)]
        /\ UNCHANGED <<emitted, heard, sent>>
    BY <1>6 DEF CreateChannel
  <2>2. room_channels = NoChannel
    BY <2>1 DEF BusInv, CreatedOnce
  <2>3. u >= starting
    BY <2>1 DEF BusInv, Starts, Types, Subscriber
  <2>4. 0 = Len(sent[u])
    BY <2>3 DEF BusInv, Starts
  <2>5. \A v \in Subscriber : Is(v, "listening") => receiver[v].channel # u
    BY <2>3 DEF BusInv, Places, Types, Subscriber
  <2>6. Queues!Join(u)
    <3> DEFINE next == 0
    <3>1. next \in Nat /\ next = Len(sent[u])
      BY <2>4
    <3>2. receiver' = [receiver EXCEPT ![u] = Receiver("listening", u, next)]
      BY <2>1
    <3> HIDE DEF next
    <3>3. QED
      BY <2>1, <2>2, <2>5, <3>1, <3>2, JoinImplements
  <2>7. QED
    BY <2>6 DEF Queues!Next
<1>7. ASSUME NEW u \in Subscriber, SubscriptionStep(u)
      PROVE  [Queues!Next]_(Queues!vars)
  BY <1>7, ReceiveImplements, EndImplements DEF SubscriptionStep, Queues!Next
<1>8. QED
  BY <1>2, <1>3, <1>4, <1>5, <1>6, <1>7 DEF Next

\* A room's channel keeps what Delivery promises, whatever the capacity and however
\* many subscribe: each subscriber gets every event emitted while it listens, once
\* and in order, and ends only when it lags by more than the capacity or has heard
\* everything sent before the channel was removed.
THEOREM ChannelDeliversInOrder == Spec => DeliversInOrder
<1>1. Init => Queues!Init
  BY InitImplements
<1>2. BusInv /\ [Next]_vars => [Queues!Next]_(Queues!vars)
  BY NextImplements
<1>3. QED
  BY <1>1, <1>2, BusInvariant, PTL DEF Spec, DeliversInOrder, Queues!Spec
=============================================================================
