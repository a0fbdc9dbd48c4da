---------------------------------- MODULE EventBus ----------------------------------
(***************************************************************************)
(* The event bus and one room's subscriptions: EventBus::emit_to_room,       *)
(* subscribe_to_room and remove_room, RoomSubscription's task, and the order *)
(* in which create_room starts five of them once the room can be seen.       *)
(*                                                                         *)
(* A channel is a ring: of the events sent it holds the last Capacity, and   *)
(* each receiver has its own place.  No lock spans two calls of the bus, and *)
(* subscribe_to_room itself takes its lock twice.                            *)
(***************************************************************************)
EXTENDS Naturals, Sequences

CONSTANTS Subscribers,    \* how many create_room starts, one after the other
          Capacity,       \* what a channel holds
          MaxEvents       \* bound

ASSUME BusAssumption == Subscribers \in Nat /\ Capacity \in Nat \ {0} /\ MaxEvents \in Nat

Subscriber == 1 .. Subscribers
NoChannel == 0

VARIABLES room,           \* its place between creation and teardown
          room_channels,  \* the room's channel in the map: who created it
          channel,        \* creator -> the events it holds, and how many were sent
          receiver,       \* subscriber -> its task, its channel and its place in it
          starting,       \* the subscription create_room is at
          emitted,
          heard,          \* history variable: events the handlers were called with
          sent            \* history variable: all events of a channel

vars == <<room, room_channels, channel, receiver, starting, emitted, heard, sent>>

Receiver(step, c, next) == [step |-> step, channel |-> c, next |-> next]
NewChannel == [buffer |-> <<>>, tail |-> 0]
Is(u, step) == receiver[u].step = step
Of(u) == channel[receiver[u].channel]

Init ==
    /\ room = "none" /\ room_channels = NoChannel
    /\ channel = [c \in Subscriber |-> NewChannel]
    /\ receiver = [u \in Subscriber |-> Receiver("new", NoChannel, 0)]
    /\ starting = 1 /\ emitted = 0
    /\ heard = [u \in Subscriber |-> <<>>]
    /\ sent = [c \in Subscriber |-> <<>>]
-----------------------------------------------------------------------------
(* create_room: the room can be seen from the first step on. *)

CreateRoom ==
    /\ room = "none"
    /\ room' = "open"
    /\ UNCHANGED <<room_channels, channel, receiver, starting, emitted, heard, sent>>

\* Wrong variant: the subscriptions are started without waiting for each other.
MayStartTogether(u) == TRUE

\* start().await returns when its subscription has a receiver.
MayStart(u) == u = starting

\* subscribe_to_room under the read lock: a receiver of the channel that is there, ...
SubscribeToRoom(u) ==
    /\ room # "none" /\ Is(u, "new") /\ MayStart(u)
    /\ IF room_channels = NoChannel
       THEN /\ receiver' = [receiver EXCEPT ![u] = Receiver("create", NoChannel, 0)]
            /\ UNCHANGED starting
       ELSE /\ receiver' = [receiver EXCEPT
                    ![u] = Receiver("listening", room_channels, channel[room_channels].tail)]
            /\ starting' = starting + 1
    /\ UNCHANGED <<room, room_channels, channel, emitted, heard, sent>>

\* ... or, with the lock released and taken again, a new one without another look.
CreateChannel(u) ==
    /\ Is(u, "create")
    /\ room_channels' = u
    /\ receiver' = [receiver EXCEPT ![u] = Receiver("listening", u, 0)]
    /\ starting' = starting + 1
    /\ UNCHANGED <<room, channel, emitted, heard, sent>>
-----------------------------------------------------------------------------
(* emit_to_room and remove_room *)

Receivers(c) == {u \in Subscriber : Is(u, "listening") /\ receiver[u].channel = c}

Push(buffer, event) ==
    IF Len(buffer) < Capacity THEN Append(buffer, event) ELSE Append(Tail(buffer), event)

\* Without a channel, or with no receiver left, the event is dropped.
EmitToRoom ==
    /\ room # "none" /\ emitted < MaxEvents
    /\ emitted' = emitted + 1
    /\ IF room_channels # NoChannel /\ Receivers(room_channels) # {}
       THEN /\ channel' = [channel EXCEPT ![room_channels] =
                              [buffer |-> Push(@.buffer, emitted'), tail |-> @.tail + 1]]
            /\ sent' = [sent EXCEPT ![room_channels] = Append(@, emitted')]
       ELSE UNCHANGED <<channel, sent>>
    /\ UNCHANGED <<room, room_channels, receiver, starting, heard>>

\* The last player leaves, and the teardown comes to the channel later.
DeleteRoom ==
    /\ room = "open"
    /\ room' = "deleted"
    /\ UNCHANGED <<room_channels, channel, receiver, starting, emitted, heard, sent>>

RemoveRoom ==
    /\ room = "deleted"
    /\ room' = "removed" /\ room_channels' = NoChannel
    /\ UNCHANGED <<channel, receiver, starting, emitted, heard, sent>>
-----------------------------------------------------------------------------
(* RoomSubscription: `while let Ok(event) = receiver.recv().await`. *)

Oldest(u) == Of(u).tail - Len(Of(u).buffer)
Lagged(u) == receiver[u].next < Oldest(u)

\* Wrong variant: a receiver ends with its channel, whatever it has yet to hear.
ClosedAtOnce(u) == receiver[u].channel # room_channels

Closed(u) == receiver[u].channel # room_channels /\ receiver[u].next = Of(u).tail

\* The handler runs to its end before the next recv, whatever it returns.
Receive(u) ==
    /\ Is(u, "listening") /\ ~Lagged(u) /\ receiver[u].next < Of(u).tail
    /\ heard' = [heard EXCEPT
                    ![u] = Append(@, Of(u).buffer[receiver[u].next - Oldest(u) + 1])]
    /\ receiver' = [receiver EXCEPT ![u].next = @ + 1]
    /\ UNCHANGED <<room, room_channels, channel, starting, emitted, sent>>

\* Err(Lagged) and Err(Closed) both end the loop.
EndSubscription(u) ==
    /\ Is(u, "listening") /\ (Lagged(u) \/ Closed(u))
    /\ receiver' = [receiver EXCEPT ![u].step = IF Lagged(u) THEN "lagged" ELSE "closed"]
    /\ UNCHANGED <<room, room_channels, channel, starting, emitted, heard, sent>>

SubscriptionStep(u) == Receive(u) \/ EndSubscription(u)

Next ==
    \/ CreateRoom \/ EmitToRoom \/ DeleteRoom \/ RemoveRoom
    \/ \E u \in Subscriber : SubscribeToRoom(u) \/ CreateChannel(u) \/ SubscriptionStep(u)

Spec == Init /\ [][Next]_vars

\* Each subscription is a task that recv wakes, and its handler returns.
FairSpec == Spec /\ \A u \in Subscriber : WF_vars(SubscriptionStep(u))
-----------------------------------------------------------------------------
(* Properties. *)

\* What u is yet to hear: the rest of what was sent on its channel.
Waiting(u) ==
    IF Is(u, "listening")
    THEN SubSeq(sent[receiver[u].channel], receiver[u].next + 1, Len(sent[receiver[u].channel]))
    ELSE <<>>

Queues == INSTANCE Delivery WITH
    running <- {u \in Subscriber : Is(u, "listening")},
    queue <- [u \in Subscriber |-> Waiting(u)],
    cut <- {u \in Subscriber :
               \/ Is(u, "lagged") \/ Is(u, "closed")
               \/ Is(u, "listening") /\ receiver[u].channel # room_channels}

\* The ring is a queue for each subscriber: every event that is emitted while it
\* listens, once and in the one order of the room, until it lags by more than the
\* capacity or the channel was removed and it has heard everything before.  In
\* particular no subscription of create_room replaces the channel of an earlier one.
DeliversInOrder == Queues!Spec

\* An event emitted while a subscriber listens is handled in the end, although
\* other events follow and the channel may be removed, unless the subscriber lags.
EventsAreHandled ==
    \A u \in Subscriber, e \in 1 .. MaxEvents :
        (\E i \in DOMAIN Waiting(u) : Waiting(u)[i] = e)
        ~> ((\E i \in DOMAIN heard[u] : heard[u][i] = e) \/ Is(u, "lagged"))
=============================================================================
