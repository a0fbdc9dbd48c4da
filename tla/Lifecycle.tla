-------------------------------- MODULE Lifecycle ---------------------------------
(***************************************************************************)
(* What belongs to a room besides its seats, and how it goes: the bots of the *)
(* bot manager, their names in the player mapping and the room's event        *)
(* channel.  Adding a bot, removing one, leaving and the inactivity clean-up  *)
(* are handlers that touch the repositories one after the other, with no lock *)
(* over two of them; each access is a step here, and tasks run side by side.  *)
(*                                                                           *)
(* The teardown also removes the room's game and statistics, which nothing    *)
(* here reads.  Names of humans belong to their sessions.                     *)
(***************************************************************************)
EXTENDS Naturals, Sequences, FiniteSets

CONSTANTS Human, Bot, NoHost,   \* as in Room; every bot of a run is made once
          Task,                 \* bound: handlers that run at a time
          MaxBots               \* MAX_BOTS_PER_ROOM

ASSUME LifecycleAssumption ==
    /\ Human \cap Bot = {} /\ NoHost \notin Human \cup Bot
    /\ MaxBots \in Nat

VARIABLES exists, players, host, ready, connected,   \* the room
          managed,      \* the room's bots in the bot manager
          named,        \* bots in the player mapping
          channel,      \* whether the event bus has the room's channel
          made,         \* bot uuids generated so far
          task          \* what each task has to do next

room == <<exists, players, host, ready, connected>>
vars == <<exists, players, host, ready, connected, managed, named, channel, made, task>>

R == INSTANCE Room

\* A task at its next step, with the bot it adds or removes, or with the bots it
\* has listed for the teardown.
Idle == [at |-> "idle"]
WithBot(step, b) == [at |-> step, bot |-> b]
Teardown(step, by, listed) == [at |-> step, by |-> by, listed |-> listed]

BotSteps == {"count", "recount", "insert", "name", "seat", "undo",
             "unseat", "forget", "unname"}
TeardownSteps == {"list", "bots", "names", "room", "channel"}

At(t, step) == task[t].at = step
CleansUp(t) == task[t].at \in TeardownSteps /\ task[t].by = "cleanup"
Goes(t, next) == task' = [task EXCEPT ![t] = next]
GoesOn(t, step) == task' = [task EXCEPT ![t].at = step]

\* A room that has been created, with its subscribers.
Init ==
    /\ exists = TRUE /\ ready = {} /\ connected = {}
    /\ host \in Human /\ players = <<host>>
    /\ managed = {} /\ named = {} /\ channel = TRUE /\ made = {}
    /\ task = [t \in Task |-> Idle]
-----------------------------------------------------------------------------
(* add_bot_to_room. *)

\* The host asks, and the room has a free seat at this moment.
AddBot(t, b) ==
    /\ At(t, "idle") /\ b \notin made
    /\ exists /\ Len(players) < R!Capacity
    /\ made' = made \cup {b}
    /\ Goes(t, WithBot("count", b))
    /\ UNCHANGED <<room, managed, named, channel>>

\* The handler counts the room's bots, and create_bot counts them again.
CountBots(t) ==
    /\ task[t].at \in {"count", "recount"}
    /\ IF Cardinality(managed) < MaxBots
       THEN GoesOn(t, IF At(t, "count") THEN "recount" ELSE "insert")
       ELSE Goes(t, Idle)
    /\ UNCHANGED <<room, managed, named, channel, made>>

InsertBot(t) ==
    /\ At(t, "insert")
    /\ managed' = managed \cup {task[t].bot}
    /\ GoesOn(t, "name")
    /\ UNCHANGED <<room, named, channel, made>>

\* register_player; it cannot fail for a uuid that is new.
NameBot(t) ==
    /\ At(t, "name")
    /\ named' = named \cup {task[t].bot}
    /\ GoesOn(t, "seat")
    /\ UNCHANGED <<room, managed, channel, made>>

SeatBot(t) ==
    /\ At(t, "seat")
    /\ R!TryJoinRoom(task[t].bot)
    /\ Goes(t, Idle)
    /\ UNCHANGED <<managed, named, channel, made>>

\* The room is gone or full by now.
SeatRefused(t) ==
    /\ At(t, "seat")
    /\ ~exists \/ Len(players) = R!Capacity
    /\ GoesOn(t, "undo")
    /\ UNCHANGED <<room, managed, named, channel, made>>

\* Wrong variant: the error is returned and the bot stays.
BotKept(b) == managed

BotForgotten(b) == managed \ {b}

\* Bot and mapping are to be cleaned up; the mapping is not.
UndoBot(t) ==
    /\ At(t, "undo")
    /\ managed' = BotForgotten(task[t].bot)
    /\ Goes(t, Idle)
    /\ UNCHANGED <<room, named, channel, made>>
-----------------------------------------------------------------------------
(* remove_bot_from_room, for any bot the manager has for the room. *)

RemoveBot(t, b) ==
    /\ At(t, "idle") /\ exists /\ b \in managed
    /\ Goes(t, WithBot("unseat", b))
    /\ UNCHANGED <<room, managed, named, channel, made>>

\* The result of leave_room is not looked at: the bot may have no seat (yet, or
\* any more).
UnseatBot(t) ==
    /\ At(t, "unseat")
    /\ IF exists /\ task[t].bot \in R!Seated
       THEN R!LeaveRoom(task[t].bot)
       ELSE UNCHANGED room
    /\ GoesOn(t, "forget")
    /\ UNCHANGED <<managed, named, channel, made>>

\* An error, and the end, when another task has removed the bot.
ForgetBot(t) ==
    /\ At(t, "forget")
    /\ managed' = managed \ {task[t].bot}
    /\ IF task[t].bot \in managed THEN GoesOn(t, "unname") ELSE Goes(t, Idle)
    /\ UNCHANGED <<room, named, channel, made>>

UnnameBot(t) ==
    /\ At(t, "unname")
    /\ named' = named \ {task[t].bot}
    /\ Goes(t, Idle)
    /\ UNCHANGED <<room, managed, channel, made>>
-----------------------------------------------------------------------------
(* Joining, leaving and the teardown. *)

Join(h) ==
    /\ R!TryJoinRoom(h)
    /\ UNCHANGED <<managed, named, channel, made, task>>

\* leave_room and handle_leave_request: who deletes the room tears it down.
Leave(t, h) ==
    /\ At(t, "idle")
    /\ R!LeaveRoom(h)
    /\ Goes(t, IF exists' THEN Idle ELSE Teardown("list", "leave", {}))
    /\ UNCHANGED <<managed, named, channel, made>>

\* delete_room of the clean-up task, one room at a time.  The room was inactive
\* when the rooms were listed; anything may have happened since.
CleanUp(t) ==
    /\ At(t, "idle") /\ exists
    /\ ~\E u \in Task : CleansUp(u)
    /\ Goes(t, Teardown("list", "cleanup", {}))
    /\ UNCHANGED <<room, managed, named, channel, made>>

ListBots(t) ==
    /\ At(t, "list")
    /\ Goes(t, Teardown("bots", task[t].by, managed))
    /\ UNCHANGED <<room, managed, named, channel, made>>

RemoveAllBots(t) ==
    /\ At(t, "bots")
    /\ managed' = {}
    /\ GoesOn(t, "names")
    /\ UNCHANGED <<room, named, channel, made>>

\* Wrong variant: a leaver's teardown ends with the bots' names.
AfterNames(by) == IF by = "cleanup" THEN "room" ELSE "idle"

\* The clean-up deletes the room last, a leaver has done so first.
NextOf(by) == IF by = "cleanup" THEN "room" ELSE "channel"

RemoveNames(t) ==
    /\ At(t, "names")
    /\ named' = named \ task[t].listed
    /\ GoesOn(t, NextOf(task[t].by))
    /\ UNCHANGED <<room, managed, channel, made>>

\* An error, and the end, when the last human has left in the meantime.
DeleteRoom(t) ==
    /\ At(t, "room")
    /\ IF exists
       THEN R!DeleteRoom /\ GoesOn(t, "channel")
       ELSE UNCHANGED room /\ Goes(t, Idle)
    /\ UNCHANGED <<managed, named, channel, made>>

RemoveChannel(t) ==
    /\ At(t, "channel")
    /\ channel' = FALSE
    /\ Goes(t, Idle)
    /\ UNCHANGED <<room, managed, named, made>>
-----------------------------------------------------------------------------
AddsBot(t) ==
    \/ \E b \in Bot : AddBot(t, b)
    \/ CountBots(t)
    \/ InsertBot(t)
    \/ NameBot(t)
    \/ SeatBot(t)
    \/ SeatRefused(t)
    \/ UndoBot(t)

RemovesBot(t) ==
    \/ \E b \in Bot : RemoveBot(t, b)
    \/ UnseatBot(t)
    \/ ForgetBot(t)
    \/ UnnameBot(t)

TearsDown(t) ==
    \/ \E h \in Human : Leave(t, h)
    \/ CleanUp(t)
    \/ ListBots(t)
    \/ RemoveAllBots(t)
    \/ RemoveNames(t)
    \/ DeleteRoom(t)
    \/ RemoveChannel(t)

Next ==
    \/ \E h \in Human : Join(h)
    \/ \E t \in Task : AddsBot(t) \/ RemovesBot(t) \/ TearsDown(t)

Spec == Init /\ [][Next]_vars
-----------------------------------------------------------------------------
Tasks == {Idle}
         \cup [at : BotSteps, bot : Bot]
         \cup [at : TeardownSteps, by : {"leave", "cleanup"}, listed : SUBSET Bot]

TypeOK ==
    /\ R!TypeOK
    /\ managed \subseteq made /\ named \subseteq made /\ made \subseteq Bot
    /\ channel \in BOOLEAN
    /\ task \in [Task -> Tasks]

\* A bot that has no seat is on some handler's hands: while the room exists no bot
\* stays behind in the manager, where it would count against the limit and be
\* shown to the clients, however adding, removing and refused seats interleave.
UnseatedBotIsInHand ==
    exists => \A b \in managed \ R!Seated :
        \E t \in Task : task[t].at \in BotSteps /\ task[t].bot = b

\* The event channel lives as long as the room, and when the room is gone some
\* teardown has yet to close it: no channel, and none of the five subscriber tasks
\* that end with it, is left to a room that is gone, although a leaver and the
\* clean-up may tear one room down at once and the slower of them may give up.
ChannelFollowsRoom ==
    IF exists
    THEN channel
    ELSE channel => \E t \in Task : task[t].at \in TeardownSteps \ {"room"}
=============================================================================
