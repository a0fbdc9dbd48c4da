# Big Two service: TLA+ models and proofs

A verification project for the Big Two game server (`src/`): TLA+ modules that
model the server's own logic, TLC configurations that check them on small
instances, and theorems about them that TLAPS checks for every value of the
constants. `PROJECT.json` lists the components, the runs, the mutants, the map
from definitions to source lines, the findings, the hazards and the theorems.

## 1. The system

One process, tokio tasks, one lock per repository. Everything that happens in a
room goes through the room's broadcast channel.

| Component | State | Operations | Correct when |
|---|---|---|---|
| Cards and hands (`game/cards`) | none | `Hand::from_cards`, `can_beat` | exactly the hands of the rules are hands; the order is the rules' order |
| Game (`game/core.rs`) | four hands, turn, passes, played hands, last plays, log | `new_game`, `play_cards` | turns go round, cards are conserved, views agree with the log, one winner, never stuck |
| Room (`room/models.rs`, `room/repository.rs`) | seats in order, host, ready, connected, activity | create, join, leave, ready, connect, clear, delete | four seats, one each; the host is a seated human; marks belong to seats |
| Event bus (`event/`) | room -> broadcast sender, capacity 100 | emit, subscribe, remove | every event reaches every subscriber in one order, none is stranded |
| Game pipeline (`game/game_room_subscriber.rs`, `game/service.rs`, `websockets/event_handlers/game_events.rs`) | the room's game | start request, create, move, turn, win, clean-up | a turn is announced and carried, a game ends and is cleared |
| Bots (`bot/`) | bots, their rooms and names | add, remove, decide | a bot whose turn it is decides on a move the game accepts |
| Connections (`websockets/`) | uuid -> token and sender, outbound queues | connect, replace, send, disconnect | the newest connection wins; presence agrees with it |
| Room service and clean-up (`room/service.rs`, `room/handlers.rs`, `room/cleanup_task.rs`) | none of their own | leave and teardown, inactivity clean-up | a room's game, bots, mappings, statistics and channel go with it |
| Statistics (`stats/`) | per-room totals, completed games in memory or Postgres, aggregates per player that nothing reads | record a won game, read profiles, lists and details, reset | each game counts once, and memory and Postgres answer alike |
| Sessions and mapping (`session/`, `user/`) | session rows, tokens, session -> player, uuid -> name | create, validate, look up, extend, revoke, clean up | a session that validates has a named player, and both go together |

Interactions. A client message on a socket becomes a room event
(`websockets/handler.rs`). Five subscribers, each a task of its own, take every
event of the room in the same order and run their handler to the end before
the next: WebSocket, game, bot, statistics, activity. A handler emits further
events (`TryStartGame` -> `CreateGame` -> `StartGame` -> `TurnChanged` ->
`TryPlayMove` -> `MovePlayed`, `TurnChanged` or `GameWon`), so what one
subscriber reports reaches the others later. HTTP handlers act on the same
repositories directly. `PROJECT.json` lists the behaviours that are hard to
test, each at its line: events that arrive after what they report has changed,
copies of a game used across an await, timeouts, replaced connections,
teardown in several steps.

## 2. Modules

| Module | Models | Role |
|---|---|---|
| `Hands` | `game/cards` | operators: cards as numbers, hands as kind and strength |
| `HandRules` | the README's rules, stated over sets | reference for `Hands`, and what sets one hand against another |
| `MCHands` | | three pools of cards |
| `TurnOrder` | what a table of four promises | abstract specification |
| `Game` | `game/core.rs` | a game; implements `TurnOrder` |
| `Strategy` | `bot/basic_strategy.rs`, `bot/ai_strategy.rs`, `bot/strategy_factory.rs` | what bots decide, and a table of bots and humans; extends `Game` |
| `MCGame` | | deals and moves of a small deck, bots with a larger one |
| `GameProofs` | | inductive invariant, refinement, what bots decide, hands against the rules |
| `Room` | `room/models.rs`, `room/repository.rs` | one room |
| `MCRoom` | | three humans, two bots |
| `RoomProofs` | | inductive invariant, succession of hosts |
| `Delivery` | what a room's channel promises, and `Round` relies on | abstract specification |
| `EventBus` | `event/bus.rs`, `event/room_subscription.rs`, the subscriptions of `create_room` | channels, receivers, lag and removal; implements `Delivery` |
| `MCEventBus` | | three subscriptions |
| `EventBusProofs` | | inductive invariant, refinement of `Delivery` |
| `Round` | the event pipeline | clients, three subscribers, the game they run, departures |
| `MCRound` | | one or two humans among bots |
| `RoundProofs` | | inductive invariant, a bot's turn is carried |
| `Lifecycle` | `bot/manager.rs`, `bot/handlers.rs`, leaving, teardown, `room/cleanup_task.rs` | what belongs to a room besides its seats; instantiates `Room` |
| `MCLifecycle` | | two handlers, three bots |
| `LifecycleProofs` | | inductive invariant, on top of `RoomProofs` |
| `Connection` | `websockets/handler.rs`, `socket.rs`, `connection_manager.rs`, `connection_events.rs` | connections, registry, presence; instantiates `Room` |
| `MCConnection` | | two players, two or three connections |
| `ConnectionProofs` | | inductive invariant, on top of `RoomProofs` |
| `History` | `stats/models.rs`, `stats/calculators`, `stats/collectors`, the store in memory of `stats/repository.rs` | operators: results, scores, the store and every read of it |
| `Tables` | the Postgres half of `stats/repository.rs` | operators: three tables as relations, and the same reads |
| `HistoryRepository` | `record_completed_game` of either repository | the history as `CompletedGames` and `Stats` share it |
| `HistoryReads` | what is read of the same results from either, page after page | properties and history variable for `CompletedGames` and its proofs |
| `CompletedGames` | both repositories, given the same results | compares them |
| `Stats` | `stats/service.rs` and the totals of `stats/repository.rs` | the subscribers of several rooms, await by await |
| `FinishedGames`, `MCCompletedGames`, `MCStats` | | two ways a game may end, and the instances |
| `StatsProofs` | | what the repositories hold and how they read alike; inductive invariants of tasks, aggregates and totals |
| `Session` | `session/`, `user/mapping_service.rs` | rows, tokens, maps, requests, the clean-up task, restarts |
| `MCSession` | | two sessions, two requests |
| `SessionProofs` | | inductive invariant |

**Hands.** A card is its place in the deck's order, 4 * rank + suit; comparing
cards is comparing numbers. A played list is a sequence, because clients send
lists in any order and with repetitions. A hand is its kind and a number that
orders it within its kind, the lexicographic `Ord` instances of the code laid
out in digits.

**Game.** One action per accepted move, `HandlePass` and `HandleCardPlay`; a
rejected move changes nothing, because the repository throws the copy away, and
is a guard that fails. `played_hands` and `move_log` only grow; the state keeps
what is read back: `opened`, `standing` (the last hand that is not a pass),
`leader` and `played`. Seats are places after the rotation of `new_game`.

**TurnOrder.** The turn, the passes, the lead and the end of a game with no
cards. `Game!TurnOrderSpec` says that every game is such a table.

**Room.** One action per repository operation; the lock makes each atomic.
Commands of players who have left are possible at any time, as late events.

**Strategy.** The basic strategy has legality checks of its own (`IsValidMove`
beside `Game`'s `Accepts`), looks through the combinations of its cards and takes
one of lowest average rank; `ChooseBestMove` is the set of what the random choice
may come to. The other strategies ask a service, which is another program and may
answer anything: `AiDecisions` says what becomes of an answer. `BotPlays` and
`Plays` make a table of the two kinds of player out of `Game`'s actions.

**EventBus and Delivery.** A channel is a ring of the last `Capacity` events with a
place per receiver, which is how tokio's broadcast channel behaves (marked
external in the map). `subscribe_to_room` is two steps, because it gives up
the read lock before it takes the write lock; `create_room` starts one subscription
after the other. A channel that another one replaces, or that is removed, closes
for its receivers when they have heard the rest. `Delivery` knows no rings: a
queue per subscriber, joined, cut off and ended. `DeliversInOrder` is the refinement,
and the queues are exactly the ones `Round` has. A room's id is taken to be
drawn once; petnames may repeat after a room is gone.

**Round.** Queues hold what each subscriber has yet to take, outboxes what its
handler has yet to emit; `Emit` is one step per event, so a change and its report
are apart, as in the code. The bot subscriber looks at the game in one step
(`BotTurnChanged`), sleeps and thinks, and emits the move in another
(`BotDecides`). Cards are counted, legality is nondeterministic for humans; `saw`
records which game a bot's move was computed for, so that a move computed for
an older game may be legal or not. Events no subscriber of the model acts on
(`MovePlayed`, `PlayerLeft`) are left out. `Leave` and `UnseatBot` may happen at any
time and leave the game alone; the teardown of a room that has lost its last human
is a step per repository, and when the channel has gone (`RemoveChannel`) events are
dropped. A leave that comes through the WebSocket subscriber is one of these, at
a moment when that subscriber does nothing else.

**Lifecycle.** No lock spans two repositories, so a handler that adds a bot,
removes one, leaves or cleans up is a task that makes one access per step, and
`task` says what it has to do next. `AddBot` to `UndoBot` are `add_bot_to_room`
with `create_bot`'s second count of the bots; `RemoveBot` to `UnnameBot` are
`remove_bot_from_room`; `Leave` and the clean-up share the teardown, which the
clean-up begins before the room is deleted and a leaver after. The seats are
`Room`'s, whose actions are used as they stand (`R!TryJoinRoom`, `R!LeaveRoom`,
`R!DeleteRoom`). Names stand for the bots' entries in the player mapping.

**Connection.** `serving` is the serving task's place in
`handle_websocket_connection`, with a step per await: token, registry, presence,
announcement, the loop, and the three steps of the clean-up. The registry maps a
player to the token of a connection; who holds a sender of a channel decides
whether it closes (`ChannelClosed`). The WebSocket subscriber takes the connect and
disconnect events it finds in `queue`; a connect marks the player once more. A
send finds a dropped receiver at any time (`SendToClosed`).

**History, Tables and HistoryRepository.** A result is made of the final game as the collectors,
calculators and `build_player_results` make it. The store in memory is its order
and its map; Postgres is three relations, and each SQL query is the set or the
sequence it selects. Times are the order of completion, rates the pair of numbers
they divide, names and JSON are left out. In `HistoryReads`, `Retained` is the tables
of the results that the store holds, so that what is compared is the reads and not
what has been evicted, and `Listed` is a client that follows `next_before`.

**Stats.** `task` is what the statistics subscriber of a room is at: the game it was
handed, the result it has yet to record, to add to the aggregates or to count. The
room mutex is why a room has one task. A database may fail before or after its
commit (`RecordFails`). `recorded` and `counted` are history variables. Bots come
and go between the win and the question whether the room has any. `profiles` is what
recording writes per player: `InMemoryProfileAggregate`, marked `dead_code`, and the
table `player_profile_stats`. No read uses either. The profile a player is shown is
computed anew by `get_player_profile_stats` and in memory covers only the games that
are kept; that one is `MemoryProfile` and `PostgresProfile` in `History` and `Tables`.

**Session.** `task` is a request at its next await: creation (row, name, mapping,
token), lookup of a name, revocation, extension. `cleaner` is the clean-up
task. `persistent` chooses the repository. A session's id stands for its player
and its token, because each creation makes its own. `Restart` empties the memory
and ends every request. `leaked` remembers, for `NamesGoWithSessions`, the two ways a
name may outlive its session.

## 3. Runs

| Run | Instance | Shows |
|---|---|---|
| `hands` | 33k states: hands of three pools against hands of ten cards | classification and order are the rules' |
| `game` | 94k states: 180 deals of eight cards, one of twelve, one of twenty with three bots | six invariants, `TurnOrderSpec`, bots decide on accepted moves, every game ends |
| `game_opening` | as `game` | violation: the opening rule can be passed by |
| `room` | 35k states: three humans, two bots | four invariants and the succession of hosts |
| `round` | 243k states: one human, three bots; a ready mark, a start and any two of a second start, two human moves and a departure | no bot's turn is lost; an open room never waits for a bot it has, as long as no strategy is cut off |
| `round_cleanup` | a start request during a win | violation: the clean-up removes the new game |
| `lifecycle` | 94k states: two humans, three bots, two tasks, at most two bots managed | no bot is forgotten, the channel goes with the room |
| `connection` | 539k states: two players, three connections | no open connection is lost to an older one's clean-up |
| `bus` | 21k states: three subscriptions, a channel of two, four events | the ring is a queue per subscriber; what was emitted is handled |
| `completed_games` | 34k states: four results of three games, a store of two | what is stored, deduplicated and evicted; memory and Postgres agree on every read |
| `stats` | 168k states: two rooms, two games, one submitted twice | totals and aggregates are those of a recount, games are numbered |
| `session` | 716k states: two sessions, two requests, one restart, with and without a database | sessions do not come back; rows, names and tokens go together |

Kept beside these, each refuting one property: `MCRoundTimeout.cfg`,
`MCRoundTurns.cfg`, `MCConnectionDisplaced.cfg`, `MCConnectionPresence.cfg` (see
Findings) and `MCStatsBots.cfg` (see Observations).

Bounds. `game`: two cards each are enough for a pair, a winning play of one or
two cards, a card named twice and three full rounds of passes; three pairs lie
together in some deals and apart in others; the larger deals add triples, straight
flushes and full houses, and a bot that holds a five-card hand. `hands`: each rule
tells ranks, suits or repetitions apart, and a pool varies each of them. `room`:
five players for four seats reach the limit, the refusal and a room of bots; a
history longer than that repeats a reachable room. `round`: `MaxStarts`, `MaxMoves`,
`MaxToggles` and `MaxLeaves` bound what clients send of each kind and `MaxAsked` what
they send in all (a game takes a ready mark and a start request); bots move as long as the game
lasts; two start requests are what it takes to replace a game, the first of them
before the marks are cleared; a human move lets a turn pass from bot to human and
back; one departure is a bot removed in front of the others, or the end of the room.
`lifecycle`: every pair of handlers meets
at every pair of steps; `MaxBots` is two, so the limit is met while seats are
free, and the third bot takes the last seat when one of the others has gone from
the manager. The clean-up may start at any time, because what it saw as inactive
may have changed. `connection`: three connections are an old, a current and a
newer one of a player, or two against one; nobody joins after a leave, and
messages and the capacity of a channel are left out. `bus`: a channel of two with
four events laps a receiver that has heard nothing and one that has heard some;
three subscriptions are a first, a second and one that finds the channel there.
`completed_games` and `stats`: a store smaller than the number of games evicts; four
results are a game again before and after its eviction; pages of one to four end
inside, at and past the end. `stats`: two rooms that share players. `session`: a
lifetime of one and two ticks of time reach creation, the last instant, expiry
and an extension; two requests and the clean-up are three tasks on one session.

Fairness (`Round!Fairness`): weak fairness of each subscriber's step. A
subscriber is a tokio task that is woken by `recv` and whose awaits all return
(channel sends do not block, locks are held briefly, a strategy is cut off
after five seconds). Nothing is assumed of clients: they may stop sending, which
is why `WaitsOnlyForHumans` allows the room to wait for one. Nor does it hold of a
strategy that is cut off (`MayTimeOut = TRUE`, Finding 2): the run sets `MayTimeOut`
to `FALSE`. `Connection!FairSpec`
likewise: each serving task and the subscriber go on when they can, for the same
reason, and no client need hang up; a task in its loop can go on when the socket
or the channel has closed. `lifecycle` and the invariants of `connection` assume no
fairness: a handler may stop anywhere, as one whose client has gone may.
`EventBus!FairSpec`: each subscription goes on when its channel has something for
it or has closed, as a tokio task that `recv` wakes; nobody need emit.
`Session!FairSpec`: the clean-up task, which its interval wakes again and again;
requests need not go on. `Strategy!FairTable`: the player whose turn it is moves in
the end. That is no promise of the code, but what `GameEnds` needs to say that the
rules themselves let no table pass for ever.

Deadlock is not checked: bounds on what is made once (deals, starts, bots, tokens)
let every instance come to an end.

## 4. Proofs

All theorems are of the specification, for every value of its constants.

* `GameProofs`: for every family of deals in which each seat holds cards, no two
  share one and somebody holds the three of diamonds (`DealsAssumption`), and
  every set of moves that contains the single cards dealt (`MovesAssumption`).
  The invariants are not inductive by themselves: that the leader is
  `passes + 1` seats behind the turn, that each seat holds the rest of its
  starting hand, and that nobody is out before the end must be carried together;
  `GameInvariant` proves the conjunction, the others follow. `ImplementsTurnOrder`
  maps every step of `Game` to a step of `TurnOrder`. `CanBeatIsTransitive`, about
  `Hands`, is what the last plays of a round rest on. `BotDecisionsAreAccepted` and
  `BotsAlwaysDecide` are about `Strategy!TableSpec`: every combination of a hand is a
  list of that hand's cards (`SortedIsAList`, by a smallest counterexample), the
  strategy's own checks come to the game's (`LegalIsAccepted`), a single card is legal
  wherever a pass is not (`NothingLegal`), and the order of averages and lists has a
  first (`BestIsAMove`, `ChoosesOne`), by the well-foundedness of the numbers.
  The hands against the rules: for every pool of cards of the deck, so for every
  hand and every pair of hands (`HandsFollowTheRules`, `BeatingFollowsTheRules`), and for
  the cards in any order (`AcceptsInEveryOrder`, `BeatsInEveryOrder`). The code counts
  over a list, the rules quantify over its set of cards (`ListAndSet`); a run is one
  of ten intervals of faces (`RunsAre`), four or three of a rank are all the cards
  of that rank (`QuadsAre`, `FullHousesAre`), so that once
  `classify_hand` has tried the straight flush its order is immaterial (`KindsExclude`),
  and one number orders five cards as the rules' tuples do (`WeightsOrder`). `DisjointHandsNeverTie` adds that
  the order is total on what two players can hold. They are about lists of
  different cards; of a list that names a card twice the README says nothing
  (see the observations).
* `RoomProofs`: for any two disjoint sets of humans and bots, no finiteness
  needed. `SeatedOnce` is what makes `Without` remove exactly one seat, and with
  it the room's invariant is inductive; the succession follows from the order that
  `Without` keeps.
* `LifecycleProofs`: for any number of handlers at a time and any limit of bots.
  The room's part comes from `RoomProofs`, whose lemmas are cited for the same
  variables. `UnseatedBotIsInHand` needs `BotsInHand`: a bot that is yet to be
  inserted is known to one handler only, so nobody else can finish with it.
  `ChannelFollowsRoom` needs `Teardowns`: a leaver tears down only after the room has
  gone, and the clean-up can be relied on only once it has deleted the room,
  because it gives up when somebody else has. That a bot's leave never deletes the
  room rests on the host being a seated human.
* `SessionProofs`: for any set of sessions and of requests at a time, any lifetime,
  any leeway and any number of restarts. `LiveSessionsAreNamed` and
  `NamesGoWithSessions` need `Creations` (a session that is being created has no
  token yet, so no other request can be about it, and time does not pass its expiry:
  the assumption of `Tick`) and `Removals` (what is about to lose its name is gone
  already). `RemovedStaysRemoved` rests on `update_session` writing only rows that
  are there. `SessionLastsUntilExpiry` (`ValidUntilExpiry`, an action property) needs
  `TokensOutlast` besides: the token of a session that was never extended expires no
  earlier than its row, because it is issued after the row's expiry was computed.
* `ConnectionProofs`: for any number of players and connections. Tokens are
  handed out in order and registered under their owner, so one player's entry is
  never another's connection; hence the token keeps an old connection's clean-up
  away from a newer one.
* `EventBusProofs`: for any capacity, and any number of subscriptions and events.
  A ring holds the last `Capacity` events sent on its channel, no receiver is ahead of
  its channel, and, because one `start` is awaited after the other, no subscription
  is on a channel that another replaced. The refinement goes step by step: a send
  appends to every queue, a receive takes what the queue has first or, after a lap,
  what is oldest in the ring, and a channel that ends is a queue that is cut off.
* `RoundProofs`: for any seats of humans and bots, any hands, and any number of
  starts, moves, ready marks and departures. `BotTurnIsCarried` has a hypothesis,
  that no strategy is cut off (`MayTimeOut = FALSE`): without it Finding 2
  refutes the property. What is inductive is where each event under way may stand,
  queue by queue and outbox by outbox, and that every game it names was created; there
  is a lemma per action on the events it adds, takes or passes on.
* `StatsProofs`: for any rooms, any limit of the store, any number of results, and any
  outcomes in which a game's players are different, its moves are theirs and the cards
  are natural numbers (`OutcomeAssumption`).
  The repositories. `StoredKeepsNewest` says what one more result does to the store;
  with it the store is the window of what it took, in `CompletedGames` and in `Stats`
  alike (`HistoryTakesOnce`). `RepositoriesInv` adds that completion times tell results
  apart and that the tables are the rows of the first result of every game.
  `RepositoriesReadAlike` rests on there being one way to list rows of different times
  (`OneOrder`): the rows of a join come in the order of the results they were made of
  (`MappedRows`), so the wins, the streaks and the windows of form agree. Sums over
  games and counts over joined rows are sizes of sets that are matched one to one
  (`SumOfSizes`). `PagesListAll` needs a page and what is before its `next_before`
  to be what there is before the page's own time (`PageStep`), and, as times fall from
  page to page, a least time at which a listing would go wrong (`PagesListRows`).
  The subscribers. `StatsInv` relates the tasks to the history: a completion time
  tells results apart, and the number a task has read is one more than the room's count
  until the room is reset, because a room has one task. `ProfilesInv`
  adds that tasks with a result yet to aggregate hold different results, so that
  each is added once. `TotalsInv` follows the streaks: the run
  under way after an appended result is the old one with it, or empty. Recounts are
  cardinalities of index sets, and sums are counted one by one (`Sum`), so that
  the library's facts about finite sets suffice.

The assumptions are that humans, bots and the absent host are told apart and that
bounds are numbers.

Model-checked only: `WaitsOnlyForHumans`, `EventsAreHandled`, `ExpiredAreRemoved` and
`GameEnds` (liveness under fairness is beyond the prover), and what the violation runs
refute. What a fold computes is not proved either: `RepositoriesAgree` compares the
streaks of both repositories by comparing what they are folded from.

## 5. Findings

The first and the third are runs of the project; the others are refuted under the
configurations named.

1. The opening rule. A pass counts as a played hand, so after the holder of the
   three of diamonds passes, the next seat may open with any card.
2. A bot whose strategy exceeds five seconds passes even when it must play ("Bot
   strategy timed out after 5 seconds, forcing pass"); the pass is refused and the
   room waits for ever (`WaitsOnlyForHumans` under `MCRoundTimeout.cfg`, which allows
   strategies to be cut off). The default HTTP timeout of the AI
   strategy is below five seconds; the environment can raise it.
3. The clean-up after a win removes whatever game the room has.
4. The first `TURN_CHANGE` may be the last one clients see (`AnnouncedTurnIsCurrent`,
   `MCRoundTurns.cfg`).
5. A replaced connection is not closed. The registry drops its sender "to close the
   connection", but the serving task keeps the sender it sends the initial messages
   with, so the channel stays open and the connection goes on until its client
   hangs up. `MCConnectionDisplaced.cfg`; with that sender dropped `ReplacedIsClosed` holds.
6. Presence outlives the connection (`PresenceIsCurrent`,
   `MCConnectionPresence.cfg`). When a send finds the receiver dropped
   before the serving task cleans up, it removes the entry; the task then takes
   itself for a stale one and leaves its player in `connected_players`. A
   `PlayerConnected` handled late marks a player who has gone, too.

### Observations

What the models show and no document of the repository denies.

* `Hands`, `Game`: a list may name a card twice, since each card is looked up in the
  hand on its own. A card twice is then a pair, and leaves the hand once.
* `Lifecycle`: `UndoBot` leaves the bot's name in the mapping, and a bot removed between
  its insertion and its seat takes the seat afterwards without a manager's entry.
* `Round`: a game takes no notice of departures. When a bot is removed, or a human
  leaves, the turn stays with the seat until the room has four players again and its
  host starts another game. A `CreateGame` taken after the teardown has removed the
  game stores one for a room that is gone.
* `EventBus`: events before a subscription are dropped, also those of a room whose
  `create_room` has not come to its last subscriber. A `remove_room` that overtakes
  `create_room` leaves later subscriptions to create a channel nobody removes.
  Two first subscribers at once would each create a channel; awaiting one
  `start` after the other is what prevents it.
* `Strategy`: the basic bots take the lowest average rank, so a five-card hand is led
  only when nothing lower is left.
* `Stats`: whether a game had bots is asked after the game, so a bot removed in time
  turns it into a game among humans (`HumanOnlyMeansNoBots`, `MCStatsBots.cfg`). A late
  win after the reset creates the totals of a dead room again. A database failure
  loses a result, or records it uncounted, and nobody tries again. In memory a game
  is known to be a duplicate only while it is retained. Two results completed in the
  same instant may be split by a page's cursor; the model gives each its own time.
* `Session`: a lookup that has read the row puts the name of a removed session back
  for good, and a revocation after a restart leaves the name. An extension computed
  early and written late can bring the expiry forward, an expired session can be
  extended again, and extending a session does not extend its token. In memory the
  clean-up takes a session at the instant at which it still validates; Postgres does
  not. Revocation and extension are called from tests only so far. A request whose
  client goes away is dropped between two awaits; the model lets a request stop
  anywhere, which is the same, except that its name in `task` stays.

## 6. Not modelled, and the plan

Chat, the wire format, HTTP routing and configuration have no state. Of the room
service, `last_activity_at` and the list of inactive rooms are left out: the clean-up
may start at any time. Of the connections, messages and the capacity of the outbound
channel are left out, and with them the order of the hydration messages of a
reconnecting player against live ones. Generated names, signatures of tokens and a
failing session database are left out; so is the scheduler of tokio beyond fairness.

Planned:

1. The outbound channel of a connection: capacity, and hydration against live messages.
2. Activity: which rooms the clean-up lists, against events that arrive meanwhile.
