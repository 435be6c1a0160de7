# Yume Vale in TLA+

Yume Vale is a small multiplayer game: a Bevy server (`crates/game_server` and
the feature crates under `crates/features`), a persistence service on a thread
of its own (`crates/game_persistence`), deterministic rules and data types
(`crates/game_core`, `crates/game_protocol`) and a client
(`crates/game_client`), an administration page (`apps/admin`) and build tasks
(`apps/xtask`). These modules specify its protocols and its state: first the part
in which a mistake costs players their items - gathering resources, keeping them
in an inventory, and saving that inventory through a bounded channel to a
database that may fail, while players come and go - and around it the sessions,
the plots, the movement, the start of the server, the admin API, and the client
from its loading screen to the fox that stands still.

## The system

| component | state | operations | talks to |
|---|---|---|---|
| channel and worker (`game_persistence/src/handle.rs`, `worker.rs`) | command buffer (256), one response channel per command, the worker's current command | `dispatch` (send and block), `send_async` (send, poll later), the worker loop | game thread, repository |
| repository (`repository/*.rs`) | tables `identities`, `inventory`, and three no caller uses | find-or-create an identity, DELETE and INSERTs of a save, load | worker only |
| coordinator (`game_server/src/systems/persistence.rs`) | `pending`: operations sent and not yet answered | `persist_collect`, `process_pending_transactions` | channel, nodes, player components |
| collecting (`systems/collect.rs`, `features/resources`) | node status, player inventory, cooldown, sequence number | validation, collect with and without a database, feed, respawn and cooldown ticks | inventory, coordinator |
| inventory (`game_core/src/inventory.rs`) | slots of stacks | add, remove, count, conversion to and from rows | all of the above |
| session (`systems/auth.rs`, `connection.rs`) | pending sessions, player entities, link to player | connect, hello, reject, stale session replacement | channel (blocking), roster |
| roster and emotes (`features/social`) | connected players, player to link | set on hello, cleaned up on disconnect, emote | session |
| housing (`features/housing`) | sixteen plots, their waits and decorations | build, remove, broadcast | networking |
| creatures (`features/creatures`) | feed cooldowns, wandering | spawn, feed, wander | inventory, physics |
| game state (`game_core/game_state`, `checksum.rs`) | a pure replica of the rules | reducers per intent, checksum | nothing in the server |
| input and movement (`systems/input.rs`, `features/player`) | decoded input, time since the last one, jump latch | apply, time out, move | networking, physics |
| visibility (`systems/visibility.rs`) | what each client was told | a rate-limited update | replication |
| start (`plugin.rs`, `config.rs`, `systems/setup.rs`, `tls.rs`, `world_config.rs`) | configuration, certificate, listeners, the first entities | once, in order | all of the server |
| admin API and dashboard (`systems/admin_api.rs`, `apps/admin`) | sessions, snapshot, event channel; token, list, socket | login, stream, check, logout | the player entities |
| client connection (`connection/*`, `menu.rs`, `hud/status.rs`) | transport mode, client entity, rejection, page | play, retry, fall back, hello | server |
| client loading (`loading/*`) | queue, active load, typed resources | one load at a time | asset server |
| client controls (`input/*`, `touch.rs`, `camera.rs`) | keys and touch, input, zoom | per frame | prediction, server |
| client characters (`visuals/fox.rs`) | scene, animator, clip, prediction | per frame | replication, controls |
| client panels (`hud/*`, `ui/*`, `menu.rs`, `visuals`) | quality, focus, build mode, bonds, feedback | per frame | messages |
| build tasks (`apps/xtask`, `apps/tools`) | certificate, key and digest; code map viewer | plans of steps | programs, files |

What makes it hard: two threads (the game thread and the worker) and a database
between them; saves that are several statements without a transaction;
responses polled one after the other while the worker goes on; the world read
when an intent arrives and written when its save is answered; systems of one
tick in no fixed order (`plugin.rs:78-91` adds them as an unordered tuple);
entity commands applied later than the system that issued them; reconnects that
replace an entity while its saves are in flight; a worker that may die, a
process that may crash. On the client every system runs in every frame in an
order the schedule leaves open, the browser hides the page without telling what
is let go meanwhile, and what the server sends arrives before or after the
entities it is about. `PROJECT.json` lists each hazard at its line.

What has to be right, component by component:

- channel: accepted commands are answered once, in order; the buffer is
  bounded; a blocking call waits for everything sent before it and returns even
  if the worker dies.
- repository: acknowledged saves survive; interrupted ones never mix with
  others; tokens keep their ids and share none.
- collecting: a node gives its yield whole or not at all; an intent counts once;
  a depleted node comes back, and not before its time.
- coordinator: no transaction is lost, forgotten or applied to the wrong entity,
  and each is resolved in the end.
- session and roster: the capacity is kept, a reconnect takes over, no link is
  answered twice, who is connected has been welcomed or is pending, emotes only for players.
- housing: what the plots are said to hold stands there and is what was shown.
- game state: no item is lost, the checksum depends on the state alone.
- movement: silence stops a player, one press is one jump.
- visibility: an update shows what is in sight, whatever the cache skips.
- start: a server that runs has what its clients and its physics need.
- repository commands without a caller: a row is what was answered.
- dashboard: a dead session ends at the login form, the list catches up.
- client: it keeps trying, falls back only after the timeout, says hello while it
  is unknown; loading ends; a character without input stands idle.
- build tasks: a certificate made within the week is not left to expire.

## Modules

| module | models | extends |
|---|---|---|
| `CommandService` | what the persistence API promises: a bounded FIFO service | |
| `CommandChannel` | `handle.rs` and `worker.rs` | instantiates `CommandService` |
| `CommandChannelProofs` | theorems about the channel | `CommandChannel` |
| `Inventory` | `inventory.rs` and the row conversions, as operators | |
| `InventoryProofs` | lemmas about numbers, ranks, sums and the operators of `Inventory` | `Inventory` |
| `Persistence` | the worker executing statements, the database, crash and restart | `Inventory`, instantiates `CommandChannel` |
| `PersistenceProofs` | theorems about saves, loads and identities | `Persistence`, `InventoryProofs`, instantiates `CommandChannelProofs` |
| `Gathering` | nodes, player components, collect and feed without a database | `Inventory` |
| `GatheringProofs` | theorems about gathering | `Gathering`, `InventoryProofs` |
| `CollectPipeline` | the server with a database: join, collect, poll, apply | `Gathering`, `Persistence` |
| `PipelineProofs` | theorems about the server with a database | `CollectPipeline`, `PersistenceProofs`, `GatheringProofs` |
| `Session` | links, hello, roster, map, emotes | |
| `Housing` | plots and their snapshots | |
| `GameState` | the reducers of the replica and its checksum | `Inventory` |
| `Movement` | input from the key to the jump | |
| `Visibility` | interest updates and their cache | |
| `WorldProofs` | theorems about movement, visibility, plots and the replica | `Movement`, `Visibility`, `Housing`, `GameState`, `InventoryProofs` |
| `ServerStart` | the start of the server and its creatures | |
| `Records` | the persistence commands without a caller, and the migration | |
| `Tasks` | `cargo xtask` and the files it keeps | |
| `Kept` | both together: what is on disk | `Records`, `Tasks` |
| `AdminApi` | admin API and dashboard | |
| `ClientConnection` | transports, retries, hello, rejection, page | |
| `Loading` | the loading screen | |
| `Controls` | keys, touch, input, zoom | |
| `Fox` | characters: prediction, animation, wave | |
| `Hud` | menu, focus, build mode, bonds, feedback | |
| `MCCore` | the channel and gathering, for TLC in one run | `CommandChannel`, `Gathering` |
| `MCPersistence`, `MCPipeline` | instances for TLC | the module of the name |
| `MCServer`, `MCClient` | several components in one run | the modules from `Session` to `Tasks`, those from `AdminApi` to `Hud` |
| `ServerProofs` | theorems about sessions, the start, rows and certificate, and the server as a whole | `MCServer`, `WorldProofs` |
| `ClientProofs` | theorems about the dashboard, the client's parts, and both as a whole | `MCClient` |

### CommandChannel

`log` is the history of accepted commands; a command's index is its identity.
`queue` is the `sync_channel` buffer, `current` the command between `recv()`
and `response.send()`, `reply[i]` the one-shot response channel of command `i`
(`Waiting`: empty, `Closed`: its sender was dropped), `blocked` the command in
whose `rx.recv()` the game thread is. `SendAsync` and `Dispatch` are the two ways
to send; `TrySend` is disabled where `try_send` returns `QueueFull` or
`ChannelClosed`, because a refused send changes nothing. `WorkerExit` is the
death of the thread: dropping the receiver drops the buffered commands and
their response senders, which is what ends every wait. The orderly shutdown is
left out, as the server leaks its worker on purpose (`systems/persistence.rs:66-77`).

### Persistence

One action per SQL statement that writes: `DeleteRows`, `InsertRow`,
`InsertConflict` (the primary key `(player_id, resource_kind)`), `SaveDone`.
Nothing in `repository/` opens a transaction, so each commits by itself.
A new identity takes two steps, `InsertIdentity` and the answer (`ServeResolve`), so
that the worker or the process may die between them; finding a token, and the largest id,
only reads, and the pool has one connection, used by one worker.
`StatementFails` ends a command with an error before its next statement;
`WorkerExit` and `Crash` may come at any point. A restart keeps the tables
(`migrate` only creates what is missing) and empties the channel. `begun` is a
history variable: the rows of the last save whose DELETE was executed.

### Gathering

`body[p]` says which components the player entity has. The server queries them
as `Option`s, and which exist decides what a collect checks and changes: a
freshly spawned entity (`bare`) has none until `initialize_player_components`
runs; one spawned with a loaded inventory (`loaded`) never gets a cooldown and a
sequence number, since that system looks for entities without an inventory.
Time is counted in ticks. `CooldownTicks` and `RespawnTicks` stand for
`INTERACT_COOLDOWN_S` and `respawn_seconds`; each tick system is an action, in any
order with the others. Positions are left out: an intent from too far away is
refused without effect, so a collect action is one from near enough.

### CollectPipeline

`Hello` to `ApplyJoin` are the stages of `handle_identity_hello`: blocking in
`resolve_identity`, blocking in `load_inventory`, and the deferred commands
(stage `flush`), between which the worker, and before the last one also other
systems, take steps. `Collect` is `handle_action_collect`: it saves rows computed
from the current inventory and changes nothing else. `StartPolling`, `PollOp`
and `FinishPolling` are `process_pending_transactions`, one `try_recv` per step,
ending with the `swap_remove`s from the highest index down. `entity[p]`
numbers the entities of a player, so that an acknowledgement can find the one it
was sent for gone. `Restart` loses everything but the database.

### Session

A link is an entity that may outlive its `Connected` component: the network
layer, which is external, ends the connection (`Disconnect`), despawns the entity
later (`DespawnDisconnected`), and keeps the record of the removed component for
two frames (`RemovalExpires`). `FixedUpdate` lets the systems of a run take turns in any
order. `handle_identity_hello` visits any subset of the pending links with
the counts and queries of its start (`pendingAtStart`, `StaleBodies`); what it queues
(`cmds`) is applied in order by `Apply` when it has ended. `Cleanup` reads the removal
records and finds no player on a link that was despawned. Whether a despawned link
takes the entities of its session along is the library's and left open.

### Housing, GameState, Visibility, Movement

`Housing`: players whose ids agree modulo the number of plots share a plot and its
wait, and every attempt restarts the wait, refused or not. The documentation of
the plugin speaks of persistence; there is none. A client that comes later gets no
snapshot until the next change (`AttachHousingPlayer`).

`GameState`: the lists keep their insertion order, so that the sorting in
`ChecksumBytes` means something. A collect that does not fit keeps the part that did
and leaves the node available; placing takes an item out of the slot without
comparing it with the one placed. `reported` is what the events spoke of.

`Visibility`: `cache` and `visible`, what the replication backend knows, are two
things: the backend forgets entities and links that go, the cache drops the
links only.

`Movement`: the channel delivers any newest message and loses those before
(`ApplyClientInput`); `apply` and `stop` run in either order, `move` after both. `press`
tells the presses apart, `silence` counts the ticks without a message.

### ServerStart, Records, Tasks

`ServerStart` is one action per stage, in the order `main` and the plugin give
them, over every configuration of `Settings`; a stage that panics leads to `failed`,
one that only logs goes on without its resource. `SetupWorld` shows finding 5.
The generator behind `DirectionTicks` divides 31 random bits by the largest 32-bit
number and so stops in the middle of its range (`creatures/components.rs:24-30`).

`Records` has an action per SQL statement, as `Persistence` has, for
bonds, plots, decorations and `create_identity`; `known` is what was answered for each
row, `doubts` the writes whose answer a restart lost. `migrate` creates one table
after the other and opens no transaction, whatever the comment at
`repository/mod.rs:25` says.

`Tasks`: a plan is a sequence of steps, `StepFails` may leave half of what the step
makes, and `CannotStart` fails the task even at a step whose failure is ignored.

### AdminApi

One dashboard. The systems of a tick are atomic: `sync_admin_snapshot` sends its
events and writes the snapshot without a lock over both, but who reads the snapshot in
between is in the place of one who read it before the tick and whose answer
arrives after the events. `Subscribe` comes after the snapshot was sent, `feed` drops its
oldest events when it is full, an answer may be older than the events it arrives
with (`answers`), and a restart loses the sessions.

### ClientConnection, Loading

`ClientConnection`: systems of a frame are actions; the two that measure time
run once between two `Tick`s. Network and server are external: a handshake takes
longer than a frame, unread messages may be lost with the connection. `waiting` is
the time the transport really went unconnected, `wtAge` what the code measures. The server
may refuse and the client hears of it, although this server tells none (finding 7). A page
built for one fixed address (`YUME_SERVER_WS_URL`, `transport.rs:92-114`), which makes a
WebSocket client whatever the mode says, is left out.
Leaving the game despawns every entity but the loading screen, camera and
window included (`flow.rs:138-144`): `stage` says whether buttons can still be pressed.

`Loading`: `LoadWorldConfig` and `CreateLoadingQueue` run once each, in this order, then
`PollAndFinalize` and `UpdateLoadingProgress` in every frame. A file that is queued
twice is loaded once.

### Controls, Fox, Hud

`Controls` keeps what the player does (`held`, `finger`) apart from what the client
believes (`pressed`, `touch`); `watched` is whether the page gets events. It models the
game only: in the menu `gather_input` returns at once (`input/movement.rs:72-74`). `Fox` cuts the
speeds at the thresholds of the clips, so that smoothing, hysteresis and the wave
are steps between seven bands; `drift` is the distance between the predicted
and the server's position. Its `input` is what `Controls` sends. `Hud` has an action per
system and the entities they create and despawn; of the buttons, the one that closes a
rejection and the jump button are left out.

## Runs

| run | instance | what it shows |
|---|---|---|
| `core` | the channel with capacity 2 and 5 commands; gathering with 2 players, 2 nodes, 1 creature, 2 slots of 3; one of the two per behaviour | `InOrder`, `Bounded`, `DispatchIsBarrier`, `DispatchReturns`, and `ImplementsService` (safety and liveness) by refinement; `DepletedHasTimer`, `CollectGainsYield`, `SequenceAdvances`, `NodesRespawn` |
| `persistence` | 2 tokens, 2 kinds, capacity 2, 3 commands per process life, 1 failing statement, 1 crash | `LoadReturnsLastSave`, `AcknowledgedStays`, `NeverMixed`, `IdentitiesUnique`, `IdentityStable` |
| `pipeline` | 1 player with 2 connections, 1 node, 1 creature, capacity 2, 5 commands, 1 fault, 1 crash | `NothingUnsaved`, `PendingTracked`, `NoForeignAck`, `PendingDrains` |
| `server` | see below, one component per behaviour | `Capacity`, `MappedOwnsBody`, `AnswerFitsSession` (session); `PlotsAsShown`; `ChecksumOrderFree`, `NothingLost`; `SilentStandsStill`, `OneJumpPerPress`; `UpdateShowsWhatIsInSight`; `KeptOnDisk` (records and tasks); `StartsWhole` within `ServerSafety` |
| `client` | see below, one component per behaviour | `DeadSessionBounces`, `DashboardCatchesUp`; `KeepsTrying`, `FallbackNeedsTimeout`; `LoadingSettles`; `ComesToRest` (controls and characters); `DashboardIsHonest`, `NoSecondWave`, `NothingForgotten`, `NothingStaysPressed`, `ClipFits` and `OneOutline` within `ClientSafety` |
| `creatures_frozen` | the start, 3 worlds | finding 5 |
| `hello_after_reconnect` | one client | finding 6 |
| `refused_link` | `Session` of `server` alone | finding 7 |
| `pipeline_timer` | 1 player, 1 node | finding 1 |
| `pipeline_yield` | 1 player, 2 nodes | finding 2 |
| `pipeline_stored` | 1 player, 2 nodes | finding 3 |
| `pipeline_replace` | 1 player, 1 node, yields of 2 in stacks of 3 | finding 4 |

The bounds. Two buffered commands and one in the worker's hands are enough for a
full queue, for two saves of one player in flight and for a save behind a save
behind a load. Two row lists, one of them with a repeated kind, reach a complete
save, an interrupted one and a conflict; one fault and one crash can fall at any
statement, and together. `MaxCommands`, `MaxFaults`, `MaxCrashes`, `MaxJoins` and
`MaxSequence` only stop counters that would grow without end. For `Gathering` in `core` the
yields (2 and 3 in stacks of 3) overflow a stack into the second slot and
fill the inventory, and feeding takes it apart again. In `pipeline` two
connections of one player are what a reconnect during a save needs;
`PipelineTypeOK` bounds the coordinator.

The components of `server` share no state in the models, nor do those of
`client` or the two of `core`: `part` names the one that a behaviour runs, so that one run
checks all and the numbers of states add up instead of multiplying (two million, 164
thousand and 90 thousand). The bounds of `server`: three links, three bodies, two identities, two tokens, two places
and one failing look-up in `Session` give two hellos of one token in one run, a full
server with a third link waiting, and a reconnect before and after the clean-up;
three residents on two plots in `Housing` share one; two
players, a slot of two, two plots and a yield that does not fit in `GameState`; a thing
and two players that see each other in `Visibility`; a timeout of two ticks with
two messages on their way and two presses in `Movement`; a good world, one with two equal
ids and one with a wrong count in `ServerStart`; in `Records` two owners for two plots
and one failure or restart at any statement; in `Tasks` a week of two days, and
two programs that may be missing. On the client: one player who comes and goes, two
sessions, a channel of two events and one mishap in `AdminApi`; a backoff and a timeout
of two units in `ClientConnection`; in `Loading` a usual configuration, one without a kind
the game needs, one whose models are one file, and a file that does not parse; one
key besides the finger in `Controls`, whose systems treat keys alike; one of
two characters and one emote in `Fox`, since characters do not touch each other.

Runs end when the bounds of the instance are used up or the
program stops by itself - a failed start, a finished loading screen - so they do
not check deadlock; that blocked calls return, pending operations drain and
clients and dashboards go on is stated as liveness instead.

Fairness. `WF` of the worker's steps and of a `recv()` that can return: the
operating system runs both threads. `WF` of the tick systems in `Gathering` and of
the polling loop and the join's stages in `CollectPipeline`: `FixedUpdate` runs
every system in every tick. `WF` of the systems of every frame in the client's
modules, of the timers of the browser (`Reopen`, `CheckSession`), of the asset server
(`LoadEnds`, `SceneSpawns`), of answers that were sent (`GetAnswer`, `OnMessage`, `ServerAnswers`),
and of the ticks of the admin system. `CoreFairness` and `MCFairness` assume it only of the
component that runs. The components of `server` and `Hud` have safety properties only and assume none.
Nothing is assumed of players, faults, handshakes, the worker's death or crashes.

### Findings

1. `DepletedHasTimer` is violated on the transactional path: the
   acknowledgement depletes a node without setting its `respawn_timer`
   (`systems/persistence.rs:251`), and the node is back in the next tick,
   although `respawn_seconds` is documented as the "Seconds before the node
   respawns after depletion." The immediate path sets it.
2. `AcknowledgedGainsYield`: two collects sent before the first is answered start
   from the same inventory (`systems/collect.rs:239`); the second
   acknowledgement removes the yield of the first.
3. `AppliedIsStored`: the polling loop can find the second save answered before
   it finds the first (`systems/persistence.rs:227`), and then applies them in the
   wrong order.
4. `SaveReplaces`: one row per stack against a primary key of one row per
   kind (`repository/inventory.rs:24`, `repository/mod.rs:37`): a player who
   owns more than one stack of a kind cannot be saved any more, and the rows
   stored before are already deleted.
5. `CreaturesHaveBodies`: `setup_world` runs once and asks, in the run that spawns the
   creatures by commands, for those that were added (`systems/setup.rs:33`). The query
   finds none, no later run asks again, and without the velocity that `wander_ai`
   queries the creatures never move.
6. `HelloWhileUnauthenticated`: the reconnect button (`hud/status.rs:122`) leaves
   `LocalPlayerId` set, which the automatic retry clears (`connection/retry.rs:46`); the
   client is connected, sends no hello, and stays a pending session of the server.
7. `RefusedAreTold`: the reason of a refusal goes into the sender of the link, and the
   link is despawned in the same run (`systems/auth.rs:155-158`), before anything is
   sent. No refused client learns why, although `auth.rs:84-86` gives the rejection that
   "actually sends `RejectionKind::ServerFull` to the client" as the reason for checking
   the capacity there. `AnswerFitsSession` says nothing of refused links for that reason.

Smaller disagreements that the models show and no run singles out:

- the label of the graphics button after a return to the menu is "High" whatever the
  quality is (`menu.rs:72-77`; `graphics.rs:79-80` says they never drift apart);
- `mark_local_player_visuals` looks among `Interpolated` entities while the own one is
  `Predicted` (`visuals/fox.rs:377-395`): a `Welcome` after the entity marks none, and the
  camera follows none;
- two systems drain the receiver of `ActionRejected` (`game_client/plugin.rs:159`, `161`), and
  only one of them shows it;
- the roster is to track who is connected (`social/src/systems/mod.rs:22`), but the loss of
  an old link that is read after the hello of the new one takes the player out of the
  roster and the map (`cleanup.rs:13-18`), and one that is read after the link was despawned
  leaves the player in it; which of the two can happen is up to the time at which the
  networking library despawns a link that was lost;
- an error of the world configuration is overwritten by that of the missing queue
  (`loading/systems.rs:24-28`);
- a displayed bond is not written again when the bonds change (`visuals/bond.rs:149-190`);
- a missing `kubectl` fails `infra check` although its failure is ignored
  (`xtask/exec.rs:149-152`), and a download or a certificate that was cut short counts as
  fresh for a week.

## Proofs

TLAPS checks these for every value of the constants that meets the named assumptions of
the modules they are about (`ChannelAssumption`, `InventoryAssumption`, ...: what is a
number, what is not zero, which orders list every kind, that a stack holds a yield, that
the players an API can name are finitely many, that a fox has a model to load, that no
world is called `None`). `PartsAssumption` of `MCServer` and `MCClient` says which parts
there are. TLC evaluates each assumption in the runs. The bounds of counters are among the constants,
so the theorems hold however far they go.

- `InventoryProofs` holds no property of a run: it has the lemmas the others rest on.
  Induction over data is out of the prover's reach as a schema, but not as a fact about
  sets: `LeastNatural` gives every non-empty set of numbers a least one, `CountingUp`
  turns it into induction for a set that is named, and `PrimitiveRecursion` gives
  recursive functions their existence. With them: the sums (`SumIsNumber`,
  `SumWithChange`, `SumOfAppend`, `SumOfNoMore`), the n-th element of a set of numbers
  (`NthIsRanked`), what `Add` and `TakeFrom` keep (`AddKeepsInventory`,
  `TakeKeepsInventory`) and how they change what is counted (`AddingCounts`,
  `TakingCounts`), and that rows made from an inventory, and an inventory made from
  rows, are what they say (`RowsOfInventory`, `InventoryOfRows`). For their sake
  `Inventory` counts with a recursive function and takes rows by rank rather than with
  the folds of the library, which are declared `RECURSIVE` or take an operator.

- `CommandChannelProofs`. `ChannelInvariant`: the inductive invariant `ChannelInv` is
  `TypeOK`, `InOrder`, the bound of the buffer, and two facts about the threads: the
  command the game thread is blocked on is the last one accepted (`BlockedIsLast`), and
  a dead worker has nothing buffered and nothing in hand (`DeadWorkerHoldsNothing`).
  `Bounded` and `DispatchIsBarrier` follow from it and are not inductive alone: that a
  reply goes to the oldest unanswered command needs the buffer to be a run of
  consecutive ids ending in the newest, which is `InOrder`; that an answered blocking
  call leaves nothing unanswered needs it to be the last command; and that the death of
  the worker answers everything needs the unanswered commands to be exactly those in the
  buffer and in hand. From it follow `TypeCorrect`, `AnswersInOrder`, `ChannelBounded`,
  `Barrier`, and `ChannelImplementsService`: the initial state maps to the service's, a
  send to `Accept`, a reply to `Answer`, `WorkerExit` to `Close`, and every other step
  to a stutter. Of `DispatchReturns` everything but the scheduling is proved:
  `CallsAreServed` (a blocked call has its answer, or a live worker has its command, so
  the two threads never wait for each other) and `CallsAdvance` (while a call is blocked
  each step that does not end it leaves the worker less to do, counted by `Work`, or is
  the end of the worker, which answers all).

- `PersistenceProofs`. `StoreInvariant`: `StoreInv` takes the invariant of the channel
  over from `CommandChannelProofs` and adds the types, the ids given out so far
  (`IdentityInv`: the stored tokens are numbered without gaps), that every answer is the
  one its command may get (`AnswerInv`), that the table of a player is the prefix of one
  save's rows that its statements have reached (`PrefixInv`), that an acknowledged save
  is whole until a later one begins (`DoneInv`), and that a load answered saw the last
  save before it (`LoadInv`). `NeverMixed` alone is not inductive: an interrupted save
  must be known to be a prefix before the next one's DELETE. `LoadReturnsLastSave` rests
  on the order of the channel: between the last save of a player and the load behind it
  no statement touches the player's rows. From it follow `PersistenceTypes`,
  `SavesDoNotMix`, `SavesStay`, `LoadsSeeSaves`, `IdentitiesAreUnique` and
  `IdentitiesAreKept`. `PersistenceUsesChannel`: each step of the service is one of
  `CommandChannel`, leaves the channel alone, or is a restart (`ChannelUse`), so the
  statements refine the worker that has no content; `ChannelPromisesKept` draws the
  conclusion that order, bound, barrier and served calls hold inside the service.

- `GatheringProofs`. `DepletedNodesHaveTimer`: `NodeInv` adds to the property that the
  timers are numbers; the only writers are the collect and the respawn tick.
  `SequencesAdvance`: the action property from `PlayerInv` (which components a player
  has, and that its counters are numbers), action by action. `GatheringTypes` and
  `CollectsGainTheYield` (a node is depleted exactly when one player gains its whole
  yield) rest on what `Add` and `TakeFrom` keep and count: with an empty slot and a
  yield of at most a stack, nothing is left over. `RespawnIsNotPutOff` is what
  `NodesRespawn` needs besides ticks: the timer of a depleted node goes down with each
  tick and is set anew by nobody.

- `PipelineProofs`. `PipelineInvariant`: `PipelineInv` is `StoreInv`, `GatheringTypeOK`,
  `LoadAnswers` (a load's answer is rows), `Coordinator` (the pending operations have
  ids of their own and are saves that were sent, one of the player's present entity
  after that entity's load; and the polling loop has found answered only operations it
  has been at), `Entities` (entities and loads are counted), `Joining` (which command
  the join in progress waits for) and `NothingUnsaved`. The first two are the invariants
  of the parts, whose proofs are used, not repeated: every step of the server is a step
  of the service or leaves it alone, which `PipelineUsesService` states, and
  `ServicePromisesKept` draws the conclusion that loads, acknowledged saves, unmixed
  saves and identities are inside the server what they are alone. That operations know
  their entity is what makes `AcknowledgementsAreOwn` true across a reconnect;
  `Distinct` ids are what makes the `swap_remove`s of a polling loop remove the answered
  operations and no others, for a list of any length (`PendingAreTracked`).
  `NothingHeldUnsaved` and `PipelineTypes` follow, and `OperationsKeepTheirWorker`: no
  pending operation is one that nobody will answer, the part of `PendingDrains` that
  does not depend on scheduling.

- `WorldProofs`. `StandsStill` and `OneJump`: `SilenceInv` ties the ticks of silence to
  the elapsed time the server measures, `JumpInv` says that what was applied, what is on
  the wire and what the keys say are in the order in which the player made them, so that
  a lost release cannot make two jumps of one press. `UpdatesShowSight`:
  `VisibilityInv`, that what is cached as told is what the backend knows. `PlotsShown`:
  `PlotsInv`, that who has gone is shown nothing. `CollectedIsNotLost` and
  `ChecksumSeesNoOrder` share `GameInv`: the types, that no list has a key twice
  (`KeysUnique`), that the owner of a plot has an inventory (`OwnersJoined`), and that
  what is in the game is no less than what was reported, a sum over three lists whose
  every change the lemmas account for (`CarriedWith` to `FedToOneMore`). The unique keys
  are what the checksum needs: an entry's place among the sorted ones is the number of
  entries up to it, and `PlacesAreAll` shows by counting that distinct places below a
  number are all of them, so that the list turned around has the same entry at each
  place.

- `ServerProofs`. `SessionIsInv`: `SessionInv` is `SessionTypeOK`, `AnswersInv` (what a
  link has heard and will hear is at most one answer, and a pending link that has an
  answer coming has a queued command that settles it), `DeliveryInv` (the run that answers
  does not end before the senders are emptied, and a link that is a player's has its
  welcome, in the sender or heard), `CountInv` (bodies being spawned
  and hellos not yet visited are together no more than the pending sessions at the start
  of the run, and each body being spawned has its one queued join) and `MapInv` (the
  same for the map, through the despawn and join commands that are still queued).
  `Capacity` is not inductive without the count at the start of the run: that is the
  number the code compares, hello after hello. `AnswersFitSessions`, `NeverOverfull` and
  `MapIsTrue` follow.

  `AnswersStand`: `RecordsInv` says that a row is as it was answered, or as a write in
  doubt or the request in hand makes it, and that an executed write is in its table;
  `CertificateIsKept`: `CertInv` adds that a task for the certificate is one step whose
  failure counts, and that the step makes the certificate or finds a fresh one;
  `DiskKeeps` puts them together.

  `ServerStartsWhole`: `StartInv` says stage by stage what the start has left behind -
  a world that has been parsed is valid, and until `setup_world`, `spawn_resource_nodes`
  and `setup_server` have run, in whatever order, what each of them needs is there
  (`StartedSoFar`). Its part `NoBodies` is `CreaturesStayFrozen`: finding 5 is not an
  accident of one world or one order.

  `ServerIsSafe` is about the server as the run has it: `ServerIsItsParts` shows that a
  behaviour of `ServerSpec` is one of every part, since the parts share no variable, and
  then every invariant and action property of the run follows from the theorems about
  the parts, here and in `WorldProofs`.

- `ClientProofs`. `DashboardHonest`: that the feed is true (`FeedIsTrue`: the last event
  about a player says whether he was there at the last tick) is not inductive by what the
  feed holds, but by what a tick sends: `Explains` says that the events of a tick tell
  every difference to the tick before and nothing else (`TickExplains`),
  `ExplainedIsTrue` that such events make a true feed true again, and `LateIsTrue` that a
  feed whose oldest events were read or overwritten stays true. `NoSecondWaveOccurs`:
  `LoadingInv` adds `NothingForgotten` (what is done, being loaded and queued is the
  configuration's list, in order) and that there is no loader before its system has run;
  that the configuration's list has every typed asset is `ConfigHasAll`. `NothingStays`:
  the reset of a page that is hidden or shown makes up for every event the listener
  overwrote. `ClipsFit`: `FoxInv` has the fit fox by fox, and that only the own one is
  local. `ClientTypes` and `FallbackWaits`: in `ClientInv` the menu has no client entity
  (`NoneInMenu`), nothing is unread before it was asked for (`NothingUnread`), and while
  the first transport is not connected the age the code measures is no more than the
  time that really passed in this attempt (`StartIsKnown`): a start time left over from
  an earlier attempt would end a new one at once. `OutlineIsFocus`: the button with the
  outline is the one in focus; `HudInv` adds that a focus never names a button that is
  not there yet. `ClientIsSafe` puts them together for the run (`ClientPartsInv`), with
  no fairness assumed.

Only model-checked: what is under fairness (`DispatchReturns`, `NodesRespawn`,
`PendingDrains`, `DeadSessionBounces`, `DashboardCatchesUp`, `KeepsTrying`,
`LoadingSettles`, `ComesToRest`, and the liveness half of `ImplementsService`), since
the prover does not reason about `ENABLED`. Every invariant and every action property of
the passing runs is proved, and of the first three of these, what they rest on besides
the scheduling. The properties of the runs that find a violation are refuted, not proved.

## Not modelled, and the plan

Next to be proved: variants for the liveness properties of the client, as `Work` is one for
the channel: what a loading queue still owes its typed resources, and how far a dashboard
is behind.

Not modelled, and why:

- physics, steering, the arena and the vector mathematics: floating point, without a
  protocol; ground, sight and distance are left open where something depends on them;
- drawing, layout, themes, fonts, icons, and panels that only copy a resource into text
  (inventory, roster, version, status line): no state another part relies on;
- serialisation and delivery of messages: the networking library's; the modules
  state what they assume of it;
- the hourly certificate check (`systems/tls.rs:289-321`), which no schedule contains;
- the storage of the identity token and the derived client id (`connection/token_store.rs`,
  `client_id.rs`): read once and written once, by one process;
- the orderly shutdown of the persistence worker: the server leaks it;
- entry points, deployment scripts and infrastructure: no program of their own.
