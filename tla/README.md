# zinx-muduo in TLA+

zinx-muduo is a small C++ server framework (`zinx/`) on top of the muduo network
library, with an MMO game server built on it (`app_demo/mmo_game/`). This
directory holds TLA+ modules that model its core, TLC configurations that check
them on small instances, and proofs checked by TLAPS. `PROJECT.json` maps every
definition to the source lines it models and lists the hazards the properties are
aimed at.

## The system

| Part | State | Operations | Interacts with |
|---|---|---|---|
| Packets, decoders (`ZPacket*`, `ZDecoder*`) | the bytes of a packet | encode, `Decode` | the input buffer of a connection |
| Message loop, router (`Server.cpp`, `ZRouter.cpp`) | `decoder_`, `router_`, callbacks, `mapper_` | `HandleNewConnection`, `HandleOnMessage`, `RouteAndHandle`, `AddHandler` | called by the I/O loops; calls decoder and handlers |
| Server lifecycle (`Server.h`, `ZServer`) | `loop_`, `tcpServer_`, worker pool | construct, `ListenAndServe`, `Stop`, destroy | owns everything above |
| Configuration (`ZConfig`) | static fields with defaults | `InitConfig` | read by the constructors |
| AOI map (`AOI_Manager`) | constant matrix of grids | `GetGridByPosition`, `GetSudokuByPosition`, add, remove, read | grids |
| Grid | set of pids under a mutex | `AddNewPlayer`, `RemovePlayer`, `GetAllPlayers` | called from every I/O thread |
| WorldManager | `players_` under `rw_mutex_` | `AddPlayer`, `RemovePlayerByPid`, `GetPlayerByPid`, `GetAllPlayers`, `GetSurroundingPlayers` | map, players |
| Player | pid, connection, `pos_` | `SyncPid`, `SyncWithSurrounding`, `UpdatePos`, `HandleCrossedGrid`, `WorldChat`, `Disappear` | sends to the connections of other players |
| MMO callbacks, handlers | the pid as context of a connection | `initPlayer`, `destroyPlayer`, `MoveHandler`, `ChatHandler` | run in the loop of the connection |
| MMO `main` | `g_zinx_server`, `GlobalWorldManager` | set up, serve, take apart; SIGINT | server, world |
| AI client (`ai_client.cpp`) | per `Player`: pid, position, timer, promise; count of exits | connect, message loop, timed actions, exit | server; one loop, a thread per client |
| Echo example | none | echo a payload, ping every second | peer of the server |

What is hard here is concurrency. The server runs `io_thread_num` event loops
(three by default); each connection belongs to one of them, and its callbacks run
there. A callback works on state all threads share (the register of players, the
grids, the positions of other players) under three kinds of locks, and sends
packets to connections of other loops. Starting and stopping is concurrent too:
`main` takes the server apart while the I/O threads still run, and the threads of
the AI client destroy their `Player`s while a loop in another thread has timers
for them. Nothing in the repository tests any of this.

What makes the parts correct:

* world: a lookup of a pid found on the map never fails; the assertions hold;
  a player is on the grid of its position; a client is told its own pid first;
  once the server is idle, a client shows exactly the players around it; every
  callback returns; offline players are let go; chats reach everyone.
* map: nine grids around a position, clipped at the border; the grids that come
  into sight and go out of sight are the two differences of neighbourhoods.
* framing: the packets sent are the packets handled, in order, for every way to
  cut the byte stream.
* server: nothing serves before everything is set up; what the I/O threads use
  outlives them; a stopped server ends.
* configuration: a field that cannot be read keeps its default and disturbs no
  other.
* AI client: no timer works on a `Player` or a connection that is gone; every
  client exits, and then the program does.

## Modules

`AOI` is the geometry of the map: `GetRowIndex`, `GetColumnIndex`, `IsValidGrid`,
`GetGridByPosition`, `GetSudokuByPosition` and the counters of
`HandleCrossedGrid`, as operators. A grid is named by row and column, a position
keeps the coordinates X and Z.

`World` extends `AOI` with the shared state and the threads. Its steps are the
critical sections of the code: `AddPlayer` (under `rw_mutex_`), `AddPlayerToGrid`
(under the grid's mutex), `LeaveGrid`, `EnterGrid`, and so on. Where the code
holds `rw_mutex_` over several grid accesses, so does the model (`readers`,
`writer`): `LockShared`, one `ReadGrid` per grid, `UnlockShared`;
`RemovePlayerFromGrid` and `ErasePlayer`. `pc` is the place of a thread in the
code, `job` tells the parts apart that share a place: `sync` is
`SyncWithSurrounding`, `vanish` and `emerge` are the halves of
`HandleCrossedGrid`, `move`, `chat` and `close` the rest of `UpdatePos`,
`WorldChat` and `destroyPlayer`. `cur`, `from`, `to`, `toRead`, `snap`, `info` are
the locals of the callback. `client` is what each client has been told, `pending`
the functors queued in each loop.

`WorldInvariant` holds the inductive invariants `IndInv` and `NetworkInv`.
`AOIProofs` proves what is needed of the geometry, `WorldProofs` extends it with
the proofs about the register, the map and the locks, `WorldNetworkProofs` with
those about what is sent. `OneLoopInvariant` says what the screens show in every
state when there is one loop, `MeetingInvariant` what holds of two players with any
number of loops until somebody crosses to another grid; `OneLoopProofs` and
`MeetingProofs` prove it. `MCWorld` holds the constants of the instances.

`PacketChannel` is what a connection promises: a queue of packets, routed in
order. `Framing` is how the code keeps it: both packet formats byte by byte,
`HandleOnMessage` with its loop, `Decode` with its early returns,
`RouteAndHandle`. `Framing!ImplementsChannel` states the refinement: the queue is
the sequence of packets sent and not routed yet. `sent` and `start` are history:
the packets sent, and where in the stream of all bytes each of them starts. With
them `InStep` says what the connection holds, packet by packet, without a
recursion over the packets. `FramingInvariant` holds the inductive invariant,
`FramingProofs` the proofs, `MCFraming` the payloads.

`Config` is `GlobalConfig`: the defaults and `InitConfig`, one field per step. A
file is what the JSON parser makes of it. `Converts` says which values a field
takes, `Width` how many it has, `Converted` what it then holds.

`Server` extends `Config` with the life of the server process. `main` loads the
configuration, adds the parts of `Setup` to `alive` one at a time, serves, and
removes them in the order of `Destruction`, the reverse of `Members`. The I/O loops
(`io`) are reduced to which callback they are in; `Needs` says which parts that
callback uses. The world they work on is `World`'s, the bytes they decode are
`Framing`'s. `Sigint` can come between any two steps. `ServerInvariant` holds the
inductive invariants `LifeInv` and `ConfigInv`, `ServerProofs` the proofs, `MCServer`
the files.

`AiClient` extends `AOI`. `thread` is the place of each client's thread, `main`
that of the loop's thread; callbacks and timers are atomic because they run in one
loop. `timers` and `shutdowns` are the timers in the loop that call into a
`Player`, `timerId_` is the one the `Player` remembers. `Established` and
`ServeMove` are the server's side, reduced to the packets the client reacts to;
`NascentGrids` of `AOI` decides whether a move brings the player's own position
back, twice then, as `HandleCrossedGrid` does; `StrideAssumption` rules that out.
`AiClientInvariant` holds the inductive invariant, `AiClientProofs` the proofs,
`MCAiClient` the spawn positions.

### Abstractions and assumptions

* muduo is not part of the repository. From how this code uses it, and from what
  its documentation promises, the model takes: a connection stays in one loop;
  callbacks of a loop run one at a time; `Send` in the connection's own loop takes
  effect at once, from another thread it becomes a functor of that loop; a loop
  runs the functors it finds queued as one batch between callbacks; a connection
  that is down drops what is sent. These definitions are marked external.
* The bytes written on a connection reach the client in order. `client` is
  therefore updated at the write. The client's reaction (`Receive`) is taken from
  `msg_id.h`: an initial position shows a player, a move moves one that is shown,
  a leave removes one.
* Positions are on the map (`PositionsAssumption`). `MoveHandler` checks nothing;
  off the map only an `assert` protects the index into `worldMap_`.
* `GetPosition` returns a reference. While its owner assigns `pos_`, a reader gets
  old or new for each coordinate (`PositionsRead`).
* Snapshots are sets. A vector can hold a player twice when it changes grids
  between two grid reads; it then gets an idempotent packet twice.
* In one turn of a loop over a snapshot, the send to the other player, the read of
  its position and the send to the player itself are one step.
* A payload that does not parse is logged and dropped, which changes no state and
  is left out. Each request is a callback of its own; that several packets of one
  read are handled without a return to the loop is a special case.
* The destructor of `muduo::TcpServer` makes the I/O loops quit and joins their
  threads. A `Quit` before `Loop` may or may not be remembered (`Stop`). A call
  through a null `g_zinx_server` ends the process (`aborted`); through a dangling
  one it may or may not.
* Numbers in a configuration file are integers of either sign, and the conversion to
  the field keeps its low bits. The JSON library takes a boolean for a number where
  the field is a `uint16_t`, not where it is a `size_t`, its own unsigned type. A
  value with a fraction is left out: the library cuts it off and the same branch is
  taken. `io_thread_num` is a number of threads (`ThreadNumAssumption`): what muduo
  makes of a negative one is not part of the code.
* In `AiClient` robots start from `SpawnPositions` and move by at most `MaxStep`
  from there; the code has 160 to 190 by 240 to 270 on a map of 1000 by 1000, steps
  of at most 10 and grids of 20. The instance keeps the ratio of step to grid,
  which is what matters: two requests are at most one grid apart.
* The release build, the default of `build.sh`, compiles assertions out. What they
  assert is checked as an invariant (`AssertionsHold`, `RobotHasConnection`,
  `SyncPlayersNotEmpty`), with one exception: that a position is on the map, which
  `GetGridByPosition` asserts (`AOI_Manager.cpp:61`), is assumed
  (`PositionsAssumption`). `RequestsOnMap` shows it of the AI client's requests.
* `rw_mutex_` lets readers in while a writer waits, so a callback that took it shared
  twice would not be caught. None does: `GetAllPlayers` and `GetSurroundingPlayers`
  hold it and call `GetPlayerByPid` with `lock = false`.
* `Framing` assumes that the length of a packet fits the header field
  (`PayloadAssumption`); the code has a FIXME there.

## Runs

| Run | Instance | What it checks |
|---|---|---|
| `threads` | 2 threads, 2 players, strip of 3 grids, 2 moves, 1 chat, 1 logout | the safety of the world and the inductive invariants `IndInv` and `NetworkInv` in every interleaving |
| `one_loop` | 1 thread, 3 players, 4 by 2 grids, 3 moves, 1 chat, 1 logout | `NobodyMissing`, `NoGhosts`: the notification logic itself is right; the inductive invariant `ViewInv` |
| `no_crossing` | 2 threads, 3 players, 1 grid, 1 move, 1 logout | `NobodyMissing`: logins, logouts and moves inside a grid do each other no harm; the inductive invariant `MeetingInv` |
| `live` | 2 threads, 2 players, 2 grids, 1 move, 1 chat, 1 logout | `CallbacksReturn`, `OfflineReleased`, `ChatReachesAll` |
| `framing` | both formats, 3 packets, 3 ids (one unknown), payloads of 0, 1, 3 and 7 bytes, bytes of one bit | `InStep`, `NothingLeftWaiting`, the inductive invariant `FramingInv`, the refinement: `ImplementsChannel` (safety), `RoutesEverything` (liveness) |
| `server` | 6 by 6 contents of the two files (absent, broken, fields missing or of the wrong type, port 65537, a negative number, booleans), a `size_t` of 100 values, 0 to 3 I/O threads, 4 events, 2 SIGINTs | `FieldsIndependent`, `ReadyBeforeServing`, `ThreadsOutlived`, `StopEnds` and the inductive invariants `LifeInv` and `ConfigInv` |
| `ai_client` | 2 clients, 3 by 3 grids, 2 actions per robot | `RobotHasConnection`, `RequestsOnMap`, `LoopServesAll`, `AllExit` and the inductive invariant `ClientInv` |
| `torn` | 2 threads, 2 players, 1 move | a torn position reaches a client |
| `ghost_logout` | 2 threads, 2 players, 1 logout | a player logged out stays visible |
| `missed_crossing` | 2 threads, 2 players, 1 move | neighbours never see each other |
| `teardown` | 1 or 2 I/O threads, 2 events, 1 SIGINT | a callback uses a member that is destroyed |
| `stray_timer` | 2 clients | a timer is left for a `Player` that is destroyed |

The last five are expected to fail; each shows the code at odds with what a
comment of the code says (`findings` in `PROJECT.json`).

* `torn`: `Player::rwMutex_` is "for syncly access the field pos_", but
  `GetPosition` returns a reference and unlocks.
* `ghost_logout`: `Disappear` takes its snapshot, a player logs in and finds the
  leaving one on the grid, `RemovePlayerByPid` follows. Nobody tells the new
  client. Removing the player first would need the snapshot to be taken by
  position instead of by pid.
* `missed_crossing`: the player is between `old_gird.RemovePlayer` and
  `new_gird.AddNewPlayer` when another one, logging in, reads the grids; and the
  grids it then compares are not the ones the other one appeared in.
* `teardown`: `Server.h` says why `loop_` is declared first, but `router_`,
  `decoder_` and the callbacks are declared after `tcpServer_` and so are destroyed
  before it, while its I/O threads still call them. Declared before it, they would
  outlive the threads, as `ThreadsOutlived` shows for `loop_` and `tcpServer_`.
* `stray_timer`: the connection callback cancels the periodic timer, as the comment
  next to it says; the 15 s timer started right after it is not cancelled.

`NoGhosts` fails in another way as well: a login reads the grids, a player found
there moves out of sight and takes its leave, and only then is the announcement
sent to it. (Two threads, four grids in a row, one move.) And the comment on
`SyncWithSurrounding` (`Player.h:55`) speaks of all players where the code, and the
model, notify the surrounding ones.

Bounds. Two threads give every pair of code paths the chance to interleave; the
locks treat all threads alike. Two players are the two sides of every
notification; the third in the runs about views lets a bystander get it wrong.
Three grids in a row are the smallest strip whose ends are out of each other's
sight; with four, a jump over the strip replaces a whole neighbourhood, and with two
rows grids also touch at corners. The bounds on moves, chats and
logouts (`MaxMoves`, `MaxChats`, `MaxCloses`) only limit how many requests a
behaviour contains. Threads are interchangeable in `World` (`ThreadSymmetry`); the
symmetry is used for invariants only, never with liveness. With one-bit bytes a
length counts to 15, so the largest payload makes the largest packet that fits,
and the byte orders still differ. In `server`, four events are a connection that is
accepted, sends and closes with one event to spare for a second one; a callback in
one thread is all that the order of destruction can conflict with, and the second
SIGINT can meet the destroyed server. In `ai_client`, two clients are one that has
exited and one that keeps the loop running; two actions are a move there and a move
beyond, the longest distance between two requests.

Fairness. `Fairness` in `World` is weak fairness of each thread's next step: the
kernel runs every thread that is not blocked. Weak fairness is enough because
reader/writer preference does not matter with finitely many requests; no step of
the clients is fair. In `Framing`, the loop polls a readable connection again and
again and runs its callback; the peer is never forced to send. In `Server`, `main`
and each I/O thread are weakly fair; signals, connections and packets are not
(`StopEnds` starts from a signal that has come). In `AiClient`, threads and loop
are; so are the server's accepting of a connection and closing of one that the
client has shut down, the arrival of packets, and the expiry of the shutdown timer.
Without a server that answers, the code waits for ever: it has no timeout for it.

`CHECK_DEADLOCK FALSE` appears only in `framing`: after the last packet, or when
the connection is down, nothing is left to happen. In `World` an idle server is
`Polling`, so that any other state without a step is reported; so it is in `Server`.
In `AiClient` a loop may always sit in poll, and it is `AllExit` that forbids a
client that hangs.

## Proofs

Each theorem holds for every value of the constants that meets the ASSUMEs of its
modules; the run of the same property shows it on an instance. Every inductive
invariant is an invariant of a run as well.

### The world

`WorldProofs`, for every number of threads, players and requests, every size of the
map and every set of positions on it:

* `TypeCorrect`, `MapAlwaysRegistered`, `LookupsAlwaysSucceed`,
  `AssertionsAlwaysHold`, `AlwaysInPlace`: the properties of run `threads` of the
  corresponding names;
* `Invariance`: the inductive invariant `IndInv` they follow from.

None of the properties is inductive by itself. That `players_.at(pid)` succeeds
needs that the snapshot was read under the lock still held (`Snapshots`,
`Locking`), that whoever is on the map is registered, and that this stays so in
the steps between, which depends on how far the callback for that pid has come.
`IndInv` says it the other way round: the control state determines the data. A
thread works for a player of its own loop (`Control`), so no two threads work for
the same one; for each player, `Whereabouts` says from the place of that one
thread whether the player is registered, whether it is on the map and in which
grid. Each conjunct has a lemma that every step preserves it, with one case per
action or group of actions that leave its variables alone; the lemmas on `Receive`,
`SendNow` and `SendLater` say what is needed of sending.

`WorldNetworkProofs`, under the same assumptions: `PidComesFirst` (`SyncPidFirst`)
and `SyncPlayersNeverEmpty` (`SyncPlayersNotEmpty`), from `NetworkInv`
(`NetworkInvariance`). The player is on the map before `SyncPid` runs, so another
thread may already send to it. That this cannot overtake the pid rests on two
facts: what another thread sends waits as a functor in the loop of the receiver
(`QueuedInLoop`), and that loop is still in `initPlayer`, short of `SyncPid`, as long
as the client does not know its pid (`PidAnnounced`). That SYNC_PLAYERS is not empty
rests on the new player finding itself (`FindsItself`): its own grid is still to be
read, or it is in the snapshot, or its position is noted. Both use `IndInv` for
where the player is.

`OneLoopProofs`, for one event loop (`OneLoop`: any two threads are the same; this is
the server with `io_thread_num` 0 or 1), any number of players and requests and every
map: `OneLoopNobodyMissing` (`NobodyMissing`) and `OneLoopNoGhosts` (`NoGhosts`), from
`ViewInv` (`OneLoopViews`). The two together are the promise of the game: between two
callbacks every client shows exactly the players around its own, where they are. They
say nothing of the states inside a callback, where half of the packets are sent, so
they are far from inductive. `ViewInv` adds those states. Players no callback works
for are right on each other's screens (`Settled`). For the player the loop works for,
one conjunct per callback tells, from the place in the code, who has been told:
`Entering` and `Syncing` for `initPlayer`, `Playing` for `UpdatePos` and `WorldChat`,
`Closing` for `destroyPlayer`. `Mutual` is the heart of it. From the step that assigns
`pos_` until `HandleCrossedGrid` comes to a player, that player and the moving one see
each other exactly if they did before the move; afterwards, exactly if they are close
now. A loop over a snapshot has told those who are around and no longer in `snap`, so
the proof needs that the snapshot is exact (`Exact`, with `IndInv` for who is on which
grid: `AroundIs`). The facts about the map are `SightIsMutual` (one loop writes both
screens but looks only from one side), `CrossingDifference` (the two halves of
`HandleCrossedGrid` are the two differences of neighbourhoods), `SudokuOfGrid` (a move
inside a grid changes no neighbourhood) and `SudokuHasCentre`. There is one lemma per
action or group of alike actions; `PosShown`, `MoveShown`, `LeaveShown` and `TalkShown`
say what a packet changes on a screen, `OthersSettled` that nothing else changes,
`BackInLoop` that a callback may return.

`MeetingProofs`, for any number of event loops, players and requests and every map:
`NobodyMissingWhileStaying`, `Spec /\ []Staying => []NobodyMissing`. `Staying` says
that no thread is taking a player to another grid, so this holds up to the first
crossing of every behaviour, and `missed_crossing` shows that the hypothesis is needed.
`AlwaysStaying` and `OneGridNobodyMissing` add that it is met when all positions asked
for are in the grid where players start (`NoCrossing`), as in run `no_crossing`. With
several loops there is no state in which all is right but one callback: packets of
other threads wait, and several callbacks work on the same two screens. `MeetingInv`
(`MeetingInvariance`) therefore looks at one pair of players at a time (`Meeting`):

* Two threads may add players at once, and a snapshot misses whoever is not on the
  map yet. But who is missed has still to look around itself (`MissedArrives`,
  `StillToMeet`), so of two players at least one finds the other. Until it does,
  nothing about the later one is queued for the earlier one.
* Once both have looked (`Met`), the other is shown, or the first packet queued about
  it is the POS that makes it appear (`FirstIsPos`): a MOVE never comes before it and
  so is never dropped.
* Unless the other has assigned a position it has still to tell (`StillToTell`), the
  last packet queued about it has its position (`LastIsCurrent`), and without a packet
  the screen has. Only the other's own loop sends these packets, so they are queued
  in the order of its positions. A packet is queued for other loops only
  (`FromElsewhere`): a direct write never overtakes one about the same player.
* While `initPlayer` collects positions for SYNC_PLAYERS, which is sent last and from
  stale reads, what it has noted counts as shown (`Shown`). That no packet is
  overwritten rests on the loop being inside the callback, so that functors run after
  it; a position read torn or too early is one whose owner is still to tell
  (`PositionsReadRight`).

The proof has two general lemmas: `PairKept`, what a step has to respect so that a
pair it sends nothing about stays right (`LooksOn`, `SeenBy`), and `SendStep`, which
leaves of a step of a loop over a snapshot only the pair it is about. `QueueGrown`,
`QueueEnd` and `ShiftedQueue` say what sending and running a functor do to a queue.
`UnseenStep` is the strengthening that made it inductive: a player that is not on the
map is in no snapshot but the one of `WorldChat`.

`AOIProofs` has the lemmas on the map (`GridOnMap`, `SudokuType`,
`CrossingDifference`, `NearIndices` on the rounding of quotients) and two theorems about it:
`SightIsMutual`, that of two positions on the map either both are in each other's
neighbourhood or neither is, clipping at the border included; and
`ShortMovesStayInSight`, that a move over at most a grid's size does not bring the
mover's own grid newly into sight.

### Framing

`FramingProofs`, for bytes of any number of values, every set of ids and of payloads
that fit the length field, any number of packets, both formats and every way to cut
the stream:

* `TypeCorrect`, `AlwaysInStep` (`InStep`), `NothingEverLeftWaiting`
  (`NothingLeftWaiting`), from `FramingInv` (`FramingInvariance`);
* `ChannelImplemented`: `Spec => ImplementsChannel`, the refinement of
  `PacketChannel`. `SendRefines`, `HandleRefines` and `OthersRefine` map the steps:
  `Send` to `Send`, `HandlePacket` to `Route`, `Close` to `Close`, the others to
  stuttering.

The argument has three layers. `FourDigits` and `FourDigitsReversed`: the four bytes
of a number below the fourth power of `Radix` have its value in either order.
`RoundTrip`: a packet that is encoded decodes to itself, in both formats. `Decodes`:
when the stream is in step, a buffer with a header gives away the length of the
next packet, and a complete one is exactly that packet. So the step that takes a
packet off keeps the stream in step, which is why `InStep` is provable only together
with itself: the decoder is right about a packet because it was right about all
packets before. `Consecutive` adds that the starts of packets grow by the lengths of
their encodings, `RoutedSent` that no packet is routed that was not sent,
`LessThanAPacket` that the loop in `HandleOnMessage` is left only when less than a
packet is in the buffer.

### Server and configuration

`ServerProofs`, for every set of configuration files, every number of I/O threads,
events and signals: `AlwaysReady` (`ReadyBeforeServing`), `AlwaysOutlived`
(`ThreadsOutlived`), `FieldsAlwaysIndependent` (`FieldsIndependent`) and `TypeCorrect`.

Neither of the first two says anything about how `main` got where it is; `LifeInv`
(`LifeInvariance`) adds it: during the set-up no I/O thread runs and the parts before
`step` exist; while `main` serves all parts exist; during the destruction the ground
the threads stand on exists up to the step that destroys `tcpServer_`, and after it
no thread does. The proof has a case per step of `main`; the steps of the I/O loops
share the lemma `IoKeeps`, SIGINT needs `Unaffected`. `ConfigInv`
(`ConfigInvariance`) says the same of the loading: the fields before `field` have the
value `ReadValue` gives them, the others their default. `LowBits` identifies the
number a field of some width holds with the remainder of the number in the file;
`Residue` proves that for every integer and every modulus.

### AI client

`AiClientProofs`, for any number of clients that `exited_client_num` can count, any map
and any number of actions: `TypeCorrect`, `RobotAlwaysConnected`
(`RobotHasConnection`), `RequestsAlwaysOnMap` (`RequestsOnMap`) and
`LoopAlwaysServesAll` (`LoopServesAll`), from `ClientInv` (`ClientInvariance`).

The connection callback cancels one timer, so the proof has to show that a robot is
started once. `Progress` follows a client through its life: it waits for its pid with
its position right behind it, then for its position, then it plays and never hears
of itself again. The last part is where the map comes in: a robot moves by at most
`MaxStep` from where it started, so two of its requests are at most `2 * MaxStep`
apart, which `StrideAssumption` bounds by the size of a grid, and
`ShortMovesStayInSight` applies. `ExitsCounted` says that `exited_client_num` is the
number of threads past `fetch_add`; when the loop is told to quit these are all.

### Assumptions

* `AOI`, `World`: sizes and bounds are natural numbers, positions are on the map, the
  markers (`NoThread`, `NoPos`) are not values.
* `Framing`: a byte has at least two values, ids fit a `uint32_t`
  (`FormatAssumption`), and so does header plus payload (`PayloadAssumption`).
* `AiClient`: a robot's steps are short compared to a grid (`StrideAssumption`: 10
  and 20 in the code) and stay on the map, and there are fewer than 2^16 clients
  (`CounterAssumption`: the width of `exited_client_num`, 1 client in the code).
* `Config`: a file holds nothing, texts, integers or booleans and a `size_t` has at
  least one value (`ConfigAssumption`, which says what the constants are), and
  `io_thread_num` is a number of threads (`ThreadNumAssumption`).
* `Server`: those of `Config`, and the bounds are natural numbers (`BoundsAssumption`).
* `OneLoopProofs`: those of `World`, and `OneLoop` as the hypothesis of its theorems (the
  default configuration has three loops, for which `NoGhosts` is false).
* `MeetingProofs`: those of `World`, and `[]Staying` or `NoCrossing` as the hypothesis of
  its theorems on `NobodyMissing`, which is false with crossings and several loops.

### Only model-checked

* Liveness: `CallbacksReturn`, `OfflineReleased`, `ChatReachesAll`, `RoutesEverything`,
  `StopEnds`, `AllExit`. Fairness and ENABLED are out of the prover's reach.

Every invariant of a passing run is a theorem too. Two of them need hypotheses, because
with several loops they are false in general: `NobodyMissing` (`missed_crossing`) is
proved for one loop and for several without crossings, `NoGhosts` (`ghost_logout`) for
one loop.

## Not modelled

* Worker pool: built and destroyed with the server, but the code never gives it a
  task; its queue and its threads would be a model of muduo.
* Echo example: its handler echoes and logs, its client sends a packet every second;
  neither keeps state. Its packet format and decoder are in `Framing`.
* The random engines (`util.cpp:16`, `ai_client.cpp:135`): a draw is any value of its
  range.
* Packets that do not parse as protobuf messages: the handlers and the AI client log
  and drop them or, for the pid, shut down; the server sends no such packet.
* protobuf (generated) and muduo (external) beyond the assumptions above; logging.

## Plan

1. `AOI`, `World`, their runs, `WorldProofs` for the safety invariants: done.
2. `PacketChannel`, `Framing`, the refinement by TLC: done.
3. `Config`, `Server`, `AiClient` and their runs: done.
4. Theorems on the network, the map, framing and its refinement, the configuration
   and the AI client, and on what clients see with one loop: done.
5. `NobodyMissing` for any number of loops without crossings as a theorem: done.
