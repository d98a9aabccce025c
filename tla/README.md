# ExtendedVeh: models, checks and proofs

ExtendedVeh adds vehicle models to GTA San Andreas multiplayer: a component of
an open.mp server (`src/Server/src`) keeps custom vehicles and handling data, an
ASI plugin in the game (`src/Client`) receives them. This directory holds TLA+
modules for the two programs, TLC configurations that check them, and TLAPS
proofs about them.

Contents: 1 the system, 2 the modules and the code, 3 the runs, 4 the
properties, 5 fairness, 6 the proofs, 7 what the code does not do as its
comments say, 8 what is not modelled, 9 the plan.

## 1. The system

### Server (one thread: packets, natives and `onTick` never overlap)

| Component | State | Operations |
|---|---|---|
| Player session (`extendedveh.cpp`, `Actions.cpp`, `PlayerAttrs.h`) | `gPlayers[id]`: hasExtendedVeh, debug flag | `onIncomingConnection`, `onPlayerConnect`, `onPlayerDisconnect`, `onPlayerSpawn`, `ACTION_INIT` |
| Transfer manager (`ModelTransferManager.cpp`) | `g_cache`, the deque `g_activeTransfers`, `g_clientFileStatus` | `OnRequestFile`, `CancelTransfer`, `CancelTransfersForModel`, `OnPlayerDisconnect`, `InvalidateCache`, `ProcessTick` |
| Definitions (`HandlingManager.cpp`, from `UnregisterCustomVehicle` on) | staged and committed definitions, configurations, handling of custom models | `BeginCustomVehicleDef` ... `CommitCustomVehicleDef`, `LoadConfig`, the natives that change a definition, `OnPlayerAuthorized` |
| Bindings (`CustomVehicleBindingRegistry.h`, `CustomVehicleTransport.cpp`, `Natives.h`, `extendedveh.cpp`) | for each vehicle id its model and seventeen attributes | `Bind`, `Unbind`, a native per attribute, component, paintjob and spawn events, the full state on stream-in |
| Handling (`HandlingManager.cpp`, `CHandlingStore.hpp`) | modifications per model, vehicle and player, doors, queues of what to send | setters, resets, `ProcessTick`, `OnVehicleStreamIn`, `OnDestroyVehicle` |
| Parser of `model.ini` (`ModelConfigParser.cpp`) | the configuration being read | one step per line |

### Client (main thread, network thread, transfer worker)

| Component | State | Operations |
|---|---|---|
| Transfers (`ModelTransferClient.cpp`) | `m_active`: one `InFlight` per file, under `m_mutex` | main thread: `RequestFile`, `ManualRetry`; network thread: `OnTransferBegin/Chunk/End/Cancel`, `CancelAll`; worker thread: `WorkerMain` |
| Main thread queue (`MainThreadQueue.h`) | tasks | `Push` from any thread, `DrainOnMainThread` once per frame |
| Cache (`ModelCache.cpp`) | records in memory; files and manifest on disk | `TryGet`, `Store`, `Invalidate`, `Sweep`, `LoadManifest`, `SaveManifest` |
| Loading (`Plugin.cpp`, `streamingextender.hpp`) | jobs, their queues, active ids, created models | `HandleCustomVehicleDef`, one `Process...` phase per queue and frame, `FinalizeCustomVehicle`, clear-all |
| Bindings (`CustomVehicleBindingManager.cpp`) | `m_bindings`, maps by address, use counts, what was put on each vehicle | `Bind`, `Unbind`, `Process`, a setter per attribute, `OnVehicleFixed`, `FindByVehicle` |
| Handling (`handling_manager.cpp`) | handling blocks, pending attributes, doors, flying state, handshake | `ProcessAction`, `OnVehicleStreamIn`, `Apply/RemovePlayerHandling`, resets |
| Hooks and extenders | the game's memory | patches |

### How they interact

The client sends `ACTION_INIT`; an authorized player gets the handling and the
definitions of all custom vehicles. A definition names files and their hashes;
the client's loading asks the cache, then the transfers, for one file after the
other (`RequestFile` with a callback `onReady`), and creates the model when the
player has spawned. A file that is not in the cache is requested
(`ASSET_REQUEST`); the server answers with `BEGIN`, chunks over several ticks,
and `END`, or with `CANCEL`, or not at all (limit reached, file vanished).

A vehicle that is bound to a model, and its attributes, are broadcast to the
authorized players and sent as a whole to a player to whom the vehicle streams
in. The client's binding manager finds the game's vehicle of the id each frame,
gives it a clone of the model's clump and dresses it; its handling manager
points the game's vehicle at the block of the vehicle, its model or its driver.

### What is hard

* the client's threads interleave between the sections under a mutex: the end
  of a transfer, the phases of a frame that swap a queue and work on the copy,
  tasks whose subject is another one when they run;
* packets of an attempt, a session or a vehicle that is over arrive during the
  next; ids of players and vehicles and addresses of the game are reused;
* the server's silent paths: recovery is the client's timeout;
* `ProcessTick` moves transfers through three deques under a shared budget;
* the same fact is kept in several places (registry, packets under way, binding,
  clump; staged and committed definition; records, manifest, files), and each
  operation has to write all of them in an order that survives the others;
* three sources of handling and four of plate text replace each other;
* a crash between two writes to disk.

`PROJECT.json` lists these as hazards at the lines where they bite.

## 2. The modules and the code

| Module | What it is |
|---|---|
| `ServerTransfers` | the server's transfer manager and who may call it |
| `ChunkStreams` | what it promises on a player's channel, without deques, cache or budget |
| `ClientTransfers`, `ClientAlone` | the client's transfers; the same with an arbitrary server |
| `AssetTransfer` | `ClientTransfers` with `ServerTransfers` for one player and the channels |
| `Session` | the handshake on both sides and what depends on it |
| `ModelCache` | the client's cache on disk, with crashes |
| `ModelDefinitions` | the server's definitions and what it tells a player of them |
| `ModelLoad` | `ModelDefinitions` with the client that loads the models |
| `ModelConfig` | the parser of `model.ini` |
| `VehicleAttributes` | bindings and attributes on both sides |
| `VehicleVisuals` | bindings, the game's vehicles, use counts and model destruction on a client |
| `VehicleAppearance` | what a vehicle wears on a client |
| `HandlingSync` | handling and doors on both sides |
| `...Proofs` | theorems about `ServerTransfers`, `ClientAlone` and `AssetTransfer`, `Session`, `ModelCache`, `ModelLoad`, `VehicleVisuals`, `VehicleAppearance` and `VehicleAttributes`, `HandlingSync` and `ModelConfig` |
| `MC...` | constants of the configurations |

**Data.** A file is a (model, kind) pair; its bytes are a *version*
(`Contents`) with a compressed size. `NoContent` is no file, `Garbage` are bytes
that belong to no version. The hash of a file identifies its version, so "the
hash matches" is equality of versions (a collision of SHA-256 is left out).

**ServerTransfers.** One action per handler; `Without` is the erase/remove_if of
the deque. Because the server has one thread, `~ticking` guards the handlers:
`ProcessTick` is `TickBegin` (the swap), one `TickTransfer` per deque entry (one
of `DropTransfer`, `DeferTransfer`, `PumpTransfer`) and `TickEnd` (the insert).
The steps in between are where the state is spread over `currentBatch` and
`remainingTransfers`, and where a file may change on disk. `cache` is filled by
`GetOrLoadCache` when a transfer is looked at, before its budget is, as in the
code. `ChunkMsg` models the unsigned subtraction `remaining`: with an offset
beyond the buffer it wraps and a full chunk of foreign bytes is sent.
`OnRequestFile` has the guard that `ACTION_ASSET_REQUEST` tests before the call;
the other packet does not test it. `out` is what the step sent.

**ClientTransfers.** An entry keeps the status text (as one of six values: the
worker compares texts, so they are control state), `failed`, `attempts`, whether
`nextRetryTime` is set (`armed`), the announced version, buffer, bitmap and byte
count. One action is one section under the mutex: `OnTransferEndTake` and
`OnTransferEndFinish` are two, `WorkerScan` decides and `WorkerPush` queues.
The network thread handles one packet at a time, hence `receiving = None` in its
other actions. `MainThreadQueue` is a sequence of tasks; `RunTask` runs the
first. Time is abstracted: `Visited(e, late)` is what the worker does with an
entry, and `late` is chosen freely. `asked` is a history variable. `Store`
may fail, so `OnTransferEndFinish` may go either way after a good hash; that
choice also covers the second size check of `OnTransferEnd`.

**AssetTransfer.** Each step of one side appends what it sent to the channel.
The channels are RakNet's reliable ordered ones: FIFO without loss until the
connection is lost, when a prefix of what was in flight arrives and the client
learns of the loss. The packets of a transfer and `CUSTOM_VEHICLE_DESTROY` share
a channel by default.

**Session.** One player. Server: the two flags of `gPlayers[id]`, the store of
model handling and its queue; client: `m_initSent`, `m_isServerAuthorized`, the
handling it drives with, its debug mode. `PlayerConnect` is
`onIncomingConnection`, `onPlayerConnect` and the scripts' `OnPlayerConnect`,
`ReceiveInit` the case `ACTION_INIT` of `Actions::Process` with all that it
sends, `Receive` one packet or RPC on the client with one handler per type.
`HandshakeCheck`, `HandshakeReset`, `HandshakeSend` are the three steps of the
main thread's handshake (the timer of 1.5 s, class selection and spawn, the end
of `InitializeHooks`): an answer may come between them. `ResetInitState` stores
two flags one after the other; that is one step here. `asked` and `disturbed`
are history variables. What is outside the repository is assumed: packets of a
client without an `IPlayer` are dropped; a client is accepted only after the
server has dropped the player it was before; the game sends `RPC_InitGame` at
the join and `RPC_GameModeRestart` to players that stay (the component's
`reset()` is empty, so this step changes nothing on the server). Which thread the
callbacks run on and whether RPCs share an order with packets depends on the
client's build and the game's: `NetworkThread` and `RpcsOvertake` are
parameters, and the theorems hold for all their values. `ScriptsFirst` says who
sees a new player first.

**ModelCache.** An operation holds the mutex throughout, so it decides at once;
what it then does on disk is the sequence `work`, one step per system call that
a crash can separate: remove, begin a file (which is torn from then on), finish
it, tear the manifest, write it. `Crash` may come between any two. `TryGet` is
`Hit`: by the record, else by the file and its hash, which repairs the record.
`Start` and `Connect` read a manifest and sweep as the code does, which it does
for `Home` only. `kept` and `dropped` are history variables.

**ModelDefinitions.** The several dozen fields of a definition are grouped by
which native writes them together and what the client does with them. A native
is one action, with its writes to the staged and the committed copy, to the
runtime handling and with its packets. `directory` and `ini` are what scripts
and the disk offer. **ModelLoad** extends it with the client. The network thread
runs `Receive...`, the answers and the RPCs; the main thread runs frames, in
which `pc` goes through the tasks and the phases of `OnGameProcess`: a phase is
the swap of its queue and one step per item. A transfer is what it comes to: an
entry that is requested, sent, answered, refused or failed, and the callbacks
each of these makes on whichever thread. A phase with nothing to do takes no
step. `RPC_Spawn` runs the phases from inside its task, hence `spawnRun`. A job
has one counter of sounds; so a COL or a sound that is cancelled or fails, and is
answered twice, is left out (`LoadAssumption`). GTA's slots do not run out.

**ModelConfig.** A line is a header or a key with a value, where a value is what
the parsers of values make of it. Most keys write one or two fields when the
value is in range: these are tables. `[handling]`, parts, colours and plates
have definitions of their own, since they depend on the lines before. Floats are
hundredths; only integers and characters of the handling occur.

**VehicleAttributes.** `attr[v][a]` is a `VehicleCustomState` with its `has...`
flags (`Unset` where the flag is off). Seventeen attributes are kept apart because
each has its own answer to three questions: what Bind and Unbind do to it, what a
stream-in sends of it, what the client falls back to. Values are two; the
fields that a packet carries beside are left out. `RegistryBind` and
`RegistryUnbind` are `Bind` and `Unbind` of the server's registry, `bindings` the
client's `m_bindings`, `mainQueue` its queue of Binds and Unbinds, which `Carried`
works off. Knobs name what the natives do not document: `Rebinding`,
`DuringUnbind`, `BindFirst`.

**VehicleVisuals.** The game's vehicles are addresses. A frame is `BeginFrame`
(the swap of the tasks), one `RunTask` each, `ClearAndFinalize`, `Process` and
`EndFrame` (vehicles that came and went, destructions); packets may be handled
between these when `NetworkThread`. SA-MP creates and deletes vehicles and moves
the player between frames. `FindByVehicle` is called by the game's hooks at any
time, and writes the maps. `ClearAndFinalize` and `Process` are one step each:
they hold a lock or have no step another thread sees. `SameFrame` and
`DeletedFar` name what SA-MP may or may not do within a frame.

**VehicleAppearance.** One vehicle, one model, one plate; when the vehicle shows
the model at all is VehicleVisuals' business. Handlers and frames hold
`m_mutex`, so each is one action. Five kinds of materials stand for all, told
apart by what the code tests (texture, its name, marker colour, alpha). A clone
has materials of its own, as `RpClumpClone` and the plugin's
`SetEditableMaterials` are taken to make them; a wheel comes in its own colour;
the model is ready. `PlateLine` is the choice between a vehicle's own text,
SA-MP's, the model's and "SAN ANDREAS". `SameFrame`, `Flicker` and a difference
between `Recognised` and `Found` are knobs; the run has them off, and section 7
says what each shows.

**HandlingSync.** Two attributes stand for all: the mass for those in the
handling data, and the flag IS_PLANE, which the client turns into the flying
state and strips. Blocks of data are `own[v]` and `model[m]`; `pointer[v]` says
which one the game's vehicle uses, and `Driven(v)` what it drives with: `Junk`
when the block was freed. Doors are one per vehicle. `strayed` (the vehicles
that were left pointing at a block which nobody will lead them away from: an
Unbind, or a model's block under a vehicle that also has the player's, section
7), `apart` (a client that ResetAllHandling reset alone) and `born` (the ids that
vehicles were ever given) are history variables; `IdReuse`, `RidesToTheEnd`,
`SameFrame` and `EarlyPlayer` knobs.

## 3. The runs

| Run | Bounds | Shows |
|---|---|---|
| `server` | 1 player, 3 files of 2 models, versions of 1 and 2 chunks, 1 chunk per tick, limit 2 | order, budget and limit of the queue; refinement of `ChunkStreams`; every transfer ends |
| `client_alone` | 1 file, 2 versions, 5 arbitrary packets, 2 attempts, 1 manual retry | the client's own guarantees against any server |
| `asset` | 1 file of 2 chunks, 2 requests, 1 attempt, 1 loss or vanished file or destruction | stale packets never complete an attempt; downloads end |
| `session` | 2 sessions, 1 model, 2 natives, 1 restart, clients of the server's and an older version, callbacks on their own thread, RPCs that overtake | authorization is never only believed and comes in the end; what waits for it is delivered |
| `vehicle_attributes` | 1 vehicle id, 2 models, 2 bindings or unbindings, one of 17 attributes set by a native, one paintjob or wheel from a shop or from open.mp, 2 stream-ins, spawns or rejoins, 2 packets under way | the client ends with what the getters say, and keeps nothing of a vehicle that is gone |
| `visuals` | 2 ids that share an address, 2 models, 1 waiting task, packets during the frame | bindings, maps, use counts and clumps agree; a bound vehicle is shown in the end |
| `handling_sync` | 1 vehicle, the game's model and one custom, 2 natives, 1 ride, 3 stream events | the client drives as the server has it, and never with freed data |
| `model_delivery` | 1 model with all kinds of files, 2 natives, 2 packets under way, 2 jobs, 1 restart, 1 loss, 1 failing file | what is defined is loaded, once, with its sounds and its configuration |
| `model_config` | all files of 3 keyed lines out of 33 | the configuration follows the file, whatever the order of lines |
| `model_cache` | 2 files, 2 contents, 2 servers, 3 requests, 3 runs of the game, a crash anywhere, 1 failed write, 1 unusable file | the cache gives out what was asked for and finds again what it stored |
| `appearance` | 1 vehicle, 2 colours, 3 paintjobs (2 with a texture), 2 plate texts, 1 of each other part, 3 settings | no coat undoes another; the periodic check comes to rest |
| `visuals_reset` | as `visuals` | section 7 |

Why the bounds are enough.

*server*. What a transfer meets in a tick is another transfer of its player
before or behind it, and a budget that ends inside it, at its end, or before it;
versions of one and two chunks and a budget of one give all of these. Three files
and a limit of two let a request be refused, and then be taken when a transfer
has ended. Players meet only in the deque's order, and the theorems of section 6
hold for any number of them. The length of behaviours is not bounded: requests,
replacements and reconnections go on for ever.

*client_alone, asset*. Entries of different files share no state but the queue
and the worker's pass, so one file shows all that an entry can do. Five packets
are BEGIN, two chunks, END and one too many, in every order and with duplicates,
and BEGINs of both versions. A second request or the automatic retry puts the
packets of up to three attempts on the channel.

*session*. Two sessions, so that what the first leaves behind meets the second;
two natives, enough for set and reset around one tick. `MaxInFlight` bounds the
packets under way when a periodic handshake starts: in 1.5 s they have arrived,
and answers are not bounded by it.

*vehicle_attributes*. The two models let a rebinding leave something of the
first. One setting of any attribute, and one of a paintjob or a wheel past the
registry, come in any order with two of Bind and Unbind, with destruction and
creation of the id (unbounded) and with two full states. Attributes do not read
each other: what an attribute can get wrong it gets wrong alone, or, for the
paintjob and the wheel, against open.mp's.

*visuals*. An address that a second id takes over, and two models between which
a vehicle changes, are what the maps by address and the use counts can get
wrong; a third of either repeats it. Nothing bounds the number of bindings,
creations or frames. `ModelSymmetry` permutes models, of which every conjunct of
the properties and of the fairness condition speaks alike, so that it keeps the
liveness property's truth; the run without it passes as well.

*handling_sync*. Two calls are two sources of handling that meet, or a
modification and its reset; three stream events are a vehicle that comes, goes
and comes. *model_delivery*. Two calls after the first definition change it
once under way and once when it is loaded, or destroy and define it again, whose
second job meets the first's files. *model_config*. Every rule of the parser
relates at most three lines: a base, a value before it and one behind it.
*model_cache*. Three runs are a crash, a start that repairs what it left, and a
start that reads what the repair wrote. *appearance*. Three settings are two
coats and one that returns to the first; frames, repairs and streaming between
them are not bounded.

`CHECK_DEADLOCK FALSE` stands in most runs: an environment that has used up its
bounds (requests, packets, sessions, natives, runs of the game), a download that
is over or a file that is read leave nothing to do. The server's run checks for
deadlock, as its ticks never end, and so does `appearance`, whose frames never do.

## 4. The properties

Each is stated in words in its module; `TypeOK` of every module documents its
types, and `server` and `visuals` check theirs.

*server.* `OneTransferPerFile`, `TransferLimit`, `FirstComeFirstServed` (a
player's files are never interleaved), `QueueIsLive` (a queued transfer has a
chunk left and an owner), `WorkConserving` (nobody is put back with budget
left), `ImplementsStreams` (refinement: `Queue`, the three deques in the order
they are served, is mapped to one stream per player and file), `TransfersEnd`.

*client_alone.* `StoreIntegrity` (only whole versions are cached, even when the
server sends foreign bytes), `SendBudget` (at most two requests per attempt),
`Watched` (no download without a retry or a timeout, except in the states that
section 7 names).

*asset.* `CompleteAtEnd` (an END never meets a half-filled buffer: drop of stale
chunks, clearing at a retry and channel order together), `Settles` (every download
ends).

*session.* `BelievesRightly` (whatever is late, repeated or lost, the client's
flag implies the server's), `Delivered` (an authorized client at rest drives with
the server's handling, unless its session was disturbed as section 7 says, and
has the debug mode asked for, also before the handshake), `EventuallyAuthorized`
(an early handshake is repeated, a repeated one is answered).

*vehicle_attributes.* `AttributesAgree` compares a client at rest with the
getters, attribute by attribute, after any order of natives, broadcasts, full
states and their delayed Bind; its comment names what it excuses.
`NothingSurvives`: an id that is used again starts clean on both sides.

*visuals.* `UseCountExact` and `BoundNotDestroyed` (counts that bind, unbind,
rebind and reset keep, and the destruction that relies on them), `MapsFit` (the
maps by address give a vehicle its own id and the collision it shows, though
addresses are reused), `ShownAsBound`, `EventuallyShown`.

*handling_sync.* `NoDangling` (a block is freed only when no vehicle drives with
it), `ClientAgrees` (handling of a vehicle, of its model and of its driver, and
doors, after any order of setting, resetting, streaming, riding).

*model_delivery.* `FinalizedOnce` (a cancelled download calls back more than
once, a job is finalized once), `DefinedIsLoaded` (no queue that is put off, no
job of an earlier session and no destruction of another leaves a model unloaded;
`gone` has the models the server destroyed and those an earlier session left in
`m_destructionQueue`, section 7), `SoundsAreThere`,
`UsedIsKept`, `ConfigAgrees` (staged copy, committed copy, broadcasts and the
client's configuration).

*model_config.* `HandlingFollowsFile` (values before and after the base's copy),
`PlatesFollowFile` (the implicit switching on by a position, and the rear
plate's turn, against explicit lines in any order), `ScriptsReadFile`.

*model_cache.* `ReturnsExpected`, `StoredIsFound` and `InvalidatedIsGone`, with
a crash between any two steps on disk and records that outlive files.

*appearance.* `DressedAndPainted`, `PlateInOrder` (livery, tint, extras, colours,
plate mesh and text over new clumps, repairs and recolouring), `CheckSettles`
(what the check compares is what it wrote, so that it does not redraw for ever).

## 5. Fairness

`ServerTransfers`: weak fairness of `Tick`, as open.mp calls `onTick` for ever.
`TransfersEnd` excuses a client that keeps asking for the same file, which
restarts it. `AssetTransfer`: weak fairness of the server's tick and of its
packet handler, of the client's network thread, of finishing an END, of draining
the queue once per frame, and of the worker for each file: `Scan(f)` is a pass in
which the time of `f` has come, as the clock advances. None for joining,
requests, retries by the player, replacements and losses: nobody has to.
`Session`: weak fairness of the client's frames (the three handshake steps), of
what the network delivers while the connection lasts (`Receive`, `ReceiveInit`,
`PlayerConnect`) and of the server's tick; strong fairness of deliveries while
the main thread is not inside its handshake (`Between`). That one is needed with
callbacks on their own thread: an answer that falls between check and reset is
undone, and nothing but time (microseconds of 1.5 seconds) keeps every answer
from doing so. None for connecting, leaving, natives and restarts.
`VehicleVisuals`: weak fairness of `Frame`, the steps of the main loop: the game
draws frames as long as it runs, and each step of a frame is enabled until it is
taken. None for packets, for SA-MP's creation and deletion of vehicles or for
the end of a session.

## 6. The proofs

`ServerTransfersProofs` proves, for every number of players, files and
versions, every size, budget and limit (assumption `ServerAssumption` only:
positive sizes and the clamps of `ServerConfig.cpp:89-92`):

* `TypeCorrect`: `Spec => []TypeOK`;
* `OneTransfer`, `InOrder`, `Live`: the three invariants of the queue;
* `BudgetUsed`: `Spec => []WorkConserving`;
* `WithinLimit`: `Spec => []TransferLimit`;
* `Refinement`: `Spec => ImplementsStreams`.

The argument. None of them is inductive alone: that a budget is used up says
nothing without the order, and the order nothing without knowing which deque is
empty when. `IndInv` adds `TickOwnsQueue` (inside a tick the deque is empty,
outside the local deques are) and states the queue's three invariants of the
*concatenation* `Queue`, as `QueueOK(q, C)`. Then most of a tick's steps leave
`Queue` as it is or change one position; what remains is one lemma about
`QueueOK` per kind of change: erasing keys (`Without`, defined by recursion on
the length; its facts are proved from a least counterexample), appending a fresh
transfer, advancing the first. Each action has a lemma, `Next` collects them.

`StepKinds` then says what all actions come to in `Queue` and `out`: transfers
go (`Fewer`), one is `Started` or `Refused`, one is `Pumped`. The limit counts
the positions of a player's transfers; `Started` is the only kind that adds one,
and its guard is the count in the deque, which is all of `Queue` when no tick
runs. For the refinement a stream is the transfer with its key, of which there
is one (`OneTransferPerFile`); each kind of step is one action of `ChunkStreams`
or a stutter.

`ClientProofs` proves the invariants of `client_alone` for every number of files
and versions, every size and every bound (assumption `ClientAssumption`), against
a server that sends anything: `TypeCorrect`, `WholeVersionsOnly`
(`StoreIntegrity`), `BoundedRequests` (`SendBudget`), `NeverForgotten`
(`Watched`).

The argument is per entry: `EntryOK(e)` says that a waiting entry has its retry
armed and an empty buffer (so no stale chunk can disarm it), that the status
"failed" goes with the flag, that a buffer comes with an announcement (so the
END handler compares with a hash of the server), and that every request was paid
for: `asked`, counting an armed retry as sent, is at most `2 * attempts - 1`.
The last one is why `SendBudget` is not inductive alone: an armed retry is a
request still to come, and a rejected announcement arms one and raises
`attempts`. One lemma per operator on entries (`Failed`, `Cleared`, `Retried`,
`Visited`), one per action.

The same module puts the client and the server together: `WholeFilesArrive`,
`AssetSpec => []CompleteAtEnd`, for any files, versions, sizes, limits and bounds
(assumptions `ClientAssumption`, `AssetAssumption`) and from one hypothesis about
constants, `LargeRejected`: the client's size limits reject no version with fewer
chunks than one they accept. The code compares the compressed and the uncompressed
size with a limit each (`ModelTransferClient.cpp:334`), so that a file that packs
very well may be rejected after a longer one was accepted; as a rejection leaves
the old buffer, its fewer chunks and its END then meet a longer buffer (the END
handler still compares the hash, `StoreIntegrity`).

The proof uses of the server only that it implements `ChunkStreams`:
`ServerTransfersProofs` is instantiated with the one player, its assumption is
that of this composition (`ServerConstants`), its invariant is kept by every step
here (`ServerKeeps`), and `PlayerSees` says what the player is sent of a file in a
step of that specification. `Path(f, w, a, b)` says that the packets `w` take the
stream of `f` from position `a` to `b`. `AssetInv` says of every file that there
is a position `a` the client is at and a path over all that is on the channel to
the server's stream, if the server has one (it may have given up in silence), and
`Tracks` what being at `a` means for the entry: it can not finish (`Dead`: failed
or without buffer), or its chunks are `0..r-1`, with `r` not behind `a` and not
beyond what was announced, and what was announced is no longer than the stream.
A server's step makes the path longer, a received packet shorter, a lost
connection cuts it (a prefix of a path is a path, and the server's streams are
gone); all other steps of the client leave the entry or make it `Dead` (`AllRest`).
At an END `a` is at the total, so `r` is all.

`SessionProofs` proves, for all models, versions and bounds and whatever the
threads and the order of RPCs (assumption `SessionAssumption`):

* `TypeCorrect`: `Spec => []TypeOK`;
* `BelievesOnlyTheServer`: `Spec => []BelievesRightly`;
* `HandlingArrives`: `Spec => []HandlingInForce`, the first part of `Delivered`;
* `EverythingArrives`: `ScriptsFirst = FALSE` implies `Spec => []Delivered`.

The argument: the flag is set by an answer, and the answer left when the flag of
the server was set, so `TrustInv` makes an allowing answer under way as good as
the belief. That the server forgets the flag (`PlayerConnect`) is harmless
because a player that has yet to join has no answer under way and no belief; that
in turn because a lost connection leaves neither. Type correctness costs most:
`Messages` is a union of record sets, and each sender has a lemma about what it
appends.

`Leads(q, s, k, x)` says that who has `s` and takes the packets of `q` has `x` in
the end: the last packet about `k` carries it, or none is about `k` and `s` is it.
`InForce` says of every session that is not disturbed that the channel leads the
client to the server's store, or that the model waits in `outgoing`; that a client
which is not authorized has nothing; and that handling comes behind the answer
that authorizes it. A sender appends the last packet about what it changes, a
receiver takes the first one of a sequence that still leads there, and a client at
rest has what an empty channel leads to. For the debug mode `asked` is what the
server holds only when the plugin sees a player before the scripts do: with
`ScriptsFirst` the run's property fails (section 7), hence the hypothesis.

`VehicleVisualsProofs` proves, for every finite set of ids and every set of
addresses and models, any length of the task queue, with and without a network
thread, and for all values of `SameFrame` and `DeletedFar` (`VisualsAssumption`):

* `TypeCorrect`: `Spec => []TypeOK`;
* `UseCountsCorrect`: `Spec => []UseCountExact`;
* `DestructionCorrect`: `Spec => BoundNotDestroyed`;
* `MapsCorrect`, `ShownCorrect`: `MapsFit` and `ShownAsBound`, from the
  hypothesis `Calm` (`SameFrame` and `DeletedFar` are FALSE, as in the runs).

The argument: `Bound(b, m)` is the set of ids that a map of bindings binds to a
model. A binding that is replaced changes two such sets by one element
(`OneRebound`), which is what Bind and Unbind do to two counts (`BindCounts`,
`UnbindCounts`); the end of a session subtracts all of a model's uses
(`ClearCount`). That last step is why neither invariant is inductive alone: the
counts stay natural numbers only because they are exact, and the proof is of
`CountInv`, their conjunction. Destruction needs a count of zero, which is then
an empty set of bound vehicles; the steps that destroy change no binding.

The maps are only corrected at the end of a frame. `MapInv` calls an address
*stale* whose vehicle has gone since, and says: an address that is not stale
leads to its own vehicle, in both maps; an entry that is applied is in the index;
a collision belongs to the model its vehicle is bound to and shows, and is ready;
and the vehicles near the player differ from those of the last frame by what the
hooks have noted. The last part is where `Calm` is needed: an address that goes
and comes within a frame is not noted, and TLC shows what follows from that.

`ModelCacheProofs` proves the three invariants of `model_cache` for any sets of
files, contents and servers and any number of requests, runs of the game, crashes
and unusable files: `HitsAreTrue` (`ReturnsExpected`), `OneTransferIsEnough`
(`StoredIsFound`), `InvalidatedStaysAway` (`InvalidatedIsGone`). Hypothesis:
`Reliable`, `Forgetful` and `SavesFail` are FALSE (a file system that keeps what
was written and written manifests; TLC refutes the properties without it). The
invariants speak of an idle client, and are broken between the system calls of an
operation; but a crash may leave things at any of these. `Plan(work, assets)`
says what the steps still to come will have done (a torn manifest is written
again, a file that is begun is finished or removed unless it has a record, a
file comes before the manifest that names it), and `CacheInv` states every
property of the disk together with the steps that will mend it: `Matches` for the
records of every manifest, `WriteInv`, `MemoryInv`, `KeptInv` and so on. One
lemma per operation shows that what it plans is a `Plan`, one per kind of step
that executing it, or crashing before it, keeps the invariant.

`ModelLoadProofs` proves, for any models, values, numbers of natives, packets,
jobs and restarts and all values of the knobs (`LoadAssumption`, and that the
mark for a missing file is not a job):

* `TypeCorrect`: `Spec => []TypeOK`, of server and client together;
* `FinalizedAtMostOnce`: `Spec => []FinalizedOnce`;
* `UsedModelsStay`: `Spec => []UsedIsKept`;
* `ConfigArrives`: `Spec => []ConfigAgrees`, for the two knobs as in the run
  (`Plain`: `Reloading` and `Restaging` FALSE, all others arbitrary; with either,
  the staged or loaded copy and the one players were sent part, section 7);
* `DefinitionsArrive`: `Spec => []DefinedIsLoaded`, when no session begins or ends
  while the client works (`Hurried` FALSE, as in the run; all others arbitrary).

What the files of a job do runs through one record (`Works`): the job, the
transfers, what is stored and whether it was put into the queue. `Passed(J, s, t)`
is what every operator on it keeps: a job is put into the queue exactly when it
becomes queued, and that does not end. It is transitive, and one lemma per
operator of `ModelLoad` gives it for all that a packet or an answer does,
including the folds over a job's files. `QueueInv`: who waits in a queue was
queued and is not finalized, and no job is in the two queues twice; then what is
finalized next was not finalized before. The types rest on each other in groups
(session, jobs, frame, models), because the frame's position says which task or
job is at hand.

`ConfigInv`, behind `ConfigArrives`: while a player is told of definitions,
whatever field of a committed definition one takes, the client has the server's
value and no packet on the wire is about it, or the last packet about it carries
that value (`LeadsTo`, the `Leads` of `Session` by model and field). A packet is
about a field when it is a definition of its model, or a plate packet and the
field one of the plate's (`Covers`). What a native sends `Tells` of all it changed:
that is where a plate native must not have touched an offset. A player who comes
is told every committed definition behind all else, as the order of a finite set
leaves none out (`SetToSeqOnto`); finalizing a job writes only the text of a
plate (`KeepsSent`).

`ComingInv`, behind `DefinitionsArrive`, says while no transfer has failed of every
model that is whole and not `gone`: it is `Coming`. Either the model has won (it
is loaded and no clearing is due, or a job of it has ended with TXD and DFF), or
one of its jobs leads to it. `View` is what counts of a model's jobs: how far each
is, which entries of `m_active` are its own, and whether it is still to begin.
`Course` says that a job asks for one file after the other and, of the sounds,
counts at least those it waits for. The hard part is a second job: one of the time
between the connection and `RPC_InitGame`, which clears the ids but leaves tasks
and transfers, lives on beside that of the session. A file that both want is
answered to who asked first, and a sound that somebody else has asked for is
counted and never answered; so either job may stall, but not both. `Lead` finds
the one that will end: it waits for all it counts (`Sound`), and the other has
not asked for a sound that it will want. A job that stalls thereby hands the lead
to the one it waits for (`MovedLead`), which is why `Lead` speaks of any two jobs
and not of the newer one. `Tidy` says that each task of the model begins a job or
has the answer to an entry that is still the job's, and is there once; `Clearing`,
`PutOff` and `InRun` where the main thread can be meanwhile: a model that is
created is not swept away by a clearing of the same frame. One lemma per action
shows that what it does to the view is a step `Moved`, or none; the folds over
queues go job by job. The invariant was checked by TLC on small instances before,
and the first attempt at the theorem showed that the property was false as it
stood: it did not except what an earlier session leaves in `m_destructionQueue`
(section 7).

`VehicleProofs` proves of `VehicleAppearance`, for any colours, paintjobs, textures, texts and
any number of settings: `TypeCorrect`, `DressedAlways` (`DressedAndPainted`),
`PlateAlways` (`PlateInOrder`), `LookedAtOnce` (the action property
`LooksOnce`), from the hypothesis `Regular`, the values of the run's knobs
(`SameFrame`, `Flicker` FALSE, every livery recognised that is found; section 7
says what TLC finds otherwise). Every handler is a chain of coats on one record
(binding, SA-MP's settings, vehicle, look). `Good(s)` says of it all that the
properties say of a vehicle that shows its model; `LookInv` is that the state is
`Good` while the entry is applied, with the types and the two facts `Entry` about
an entry without a model. Each coat has a lemma about what it makes true and what
it leaves true of the coats below; a handler's lemma goes through its coats in
the order of the code, which is where the order matters.

`VehicleProofs` also proves of `VehicleAttributes`, for every finite set of
vehicles, any models, values and defaults and any number of natives, packets
and full states (`AttributesAssumption`):

* `AttributesTypeCorrect`: `AttributesSpec => []AttributesTypeOK`, whatever the
  knobs;
* `DestroyedIsForgotten`: `AttributesSpec => []NothingSurvives`, if scripts bind a
  vehicle before they set its attributes (`BindFirst`);
* `VehiclesAgree`: `AttributesSpec => []AttributesAgree`, from the hypothesis
  `Careful`, the values of the run's three knobs (with any other, TLC refutes
  the property, section 7).

The hypotheses are in the invariant, `AttributesInv`, as conditions of its parts,
so that one induction serves all three. `Pending` is what the client has still to
carry out of a vehicle, the tasks of its queue and the packets behind them, and
`Held` the entry it starts from; a clearing that is due empties both. `Tells`
says of every vehicle where `Pending` leads `Held`: to nothing, if the vehicle is
bound to nothing (`Gone`: nothing there and nothing to come, or an Unbind is the
last packet about it); to the registry's state, if it is bound (`Fine`); and a
player who is not authorized has nothing and hears only of the game's paintjobs
(`Fresh`). `Fine` goes attribute by attribute: the last word on it (`LastWord`), or the
entry's value if nothing is said of it (`Worn`), is one that is allowed. There are
three difficulties. A Bind and an Unbind are carried out a frame after they come,
other packets at once, so that the latter overtake the former: `Drops` is what
any sequence becomes when one packet goes, and the lemmas for it ask that only
tasks are before it. A paintjob of the game's is dropped if the entry is not there
when it comes, which depends on all that is before it (`Felt`, `PaintCovered`). And
of a vehicle out of sight the client has only to be right about what the next full
state leaves out (`InSync`). The queue is worked off by a recursive function,
of which each fact is proved from a least step at which it would fail.

This proof changed the property. `Agreed` as it was first stated is false in
behaviours longer than the run's: a script takes the paintjob of a vehicle away,
open.mp changes it while the vehicle is in sight (which reaches the client past
the registry), the vehicle goes out of sight, open.mp changes it again, and the full state
of the next stream-in leaves a paintjob out that was taken away
(`extendedveh.cpp:389-402`): the client keeps the one before the last. `Agreed`
now excuses it, and section 7 lists it.

`HandlingProofs` proves, for every finite set of vehicles, any masses and any
number of natives, rides and packets under way:

* `BlocksStay`: `Spec => []NoDangling`, for all values of the knobs;
* `ClientArrives`: `Spec => []ClientAgrees`, from the hypothesis `Orderly`, the
  values of the run's four knobs (all FALSE; with any one of them TRUE, TLC
  refutes `ClientAgrees`, section 7).

For the first, `Backed(v)` says that the block at which a vehicle points is there, that a model's
block is that of its own model, and that such a vehicle has no block of its own
or of the player. The last is what lets `ResetModel` find the vehicles that it
must lead away. The first attempt failed on it: the code can break it within a
longer sequence than the run's bound allows. TLC finds that sequence with
`MaxCalls = 4`; section 7 has the case, and `strayed` its vehicles.

The invariant of the second, `SyncInv`, has one part for each thing the two sides
must agree on, and each part has the same form. `A` are the messages about that
thing and `G` those that say what the server has now: either `Tells(toClient, A,
G)` (the last message about it is one of `G`) or `Quiet(toClient, A)` and the
client has it. The lemmas of the first section give what appending packets and
taking the first one does to the two. So are the doors (through the queue of the
main thread as well), the player's handling, a vehicle's own (`OwnOk`: unless the
next tick will send it; in the vehicle's block or waiting for the vehicle) and the
base model's (`ModelInv`). Who is not authorized has nothing and is sent nothing
but the end of a model's handling, which `ResetModelHandling` sends to all: that is
why a player may join with such packets under way, and why `ModelInv` says of him
that the last of them is a reset. `PointInv` is the client's half: a vehicle that
has been in a frame is pointed at its own block, else at the player's, else at its
model's. It does not hold of a vehicle that no frame has found yet; `RideInv`
(the player rides only in vehicles a frame has found) and `WaitInv` (nothing waits
for a vehicle that a frame has found) close that gap, and need the knobs. The
whole was an invariant of TLC's runs, exhaustively for one vehicle and in random
behaviours for two, before it was proved.

`HandlingProofs` also proves of `ModelConfig`, for any set of lines, any tables of
vehicles and parts and files of any length (`ConfigAssumption`: vehicles have the
same attributes, committed models have a base among them, and a value that a
list is expected of is a list):

* `HandlingCorrect`: `ConfigSpec => []HandlingFollowsFile`;
* `PlatesCorrect`: `ConfigSpec => []PlatesFollowFile`;
* `ScriptsCorrect`: `ConfigSpec => []ScriptsReadFile`;
* `ConfigTypesCorrect`: `ConfigSpec => []ConfigTypeOK`.

The properties relate what was made of a file to the last line of some kind
(`LastOf`), so the lemmas say of each kind what one more line does to the set of
its lines and hence to the last. The invariant, `ConfigInv`, adds what a step
relies on: `explicit` names exactly the plates and rotations that some line has
said (`Meshed`; without it a position's line could undo a switch), the ids are those
of the names and both are without repetition (`Listed`), and every key of a line
that was read is in `customProperties` with its section and without (`Props`).
Every action is shown to do one of few things to each part (`HandledBy`,
`MeshedBy`, `ListedBy`), and one lemma for each part does the rest. What a list becomes
(`Those`, `Merged`) is defined by recursive functions, and their facts are proved
from a least index at which they would fail. The natives' index is off by one
against the list; `ByIndex` is that both walk the same.

Only model-checked:
* `SoundsAreThere`, which would need of every task that waits where its sound
  stands in the order of the others;
* all liveness, which the installed back ends do not prove.

No module that is meant to be proved about declares a RECURSIVE operator. The
folds in `ModelLoad` are recursive functions; their existence is proved
(`FoldExists`, from a least number of items for which it would fail).

## 7. Where the code and its comments part

`visuals_reset` expects a violation of `ShownIsNotFreed`, which is the comment
of `ClearAllCustomModels` (`streamingextender.hpp:1163-1166`): a model that a
vehicle in the world uses is not freed. The guard, `IsGtaSlotUsedByVehicle`
(1060-1071), compares `m_nModelIndex`; a bound vehicle shows a clone of a custom
model and keeps its own index. A session that ends with a bound vehicle in the
world frees what is drawn.

What follows are places where the models do as the code does and where it does
something else than its comments, its documentation or a reader expect. No run
is about them; where a property would fail, it names the exception.

*Transfers.*
* A BEGIN after a timeout restarts the bitmap but not `receivedBytes`
  (`ModelTransferClient.cpp:352-370`; the server relies on a restart from zero,
  `ModelTransferManager.cpp:198`): chunks of the old transfer in between cost one
  more attempt.
* An announcement over the size limit arms a retry and keeps the old buffer; a
  chunk that fits it disarms the retry (`:437-443`), and the status "rejected"
  has no timeout (`:701`). Neither has "manual retry". `Watched` names both.
* The worker gives up without `onReady` (`:673-677`), unlike `ScheduleRetry`
  and its comment (`:624`).
* `ModelCache.h:24` says that files of the current server are evicted; `Sweep`
  runs at the start only, with the directory of no server (`Plugin.cpp:3370`).

*Session.*
* On `RPC_GameModeRestart` the client clears its handling and handshakes again
  (`Plugin.cpp:3668-3684`); the server has it authorized and answers, but sends
  no handling (`Actions.cpp:35-43`, against `HandlingManager.h:50`), nor the
  definitions. `Delivered` excuses such sessions; and those in which
  the first answer overtakes `RPC_InitGame`, which clears what came with it
  (`Plugin.cpp:3629`), or falls between check and reset
  (`Plugin.cpp:3949-3953`).
* `extendedveh.cpp:310` keeps the debug mode that a script has set; the call in
  its next line clears it (`PlayerAttrs.h:25-29`). It matters when scripts see a
  player first (`ScriptsFirst`).

*Definitions and configuration.*
* Handling of a custom model that arrives before the model is created is dropped
  (client `handling_manager.cpp:1197`, server `HandlingManager.cpp:455`).
  `m_pendingCommands` (`:299`) is never filled.
* An id stays in `m_activeModelIds` until the session ends (`Plugin.cpp:3445`):
  a destroyed and redefined model takes its new fields only from what is sent
  later. A DESTROY does not reach a definition that waits in a queue.
* `RequestClearAllCustomModels` (`Plugin.cpp:3556`) empties three queues and not
  `m_destructionQueue`. A destruction that waits for the player's spawn, or for the
  last vehicle of the model to go, survives the session; it then destroys the model
  that the next session has loaded under the id, and further definitions of it are
  taken for duplicates. `DefinedIsLoaded` excepts such models (`gone`).
* Model info and lighting set after the definition never reach clients; an empty
  plate text never clears one.
* `SetCustomVehicleModelPlateConfig` does not reach existing bindings
  (`CustomVehicleBindingManager.cpp:1960`); `SetModelOffsets` replaces those of
  single vehicles (3662).
* `platetextsize` stands under `[plate]` in `examples/model.ini` and is not read
  there (`ModelConfigParser.cpp:1493-1647`). The volume of `[audio]` is
  documented up to 2 and accepted up to 1 (about 1700). 257 lights are stored as
  one (1147).
* `DefineCustomVehicle` of `extendedveh.inc:484` needs a COL, the component does
  not.

*Vehicles.*
* `Plugin.cpp:1943` persists a paintjob "across rebinds"; Unbind erases it.
* A paintjob that a script has taken away (`Neutral`) and open.mp sets again is
  left out of the full state (`extendedveh.cpp:389-402`): a player who was out of
  sight when it changed keeps the paintjob before. `Agreed` excuses it.
* The include describes the old paintjob natives as in force (`extendedveh.inc:303`);
  they go past the registry (`extendedveh.cpp:389-394`).
* Appearance: a tint that is cleared leaves opaque black glass (3493-3515 of
  `CustomVehicleBindingManager.cpp`), a livery without a texture leaves a white
  body (3459), `s_originalMaterialTextures` keeps entries of freed materials
  (73), a wheel's colour is lost in a repair (1029-1053), a cleared plate text
  comes back from SA-MP's (2765). `SetModelFlying` changes nothing on clients.
* `ResetModel` (client `handling_manager.cpp:1219`) frees a model's block;
  `RevertModelToOriginal` (879-917) leads those vehicles away that have neither a
  block of their own nor the player's. A vehicle with the player's handling drives
  with its model's block all the same when `OnVehicleStreamIn` comes to it
  (728-741), which asks for the vehicle's own block only; an Unbind calls it, too.
  Then it is passed over, and drives with freed data until it is led elsewhere.
  `NoDangling` leaves out such vehicles (`StrayedIn`).

*Knobs.* Parameters that are FALSE (or equal sets) in the runs name what SA-MP or
scripts would have to do for a property to fail; set TRUE, TLC shows how.
`HandlingSync`: `IdReuse` (the server keeps no word of a reused id's handling for
who has it streamed), `RidesToTheEnd` (the player's handling stays in a vehicle
that goes with its driver), `EarlyPlayer` (handling set before authorization is
not sent), `SameFrame`. `VehicleAttributes`: `Rebinding` (attributes of the first
model stay), `BindFirst` FALSE, `DuringUnbind` (an attribute in the burst of an
Unbind is lost with it). `VehicleVisuals`: `SameFrame` (what comes and goes
between two frames is not seen), `DeletedFar`. `VehicleAppearance`: `SameFrame`,
`Flicker`, a `Recognised` smaller than `Found` (a livery that no rule of names
recognises is never put on again). `ModelCache`: `Forgetful`, `SavesFail`
(a file is stored twice or lost). `ModelLoad`: `Hurried`, `EarlyRetries`;
`ModelDefinitions`: `Reloading`, `Restaging` (staged and committed copies part).

## 8. What is not modelled

* `HandlingDefault.cpp`, a table of 10 600 lines: `DefaultHandling` and the
  constants in its place stand for any table. `HandlingEnum.cpp` and structures
  of attributes, but for their limits.
* `CollisionAssetRepository` of the server has no caller; of the client's
  `CollisionLoader` one function has (`LoadCollisionFromMemory`,
  `Plugin.cpp:3273`): a model has its collision or not. Attach and Detach act on
  a copy.
* The hooks of doors and seats (`Plugin.cpp:1135-1571`), of rendering and sound:
  they read what the models maintain and patch the game's memory. Geometry
  (offsets, neon, lights, plate drawing); audio after it is registered.
* `m_completed`, `Snapshot`, the overlay, the chat command, logging: no effect
  on the rest. `Shutdown` at process exit.
* Bits of packets, and packets that cannot be parsed: each handler returns before
  it changes anything. Natives' checks of their arguments, but where a property
  depends on one.
* `g_clientFileStatus`, written by one packet and read by one native, is kept by
  player id and not cleared on disconnect (`ModelTransferManager.cpp:401`).
* Slots of GTA that run out; SHA-256 and compression.

## 9. The plan

Done: the modules of section 2 and the proofs of section 6. Left, in this order:

1. Proofs: `SoundsAreThere` from the order of the tasks, with what `ComingInv`
   says of entries and tasks.
2. `g_clientFileStatus` in `ServerTransfers`, with the report packet.
3. Doors and seats (`Plugin.cpp:1135-1571`) as a part of `HandlingSync`.
4. Two counters of sounds in `ModelLoad`, so that COLs and sounds may be
   cancelled.
