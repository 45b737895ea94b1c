# CloneCraft in TLA+

TLA+ models of the parts of CloneCraft whose behaviour is hard to test, TLC runs
on small instances of them, and TLAPS proofs for every value of the constants.
Paths below are relative to the repository; `tlc -config X.cfg M` runs a
configuration and `tlapm M.tla` checks the proofs of a module.

## 1. The system

CloneCraft is a single-process voxel game. The *owner thread* runs the frame
loop and owns all game state. Two further threads exist: the *timer worker* of
the delayed message scheduler and the *generator* of the chunk streaming manager.
Everything gameplay does to the world is a message on a typed bus.

| component | state it keeps | operations | interacts with |
|---|---|---|---|
| Delayed message scheduler (`world/communication/DelayedMessageScheduler`) | heap of entries by (due, sequence), bounded FIFO handoff, sequence, stop flag | scheduleAt, scheduleAfter, workerLoop, drainDueTo, shutdown | any thread schedules; the owner drains into the bus |
| Communication runtime (`CommunicationRuntime`) | queues A (in) and B (out), grants, pump guard, id counter | submit, dispatch, pumpOne, nextOutput, grantCapability | calls handlers, which call back |
| Registries and router (`CommunicationRegistries`, `CommunicationRouter`) | signals, slots, actions, routes | declareSignal, registerAction, registerSlot, registerHandler, lookup | tables of the runtime |
| Block command handlers | none | place, remove, set property | bus to WorldState |
| WorldState, sidecars, hierarchy store, persistence sink (`world/state`, `world/chunk`) | voxels, sparse overrides, deltas, dirty chunks | blockAt, get, setBlock, setProperty | writes chunks, tells listeners and the sink |
| Chunk streaming (`ChunkStreamingManager`, `ChunkManager`) | plan, epoch, job queue, staged results, buffers | update, flush, workerLoop, destructor | generates, loads and evicts chunks |
| Chunk renderer and mesh builder (`render/ChunkWorldRenderer`, `world/mesh`) | dirty set, sections, tints, materials | sync, setBlockTint, setRenderAnchor | listens to chunks, fed by the frame |
| Gameplay content and Lua (`world/scripting`) | scripts, bootstraps, invocation stack, budgets | updateBootstraps, invoke, send, schedule_after, query, reply | handlers of the bus, commands on the bus |
| Frame loop (`app`) | running, latched bootstrap failure, selected block | initialize, runFrameUpdate, shutdown | drives everything |
| Coordinates, dynamic space, anchor, camera (`world/coordinates`, `spatial`, `camera`) | camera in a local frame, anchor of that frame, group the scene is drawn from | tryOffset, rebase, shiftAnchor, update | one after the other in a frame |
| Input, picking, interaction (`input`, `world/interaction`) | keys and buttons that are down | event loop, ray, click | block commands |
| Content and settings (`world/registry`, `config`, `ui`) | registries, runtime ids, settings file | load, check, save | the start of the program |
| World generation, noise, Ogre back end, window, text | tables, devices | functions, drawing | called by the above |

`PROJECT.json` lists every component with what is modelled of it, and every
hazard with its line.

**What makes it hard.** (a) Three threads and three condition-variable waits in
the scheduler, with notifications sent after the mutex is released. (b) Handlers
that reenter the bus in the middle of a pump. (c) A camera that replans while the
generator holds a finished chunk, waits for room, or fails. (d) Registrations that
must change four tables or none. (e) Sparse storage: defaults are never stored, so
each write decides between storing, erasing and doing nothing, and chunks with
edits are evicted and regenerated. (f) Scripts that may do anything, with errors
and aborts that pass through C++ and Lua frames in turn. (g) A picture kept in step
with the world by a set of dirty chunks and bounded work per frame. (h) Three frames
of reference that move one after the other. (i) A start that may end in front of any
part, and files that refer to one another.

**What correctness means, per component.** Scheduler: each accepted message leaves
once, not early, in order, and does leave; shutdown returns. Runtime: the outputs
of a message always fit where they were promised room; order and at-most-once of
A; no handler without its grant. Registries: the slot that authorises is the slot
that runs; failed registrations leave the earlier ones alone. Streaming: every chunk
in view is on its way exactly once and arrives; nothing stale is committed; edits
survive. WorldState: no override outlives its owner; base plus deltas is the world;
the answer to a command is visible. Renderer: what is drawn is the world; what is
in Ogre is what the books list. Gameplay: the host knows who is calling; an
invocation that ran out of budget does not go on; a bootstrap happens at most once and whole. View: position and scene are
the world's. Interaction: the first block in sight is picked. Start: references
resolve; no part outlives what it refers to; settings files are whole.

## 2. Modules

| module | models | extends / composes |
|---|---|---|
| `DelayedDelivery` | abstract: what delayed delivery promises | |
| `DelayedMessageScheduler` | `DelayedMessageScheduler.cpp`, `SchedulerClock.h` | implements `DelayedDelivery` |
| `CommunicationRegistries` | `CommunicationRegistries.cpp`, `CommunicationRouter.cpp`, registrations of `CommunicationRuntime.cpp` | |
| `CommunicationRuntime` | the rest of `CommunicationRuntime.cpp`, `BoundedEnvelopeQueue.h` | composes with `CommunicationRegistries` |
| `ChunkStreaming` | `ChunkStreamingManager.cpp` | |
| `WorldState` | `WorldState.cpp`, `BlockCommandHandlers.cpp`, `HierarchySidecarStore`, `Chunk.h`, `Sidecar.h`, the sink | |
| `ChunkRendering` | `ChunkWorldRenderer.cpp`, `ChunkMeshBuilder.cpp`, change notifications of `ChunkManager.cpp`, their frame | |
| `GameplayLuaRuntime` | `GameplayLuaRuntime.cpp` | |
| `GameplayFrame` | `GameplayContentRuntime.cpp`, the frame of `Application.cpp` | composes `GameplayLuaRuntime` with a short bus, scheduler and streaming |
| `HierarchicalCoordinates` | `Coords.h` with its parts, as functions | |
| `PlayerView` | `WorldPosition.cpp`, `DynamicSpace.cpp`, `WorldDynamicBridge.cpp`, `StickyGroupAnchor.cpp`, `BlockSelectionRenderer.cpp`, the camera | over `HierarchicalCoordinates` |
| `PlayerInteraction` | `InputManager.cpp`, `BlockPicker.cpp`, `PlayerInteractionController.cpp` | over `HierarchicalCoordinates` |
| `ContentRules` | the checks of every field: `RegistryLoader.cpp`, `Registry.h`, `gameplay.json`, `ui.json`, `settings.json` | |
| `Startup` | `Settings.cpp`, `ContentRoot.cpp`, loading in order, `Application::initialize` and `shutdown` | over `ContentRules` |
| `*Proofs` | proofs | extend their module and TLAPS |
| `MC*` | values of the constants for TLC | extend their module |

Definitions named `X_Something` next to a definition `X` are faulty variants of
it: the bug a property must notice. They are used by no specification.

### State and actions against the code

**DelayedMessageScheduler.** One step is one section under `mMutex`, one under the
clock's mutex, one notify, or one call made without a lock. `mMutex` is held across
steps only by the worker in `scan`. `queue` and `handoff` are `mQueue` and
`mHandoff`; `worker`, `producer`, `owner`, `closer` are program counters of the four
kinds of threads. A condition-variable wait is a program counter value that a
notify changes, so a notify nobody waits for is lost, as in the code. `submitted`
and `poisoned` are history. `SubmitFull` is a bus that is full for now,
`SubmitRejected` a permanent rejection. Delays and due times are nonnegative
integers; an addition past `TimeMax` is the throw of `checkedDueTime`.

**CommunicationRegistries.** `slots` and `routes` are two tables, because the code
finds the slot that authorises and the route that runs by two lookups. A call that
throws before its first assignment is no step. `RegisterHandlerRollback` is phase 2
of `registerHandler` when the generated id is taken: it erases an action that it did
not insert.

**CommunicationRuntime.** A running handler is a frame of `stack`; whoever is on
top, or the owner, may make any call: submit, dispatch, pump, register, grant, take
outputs. `PumpOne` is the code up to the call of the handler, `HandlerReturns` and
`HandlerThrows` the rest of it. Registrations come at any time, with messages in the
queues and handlers at work. A route looks its action up when it is called (`Reacts`):
if the action is gone, the message is consumed and the call throws.

**ChunkStreaming.** `main` and `worker` are the two program counters; a step is a
section under `mWorkMutex` with the notifications that follow it. `missing` and
`ready` are the local lists of `replan` and `commitCompleted`. The chunk grid is a
line, since the code uses only the distance of two chunks and an order.

**WorldState.** One action per command and per residency change; a command is the
handler and all of `setBlock` or `setProperty`, sink records included. A *target* is
a cell or a tier of the hierarchy; `stored` holds the overrides that exist, which is
what the sparse code calls an entry. The tables of the content registries are
constants. `lost` (history) is the chunks that were evicted while dirty.

**ChunkRendering.** `phase` is the place in the frame. `objects` is the table of
drawn chunks with their sections, a section being a merged rectangle of faces with
its tint; `tints`, `materials` and `tinted` are the other books of the renderer, and
`gpu` is what exists in Ogre. `Sync` is the whole of `sync`: the chunks in the order
of their addresses, `MeshBudget` of them meshed, the rest dirty again. The meshes
are computed by the code's slices and greedy rectangles; faces of the world are
computed from blocks alone, by neighbourhood, so `PictureIsWorld` compares two
independent definitions. Chunks lie in a row along X.

**GameplayLuaRuntime, GameplayFrame.** `lua` is what the Lua state executes, a stack
of functions with what is open in each: protected calls, handlers of `xpcall`,
to-be-closed variables, finalizers. `contexts` is the host's `invocationStack`. An
error is a value of `raising` that unwinds step by step. A script may make any call of
the API at any time; each call executes an instruction, `hookCount` counts them, and
at zero `InstructionBudgetHook` charges the context that is on top then, as the code
does, so calls cost whoever happens to run at the tick. `setmetatable` is in the
sandbox (`GameplayLuaRuntime.cpp:1205`), so there are two kinds of code that no call
asks for. `RunCloser`: a to-be-closed variable runs script code while an error or an
abort is on its way, may do all that a script does, and may replace it by an error of
its own (`CloserFails`). `RunFinalizer`: a finalizer of any script runs in the middle
of any other, with the hook off, and its calls use the context of the invocation that
it interrupts. `author` and `finalizer` (history, in each message) say who really made
the call. `GameplayFrame` adds the frame: streaming commits and evicts chunks,
bootstraps are checked and carried out placement by placement, the timer hands over due
messages, the pump runs handlers and block commands, and every exception goes where the
code catches it.

**HierarchicalCoordinates, PlayerView.** An axis of an address is a sequence of digits
with mixed radices; the sector is an int64 with its overflow tests. A frame of
`PlayerView` moves the camera, rebases the dynamic space, shifts the anchor of the
bridge, recomputes the world position and the sticky group, and moves outline and
render anchor, one action each. `travelled` (history) is the exact way as one
integer, which the addresses are compared with. Floats are whole steps.

**PlayerInteraction.** The player presses keys and changes windows, events queue,
the loop takes them one by one and the callbacks act. `Pick` walks from border to
border as `BlockPicker.cpp` does; the properties use the distances at which the ray
enters and leaves a cell, with no walk. Directions are integer vectors, so distances
are compared exactly.

**ContentRules, Startup.** A file is a list of entries, an entry a function from
fields to typed values, a field check a set of values. `Startup` reads one entry per
step; a file that cannot be read, an entry that is refused and an exception that
nothing catches each end the start as in the code. Saving settings is one step per
call that may fail, with a kill in between. `parts` is the parts of `Application`
that exist, `teardown` what `shutdown` and the destructors do next.

## 3. Runs

| run | what it asks | instance |
|---|---|---|
| `scheduler` | conservation, bounds, a stable front, refinement of `DelayedDelivery`, no lost wakeup, shutdown | two producers, two messages, delays 0 and 1, handoff of one, clock 0..1, last sequence number reached |
| `runtime` | agreement of slots, routes, signals and actions, most specific lookup, additive registrations; reservation and guard of the pump, every message and output accounted for, what may strand a message | two slots out of four patterns, an explicit id that collides with a generated one, contracts of one and two outputs against a B of one, A of two, three ids, nesting of two |
| `queued_contracts` | what the header says of undeliverable messages in A — violated | same, without explicit ids |
| `streaming` | plan coverage, bounds and staleness, edits, plans that end, destructor | four chunks, radius one, stage of two, one commit per frame, two replans, failing generator |
| `world_state` | overrides, mirror of the sink, answers against visibility | one chunk with two cells, one region, two blocks sharing a property with different defaults, a transient property, an unknown block id |
| `rendering` | picture against world, books against Ogre, every chunk drawn at rest | three chunks of 2x2x2, four blocks (opaque, tinted with a default that shows, cross), one mesh per frame, two edits at a border, any order of commits and evictions |
| `gameplay` | who is calling, aborts, endings, bootstraps | two scripts, native commands, depth two, a tick at every instruction and a budget of one tick, up to three calls in one another, two bootstraps, one with two placements and a replacement declared on one of them |
| `frame_backpressure` | what a comment says of a full B — violated | same |
| `view` | exact position, scene in step, sticky anchor | two axes, 64 blocks, groups of two, two steps to a block, moves of one, four and thirteen steps, both ends of the address space |
| `interaction` | picking against geometry, clicks, keys | six blocks per axis in chunks of two, rays through edges and corners, an unloaded chunk, two queued events |
| `startup` | references, numbers as written, parts and their needs, user files | a content root of nine files with every change of one value, field, entry or file; words of 8 bits; several roots and settings files |
| `settings_save` | the atomic save — violated | same |

**Why the bounds are enough.** Scheduler: two messages are the fewest that can
be out of order, a handoff of one is full with one of them, and two producers
reach every interleaving of two calls; the last sequence number is within reach so
its refusal happens. Runtime: two slots are the fewest that can differ in how specific
they are, the patterns differ in two dimensions, and that the probes are right in all
three is proved (`MostSpecific`); the counter reaches the colliding id; a contract that
fills B and one that exceeds it, with room for a second message behind the first and a
handler inside a handler. Streaming: the view is three of the four
chunks, so a move keeps two, drops one and brings one; a stage of two is smaller
than the plan of three. WorldState: one cell with and one without a worldgen block;
three values so that a value differs from both defaults. Rendering: a border with a
block on each side, merged and unmerged faces, more dirty chunks than the budget.
Gameplay: a query inside a protected call inside an invocation, a closer or a
finalizer in each, an abort at any instruction, a full A and B, and a second bootstrap
that the first one may hold up or, by its failure, stop. View: carries
go through tiers with one digit and with two, both ends are passed, and the longest
move jumps over more than two groups. Interaction: several borders at
one distance, with and without a block behind the corner, and a block that is placed
into the cell of the player. Startup: a mistake at a
time, since the checks of two fields do not influence each other; words of 8 bits
have the same borders as words of 32.
Bounds of the models that the code does not have: `TimeMax`, `AutoLimit`, `MaxId`,
`MaxDepth`, `MaxEpoch`, `MaxEdits`, `TravelBound`, `MaxHeld`, `MaxQueue`,
`MaxClicks`, `MaxSlots`, `MaxNesting`, `HandlerRuns`; each is a constant that appears in
a guard.
In the MC modules of the runs that do much arithmetic a constant is given by a
definition that only names its value: TLC evaluates the body of such a definition at
every use and the named value once, which halves the time of those runs.

**Fairness.** Scheduler: weak fairness of the clock, of the worker, of a call that
began and of the owner, which calls `drainDueTo` in every frame
(`app/Application.cpp:393`); strong fairness of a submit that is not refused as
full, because the frame empties A after every drain (`Application.cpp:394-395`).
Nothing makes a producer schedule or a closer close. Runtime: none. Nothing in the
program takes outputs from B, so no liveness of the bus is claimed (see
`frame_backpressure`). Streaming: both threads run, and `update` is
called every frame; it is strongly fair because `flush` or an edit may be what the
main thread does in between. Rendering: the loop of `main` turns
(`WF` on the place in the frame, so edits cannot hold it up). Gameplay: the one game
thread goes on. Nothing is assumed of streaming, which loads only what the camera is
near: that a bootstrap's cells ever come is not guaranteed, so
`OnlyMissingCellsWait` is a safety property. Scripts are not assumed to end.
`LoneInvocationsEnd` shows how far that is right: no invocation goes on for ever by
itself, whatever it catches or handles; one that queries again and again may, and so may
a finalizer (see "Observations").
Nothing makes the camera stop: the bound on replans does in `streaming`, the
antecedent `Rest` in `rendering`.

**Disagreements checked by a run.** The quotes are in `PROJECT.json`.
1. `frame_backpressure`: nothing takes outputs from B, so the replies of
   asynchronous commands fill it; `pumpOne` then throws out of the frame and the
   program ends, where the comment speaks of a retry.
2. `queued_contracts`: the header says that a message whose contract exceeds B never
   enters A and never blocks its head; `submit` tests the slot of that moment, and a
   more specific slot that is registered later gives a waiting message such a contract.
3. `settings_save`: the stream is tested before it is flushed, so on a full disk an
   incomplete settings file is renamed into place.

**Observations.** Met while modelling, not kept as runs; the models contain the
behaviour, and the properties are stated around it.
- Staged messages are not reordered, so the total (due, sequence) order that
  `DelayedMessageScheduler.h:56-58` promises does not hold. The weaker order that
  does is `DelayedDelivery`.
- The rollback of `registerHandler` (`CommunicationRuntime.cpp:254`) erases an action
  it did not insert when the generated id was registered by hand before; the slot
  bound to it stays and can only throw (`CommunicationRuntime.h:136-137` says that a
  failed registration leaves no state behind). If that action is at work, its function
  object is destroyed under it. `BoundActionsExist` and `RegistrationsAreAdditive` name
  this one case and exclude every other. Nothing in the program registers actions by
  hand today.
- A later, more specific slot also changes the capability that a waiting message needs.
  `OnlyRegistrationsStrand` says that nothing else strands a message.
- `docs/DECISIONS.md:126-132` and `137-139` (ADR-033) say of the Lua runtime more than
  the code keeps, since `setmetatable` is in the sandbox and ticks are charged to
  whoever is on top:
  "Outbound `sender` is always the host `ScriptBinding` principal": a message that a
  finalizer sends has the principal of the invocation it interrupted, which may be
  another script's (`SenderIsActing` says it so).
  "a budget abort is an UNCATCHABLE host abort": a to-be-closed variable of the aborted
  invocation runs and may replace the sentinel by an ordinary error; `invoke` then throws
  an ordinary error (`GameplayLuaRuntime.cpp:1491-1496`), which a script that waits for the
  answer may catch. The aborted invocation itself does not go on (`AbortIsFinal`).
  "Gameplay scripts must not freeze the game thread (budget)": a loop of queries whose
  ticks all fall in the nested runs, each with a fresh budget
  (`GameplayLuaRuntime.cpp:1478`), never pays and does not end, and a finalizer runs
  without the hook. `LoneInvocationsEnd` leaves out exactly these two.
- A failed bootstrap stops all others for good (`Application.cpp:376-384`).
- `flush()` can return while the last chunk is in the worker's hands, because
  `mInFlight` is decremented before the result is staged
  (`ChunkStreamingManager.cpp:191`, `ChunkStreamingManager.h:47`).
- What the sink promises about removed values (`PersistenceSink.h:39-43`) does not
  survive the eviction of an edited chunk. `BasePlusDeltasIsWorld` excludes chunks
  that were evicted while dirty.
- A tint is projected only when the world state announces a change
  (`Application.cpp:124`), and a chunk that world generation fills
  (`ChunkStreamingManager.cpp:250`) is no such change: a block that is generated with a
  non-zero default of its tint property is drawn untinted until somebody edits it, where
  `docs/REGISTRY.md:62-65` says that a resolved non-zero value is decoded. The instance
  has such a block, and `PictureIsWorld` states the exception exactly (`ShownTints`): an
  untouched block of world generation is drawn with its tint or with none, every other
  block with its tint.
- A setting is converted to its type before its range is tested (`Settings.cpp:26`):
  a width of 2^32 + 1280 is accepted as 1280, a render distance of 32.5 as 32.
- Some steps of the start are outside any `try`: a missing `core:air`, a collision of
  prototype hashes, a JSON number too large. They end the program by `terminate`.
- `visualTintProperty` is not checked against the sidecar types, unlike the other
  references between files (`docs/REGISTRY.md:172`), so `ReferencesResolve` does not
  speak of it.

## 4. Proofs

The named assumptions on the constants are all that is assumed: finite or infinite
sets of producers, cells, names and files, any capacity of at least one, any clock
and sequence range, any geometry and tables that are well typed.

* **Scheduler** (`DelayedMessageSchedulerProofs`). The inductive invariant is
  `FrontInv`: types, and that the front the owner looked at stays the front while it
  works without the mutex. Without the second part popping the front is not even
  type correct, because the deque could be empty. From it: `TypeCorrect`,
  `FrontStays`, `StagingBounded`, `NothingEarly`, `Closed`, and `Safe`, which joins
  them to the invariant that the run checks.
* **Refinement** (in the same module). `DeliveryInv` adds that sequence numbers
  are distinct and smaller than the counter (`UniqueInv`) and that nothing in the
  heap should precede anything staged, nor a later staged entry an earlier one
  (`OrderInv`). It is preserved by a move because the least entry of the heap
  precedes no other, and by an accept because the new number is the greatest. A step
  of `Submit` is then a `Deliver` or `Drop` of the abstract module, a worker's move
  a stutter. `Conservation` is proved over the abstract steps: `CountInv` is
  preserved by each of them, and the refinement transfers it.
* **WorldState** (`WorldStateProofs`). `StepKinds` reduces every step to a refusal, a
  block write, a property write, a load or an eviction. `NoZombies` is inductive
  with the types (`OverridesSafe` joins the two). `NoOverwrites` follows from the
  step kinds. `Mirrors` needs `DirtyAccounted` as well: a chunk with a recorded
  delta is dirty, so evicting it is noticed. The action properties follow from the
  types and the step kinds: `AnswersTrue` because a store or an erase changes exactly
  what `Get` reads there (`ReadsBack`) and a block write what a reader sees
  (`BlockSeen`), `WritesRead` because an entry that is left out reads as the default.
* **Registries** (first part of `CommunicationRuntimeProofs`). `StepKinds` reduces the five
  registrations to a new signal, a change of the actions alone, and a new slot whose
  signal is, or becomes, declared with a schema that it may expect. `RegistriesInv`
  is inductive over these, over the steps of the whole runtime, and `Additive` follows.
  That a slot's action stays registered needs to know where actions come from
  (`ActionsHaveAnOrigin`): the next id to be generated is none of those generated before
  (`NextNotGenerated`), so only one that was registered by hand can meet it, and the
  rollback erases no other. For `MostSpecific`, the keys that
  accept an address are exactly its probes (`ProbesAccept`), the probes come in
  descending specificity (`ProbesDescend`), and a set of hits has a first
  (`FirstHit`); that the other table gives the same answer needs that both have the
  same keys, which is the invariant.
* **Runtime** (the rest of `CommunicationRuntimeProofs`). `BusInv` is inductive: `PumpInv`, the
  registries' invariant, and `SlotsKnown`, that every handler that runs and every output
  has a slot, which later registrations do not change. Without it the reservation
  `Len(outbound) + maxOutputs <= OutCapacity` speaks of a slot that may be another after
  the step. `NothingLost` adds `Provenance`: every id in use is smaller than the next
  one, accepted ids are distinct, and a handler runs an accepted message exactly if it
  runs for the pump. So the answers to a message are in B at once, when its handler
  ends, and `OutputsByPosition` bounds them by the batch. For
  `StrandedByRegistration`, no step but a registration changes what a lookup finds, and
  one that does change it finds the new slot, earlier among the probes, which descend
  strictly in specificity (`ProbesStrict`, `LookupMoves`).
* **Streaming** (`ChunkStreamingProofs`). `StageInv` is inductive: `StagingInv`, the
  bound of the batch that is being committed, the counter of jobs in the worker's hands
  (`JobCounted`) and the room for a replan. `PlanCovered` counts the positions of a
  chunk in the queue, in the stage, in the batch and with the worker; `CountJoin`,
  `CountTail`, `CountAppend` and `CountSplit` say what an operation on a sequence does
  to the number. Its invariant needs that what is queued or in a batch is of the present
  epoch and only the worker may hold an older job (`EpochsCurrent`), that no batch is
  left over when the next plan is made (`BatchInCommit`), and that between eviction and
  enqueue nothing of the plan is on its way (`PlanEmpty`). `EditsSurvive` follows from
  the types and the steps.
* **Gameplay** (`GameplayFrameProofs`). `BootInv`: a bootstrap that is neither complete
  nor being made was never touched unless the latch has fallen, the one being made is
  at its place in the second loop or at its one start, and all its cells stay loaded
  until the loop ends; `StartsOnce` and `PlacesAllOrNone` follow. `OnlyCellsWait` adds
  `Passed`: while an update is at work, each bootstrap behind the present one is complete
  or waits for a cell, and no cell changes in between. `CallersInv`: the two
  stacks match entry by entry, which the lemmas `GrowTogether`, `ShrinkTogether`,
  `ChangeContext` and `ChangeFrame` carry through every call, return and unwinding; a
  context with a cause has a principal; every queued, scheduled or handed-over message
  is one that its author may send, or a finalizer in the middle of an invocation
  (`Sent`); while a handler runs, B has room for its replies (`PumpInv`).
  `CallersAreKnown` follows. `AbortsHold` is an action property with an invariant of its
  own, `Spent`: an invocation that ran out of budget is in one of its closers, or has
  called no one and an error is on its way, and whatever finalizer runs in it lies above
  one of its closers (`Covered`). A closer keeps the error that it interrupted
  (`Held`), so what comes after it is an error again, whichever it is.
* **Startup** (`StartupProofs`). `UserFileKept` is not inductive: a rename replaces
  whatever is there. `SavesWhatIsAbsent` says that the save runs only where the load
  found no file, and no other step touches one. For the parts, `PartsInv` lists what
  each stage of the start has made (`PartsByStage`), that a start which fails before
  the renderer has nothing that refers to the world (`FailedEarly`: the order of the
  members alone would destroy the world under the gameplay), and that in what is left
  to destroy, a part comes after every part that refers to it (`TeardownOrdered`).
  For the content, `TablesInv`: each table holds what the entry at the same place of its
  file becomes (`ReadAsFiled`), which is what `RegisteredAsWritten` and the alpha rules
  follow from by the lemmas about one entry (`WordFacts`, `BlockWritten`,
  `SidecarWritten`, `BlockAlpha`); the references of each table, which appending to the
  tables they point to keeps (`AppendIds`), the defaults that a sidecar type holds
  (`SidecarHolds`), and the targets of a bootstrap among its own placements
  (`Aimed`); and the order of the files (`OrderInv`),
  without which a sidecar type could come after the prototype that was tested against
  another.
* **Rendering** (`ChunkRenderingProofs`). `GpuMatchesBooks` alone is not inductive: a
  start that fails at a material clears the materials and nothing else, which is right
  only because no object or tint exists yet, and `sync` recreates what the pending chunks
  hold, which is right only if they are chunks of the row and an object that was moved
  still is one. `BooksInv` adds these. That destroying one chunk's objects destroys
  nothing of another is `HandleKind`, and that it destroys no tint or material is
  `OtherKinds`. How faces merge plays no part here: the mesh of a chunk is any set of
  quads. `NothingLeft` follows: when the renderer is gone, `gpu` is empty.
* **Merging and picture** (the rest of `ChunkRenderingProofs`). `Greedy` is defined by
  recursion over sets of faces; `GreedyDefined` shows that such a function exists
  (`Reaches`: what is left after some number of steps, as the least set that is closed
  under a step). `GreedyTiles` says that its quads tile a slice: every visible face
  under exactly one. A slice that is not tiled would have a least rest that is not, by
  the place of its first face, and one step further is another (`LeastNumber`). A mesh
  draws the faces of its chunk and each once (`MeshCovers`, `MeshOnce`), because the
  slices of a direction go over the cells of a chunk once (`SlicesCover`, `SlicesOnce`)
  and a quad that merges has no tint (`TileFaces`). `DrawingInv` is inductive:
  nodes stand where their chunks are (`PlacedInv`), nothing is drawn before the first
  sync (`ListenInv`), the tints of loaded chunks are those that `ShownTints` allows and
  those of a chunk that is gone do not survive the next sync (`TintsInv`: without it a chunk that
  comes back would have old tints), and what is not dirty is drawn as it is
  (`DrawnInv`). The faces of a chunk that nobody was told of have not changed
  (`SameFaces`), since whatever lies across one of its faces tells it (`AcrossIs`).
  The faces themselves are compared with the tint that the renderer has been told, and
  that tint with the property's.
* **Coordinates** (first part of `PlayerProofs`). `Carries` recurs over six digits; that its
  function exists and is unique is `CarriesIs`. A digit and the carry that it sends on
  are worth what came in (`DigitStep`, `CarryStep`), so an offset adds exactly its
  blocks, and fails exactly where the sum has no address (`BlockOffset`); the order of
  digits is the order of the numbers (`FlatDecides`). The bisection of `BoundedDelta`
  exists and finds the offset if there is one in its range, also when a probe fails
  beyond an end of the world (`BlockDeltaIs`, `GroupDeltaIs`): a range in which it went
  wrong and that is as short as any has a shorter one in it.
* **View** (second part of `PlayerProofs`). `ViewInv`: anchor and camera add up to the way
  travelled until a rebase fails; while the scene is posed, owner and pose do too; the
  box is the outline of the selection for the present owner. `PositionHolds`,
  `SceneHolds` and `AnchorStickyHolds` follow with the exact offsets and distances.
* **Input** (third part of `PlayerProofs`). `InputIsTrue` speaks only of an empty queue, and
  what waits decides whether it will hold. `Foretold` says that the waiting events,
  polled one after the other, lead from the present belief to keys that the player
  holds, to none while the window is not focused, and to a flashlight that has counted
  each press. An event that is posted extends the sequence of beliefs (`Posted`), one
  that is polled takes the first away (`Polled`); the sequence is a witness and not a
  recursive definition, so no induction is needed.
* **Picking** (last part of `PlayerProofs`). The walk of the ray is a recursive function
  over cells and next borders. It ends: each turn crosses a border and the borders
  within reach are finitely many (`StepsLeft`), so a function is built rank by rank
  (`WalkExists`, `WalkDefined`). `Walked` is the invariant of a turn: the ray goes along
  the present cell, the next border of each axis is known, and there is no block here.
  `Sees` says what the walk finds from a cell on; a turn carries it back from the next
  cell (`SeesStep`), and from the end of the walk to its start (`WalkEnds`). So the pick
  is the first block that the line of sight goes through (`PickHolds`), and a click
  changes that block or the cell before it (`ClicksHold`).

**Induction over data.** The induction theorems of the library cannot be instantiated
by the provers. Where a proof needs induction, it takes a least counterexample: a
nonempty set of natural numbers has a least element (`NatLessThanWellFounded` with
`WFMin`, which have no operator parameter). So recursive functions are proved to exist
and to compute what they should (`Greedy`, `BoundedDelta`, the walk of `Pick`).

Assumptions added for these proofs, and why the code justifies them:
- no principal is empty (`PrincipalsAssumption`), no bootstrap places air
  (`BootstrapsAssumption`): the loader of the manifest checks both;
- a block has a positive number of steps along its edge (`SubAssumption`), and int64 has
  positive and negative numbers (`IntAssumption`);
- distances that the program compares fit an int64 with their negatives
  (`FitAssumption`): they are edge lengths, a view distance and a reach of some thousand
  blocks;
- the first position lies in `DynamicSpace` and has an address, like the group after it
  (`StartAssumption`): the program starts 128 blocks from the origin of the world
  (`Application.cpp:177-185`), a little above the ground;
- targets, stands and generated blocks are canonical addresses (`ViewAssumption`,
  `InteractionAssumption`): `requireCanonical` refuses others.

Only model-checked: liveness (`EveryMessageLeaves`, `ShutdownCompletes`,
`PlanEnds`, `DestructorReturns`, `EveryChunkDrawn`, `LoneInvocationsEnd`), since
fairness and ENABLED are outside the prover's reach. Every invariant and every other action property of the
passing runs is a theorem. `ClosedToNewWork` and `NoSilentOverwrite` are proved and in no
run.

## 5. Not modelled, and why

*World generation* and *noise* are functions in floating point with no state; where
they matter they are a call that returns or throws (`ChunkStreaming`), a constant
(`WorldState`), or a step that succeeds or fails (`Startup`). The loader of
`worldgen.json` repeats the shapes of `ContentRules` for one more file. The *Ogre
back end*, windows, overlays, logging and formatting keep no state a property
could be about. In the renderer, vertex layouts, generated images and the colour
arithmetic of a tint; in the Lua runtime, the conversion of payloads and the tables of
the sandbox (metamethods other than `__gc` and `__close` run where the script itself
does; a finalizer that runs while no script does finds no context, and its bus calls
are refused); in the loader, the text of paths. Change listeners of
WorldState that change the world: there is none. A trace sink may not change
anything by its own guard. Nothing reads the persistence records back, so there is
no recovery to model. Allocation failures and the loss of power (the code never
calls fsync) are ignored everywhere. Bags of a whole tier are never removed by any
caller. Rounding of floats. Third-party code is external.

## 6. Plan

Done, in this order: scheduler with its abstract specification and refinement;
registries; runtime over the registries; streaming; world state; rendering; Lua and
the gameplay frame; coordinates and the view; interaction; content and start.

Proved, in this order: scheduler with its refinement, world state, registries,
runtime, streaming, start, gameplay frame, books of the rendering, input, coordinates,
view, picking, merging and picture. Every safety property that a run checks is a theorem.

Next: the loader of `worldgen.json` and the ownership of structures across chunk
borders; and, once it is decided what the code should do, `PictureInv` without the
exception of `ShownTints`, `SenderIsActing` without that of finalizers, and
`BoundActionsExist` without that of the rollback.
