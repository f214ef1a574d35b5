# A TLA+ verification of the dataflow engine

`dataflow` executes a *chain* of tasks whose operands do not fit together in a
device's fast memory.  A planner annotates the chain with directives (release,
offload, prefetch); the runtime executes it asynchronously, moving objects
between fast and backing memory behind the computation.  A service keeps the
objects resident between runs and moves them between hosts, a simulator and its
policies make the plans, and a training stack generates the programs and drives
fleets of services.

This directory models the runtime (dispatcher, lanes, ledger, pool and
allocators), the service (calls, events, store, snapshots, peers, groups), the
planners with their simulator and workload generator, the lowering of model
families to programs with the blocks that run them, and the training loop with its
data feed and checkpoints.  All of it is checked with TLC; what is also proved with
TLAPS, for every value of the constants, is in section 4.

## 1. The system's parts

| Part | Source | How it interacts | Modules |
|---|---|---|---|
| Program IR, validation | `dataflow/core/` | `validate_program` is the only check before a run | `Engine` |
| Dispatcher, lanes, ledger | `runtime/engine.py`, `transfers.py`, `ledger.py`, `objects.py` | one control thread takes completion tokens and drives two FIFO lanes | `Engine` |
| Buffer pool, slab, placement | `runtime/pool.py`, `slab.py`, `placement.py` | where fast buffers come from, over the runs of a session | `BufferPool`, `Extents` |
| VMM arena | `runtime/device/vmm.py` | the pool's other source of memory | `VmmArena` |
| Service, client | `service/server.py`, `client.py`, `handlers_runs.py` | connections, tickets, one dispatcher, events, runs, shutdown | `Service` |
| Store, snapshots | `service/store.py`, `handlers_store.py`, `handlers_snapshot.py` | catalog, leases, parked calls, payload thread | `Store` |
| Peer protocol | `service/peer/core.py`, `nm.py`, `protocol.py` | moves objects between two stores | `PeerLink`, `Delivery` |
| Groups, collectives | `service/peer/comm.py`, `groups.py`, `nm.py` | host-memory collectives on device streams | `Collective`, `PeerGroup` |
| Simulator | `dataflow_sim/engine`, `core` | timed semantics of annotated chains | `Chain`, `Simulator` |
| Policies | `dataflow_sim/policies` | emit the directives | `Residency`, `PressureFit`, `MaxReduce`, `MinGrow`, `PolicyCommon`, `Roundtrip`, `Belady`, `Policies` |
| Workloads, recomputation | `dataflow_sim/workloads`, `planning` | training programs of ten model families; what to recompute | `SimModules`, `SimModels`, `SimBuilder`, `RecomputePlan` |
| Lowering, blocks | `dataflow_training/lowering`, `blocks`, `model_families` | the programs the engine runs, and what their tasks do | `Lowering`, `Blocks` |
| Data feed | `dataflow_training/data` | sequences packed into the rounds of a step | `Feed` |
| Training run, checkpoints | `dataflow_training/run`, `distributed`, `dataflow/checkpoint` | launches step a fleet, save and resume | `Checkpoint`, `Training` |

`PROJECT.json` lists every part with the reason when it is left out, and every
hazard found while reading the code, those no property covers included.

## 2. The modules

`MC*` modules hold the small instances the `.cfg` files use.  `EngineTypes`,
`EngineHandlers`, `EngineSafety`, `StoreProofs`, `StoreSnapshots`, `GroupProofs`,
`ServiceProofs` and `AlgorithmProofs` hold proofs (section 4).

### `Engine`

The code has one control thread.  Between two completion tokens it runs
straight-line code, so a step of the model is: take one token (or find that
there is none), then do everything the handler does.  The handler's calls are
operators on the record `mem`, composed in the order the code calls them, so
that a trailing poke of a lane is part of the step.

| Model | Code |
|---|---|
| `pc`, `cursor`, `outstanding` | position in `run_dispatch`, `state.cursor`, the launched task |
| `mem.fast`, `mem.backing`, `mem.ver` | `ObjectRecord.fast/backing` (`Slot`), `current_version` |
| `mem.used` | `Ledger.used` |
| `mem.held`, `mem.inc` | instances the pool has handed out; the next incarnation of a tag |
| `mem.h2dq/h2din`, `mem.d2hq/d2hin` | `TransferEngine.queue` and `inflight`, per direction |
| `mem.deferred` | `deferred_prefetches` |
| `blocked`, `escaped`, `evictions`, `cancel` | `was_reserve_blocked`, `escaped_outputs`, `pressure_evictions`, `cancel_event` |
| `LoadInitial`, `LoadInitialRaises` | `_load_initial` |
| `BeginTask`, `Paced`, `InputsObserved`, `Launch` | the phases of one iteration: cancel check, strict pacing, input wait, reserve and launch |
| `TakeTaskDone`, `TakeH2DDone`, `TakeD2HDone` | `_on_task_done`, `_on_transfer_done` |
| `EscapeOutputs`, `PumpH2D`, `EscapeHead`, `EvictForPressure`, `DeclareDeadlock` | what a blocked dispatcher tries when nothing is in flight, in the code's order |
| `BeginDrain`, `Finish`, `FinishFailed` | drain, stuck-transfer and final-location checks, `RunScope` |

An exception is the field `mem.err`; the dispatcher then goes to `failing` and
on to `end`.  Abstracted: time (outstanding work may complete in any order, which
includes every order the durations could produce); bytes (an object's contents
are its version number, a buffer is an instance `<<object, incarnation,
dynamic>>`, a placement is the relation `clash` of instances whose assigned
ranges overlap); the effects of the earlier iterations of a loop over directives
that raises (the run is over and every instance is reclaimed).  A capacity of
`None` is a number no program reaches.  Host tasks, which `run_dispatch` refuses,
statistics and vendor allocation failures are left out.

`validate_program` checks structure only; what directives do to memory is left
to whoever wrote them.  `Coherent` therefore says what the engine may expect of a
planner: reasoning *as if every transfer took no time*, each directive is
legal, each input is in fast memory, a copy is only given up after some task has
used it, and instances brought into being by one task are packed apart.  Nothing
is assumed about capacity or completion order, which is what the properties are
about: the plan is made for an ideal machine, and the engine has to keep it
right on a real one.

### `Extents`, `VmmArena`, `BufferPool`

`Extents` has the two sub-allocators as operators on a set of holes: best fit
(the runtime's slab) and first fit (the service's store), carving and
coalescing.  `VmmArena` has the arena as a record and its operations as
operators.  `BufferPool` is a session: four regimes (slab, recording, placed,
vmm), births and deaths of objects as the engine asks for them, the flush under
fragmentation, the overflow arena, escapes, the poison writes that run behind on
the compute stream with their guard events, failures, and the change from
recording to placed between runs: the packing sweep under each order, the placement
that does not fit (`PlacementFails`), the run that asks for another size than the
recorded one (`ShapeChanges`).  A new arena holds the granule its warm-up cached.

### `Store`

Three kinds of threads touch the store: the dispatcher, which runs queued calls
one at a time; the payload thread, which copies snapshots out and restores in;
and the threads that end peer sends.  A call that meets a read lease raises
`LEASED` and is parked; a release of leases puts all parked calls back in the
queue.

| Model | Code |
|---|---|
| `cat`, `free`, `data` | `Store.objects` (extent, `lease_refs`, `protected`), the allocator, the slab |
| `fifo`, `hand`, `parked` | `Dispatcher.fifo`, the call in its loop, `_parked` |
| `jobs`, `job` | `PayloadThread.jobs` and the job it is at |
| `lease` | who holds leases, on which extents, and what a restore created |
| `Submit`, `TakeCall`, `Park` | `Dispatcher.submit`, `run` |
| `Put`, `Duplicate`, `Release`, `Protect`, `Wipe` | the store's verbs |
| `Run` | `run`: lease pre-pass, binding, execution, `capture_finals`; a run that fails leaves some of its writes |
| `Snapshot`, `Restore`, `Send` | the admissions that take leases |
| `AdmissionRaises` | the `except` clauses of the snapshot and restore handlers |
| `TakeJob`, `CopyObject`, `PlaceObject`, `FinishJob`, `FailJob` | `snapshot_job`, `restore_job`, one step per object |
| `ReleaseLeases`, `UnparkAll` | `release_leases` and its hook |

A handler is one step, since only the dispatcher takes leases and every other
thread only releases them.  Two gaps are steps of their own because other
threads do run in them: between `LEASED` and parking, and between the release of
a lease and its hook.  Bytes are the number of the call that wrote them; an
extent holds one object, so a refusal that compares sizes may come whenever the
code reaches the comparison.  Files, hashes and slices are left out here.  A run
captures at most one final object.  `want` and `due` are history variables.

### `Service`

Per client a calling thread and a reader thread, per connection a thread of the
daemon, one dispatcher, and the thread that serves and shuts down; a step is what
happens under one lock or one push on a socket.  Runs have records, events and
the one cancel flag; the event log is a ring (`RingCap`).  `pushes` has the events
a thread has copied out of the lock and has still to push, each with its client;
it pushes them in the order of their numbers.

### `PeerLink` and `Delivery`

`a` is the sending daemon (tickets, sender machines, `dest_queues`, its stream),
`b` the receiving one (receiver machines, dedup ring, quota, the store, the
dispatcher's queue of commits), `link` what kind of link it is.  Every message
kind has its handler actions on either side, each timer of `tick` is an action,
and so are `start_send`, an RDMA write and its failure, which drops the link, the
two halves of a queued commit, leases, faults of the transport, the drop of the
link on each side and reconnection.  `core` has the RDMA lane: whether A has a
writer and how B's queue pair stands.  Each side learns of the other by an
`RDMA_INFO` of its own, so ADDR can reach a sender that has no writer yet and
answers in frames; a failed bandwidth probe demotes the pair for later transfers.
A chunk lands in one step, although the reader copies it outside the lock: on one
link nothing else is read meanwhile, and local allocations are not modelled.

Time is left out: a timer may fire whenever its condition, the clock apart,
holds.  On a `timely` link it fires only when what it waits for is neither in
flight nor pending, that is, nothing outlasts the timeout.  Checksums are modelled
by whether every chunk that landed is intact and belongs to the send; corruption
is of chunk frames.  An extent holds one payload; sizes are compared through the
eager flag.  Parking is one step here; the gap in it is studied in `Store`.

`Delivery` has, per send, an outcome and a count of commits: a send begins, is
committed at most once, succeeds only if it was committed, or fails.
`DeliversOnce` is its specification under the mapping of tickets to outcomes.

### `Collective` and `PeerGroup`

`Collective` is the host-memory back end: the caller enqueues, the device stream
stages, parks on a flag and copies back, a worker thread exchanges over the
socket or by RDMA.  A tensor is two halves, and a half is the set of
contributions it is the sum of.  `PeerGroup` adds creation, RDMA bring-up and its
probe, the join barrier, the builders, the reader of each link, a group's death
and its fan-out over a star of links.  A group lives until it fails: destroying
one is not modelled.

### Simulator, policies, workloads

`Chain` is the planner's program with the static prepass that accepts or rejects
it; `Simulator` the event-driven replay, with a version per copy so that a stale
read can be told from a good one.  `Residency` is the interval model of
PressureFit, `PressureFit` its reducer (boundary sums, the lazy heap of overflows,
the cache of split options), candidates and repair, `MaxReduce`,
`MinGrow`, `Roundtrip` and `Belady` the other policies, `Policies` the choice of
one and the replay of what it returns.  Where the code walks a set of strings,
the order is an input (`Orders`).

`SimModules` has the cost of every operation and the attention and state space
modules, `SimModels` the feed-forward parts, the blocks and the layer specs of the
families, and `SimBuilder` the builder that schedules them into a program.  The
costs are there for `WorkAccounted` alone; the other properties see objects and
tasks.
`meaning[o]` is what each object was computed from.  `RecomputePlan` is the hill
climb over recomputation levels, over every table of makespans.

### Lowering and blocks

`Lowering` makes the chain of tasks of all steps and rounds, cuts it to what a
freeze policy leaves to train, drops the objects an exact layout sizes to zero, and
launches the tasks in order.  An executable finds its buffers by their position in
the task's lists, as the code does, so a list that lost an entry is read wrongly
here too.  A weight is how often the optimizer has stepped each of its fields; a
gradient is the sequence of contributions summed into it; every other value is the
set of facts it was computed from.

`Blocks` is one level below: the forward of a family's block as a list of stages
over a dictionary of intermediates, the recompute as a prefix of that list, the
backward with what it reads, and the objects that carry routing and selections
between them.  Field names are the code's, because stages, saves and backwards
meet by name.  A value is the set of what it was made from.  A selection that is
made again may come out differently, as ties and reduced precision allow.

### Data feed, checkpoints, training

`Feed` has the readers of every corpus format with their cursors, the ingest
thread's queue and both packers.  `Checkpoint` has who saves which bytes,
the record that makes the snapshots of all ranks one checkpoint, and the plans
that restore it.  `Training` composes them: launches that take the lock, boot
daemons, warm up, restore, step with a batch packed ahead, save and prune, under
crashes, dead daemons, failing snapshots, timeouts and unreadable data.  A byte
of state is the logical byte it stands for and the batches it was trained on.  A
launch starts anew, resumes "auto" or names a step (`Ways`, `Resolved`).  The
settings of a run are constants, so that the checks of a resume against them
(`conductor.py:302-310`) and of a rank's capacity (`loop.py:269-279`) pass in every
state and are left out; so is the fast-forward of checkpoints that predate data
cursors, since every save here has one.

## 3. What is checked

| Run | Instance | States | Shows |
|---|---|---|---|
| `engine_plans` | every coherent plan of 3 tasks over an initial object and a produced one in ample memory, every clean plan over three objects in a memory for two, and one program whose initial objects do not fit | 1,065,810 | `LedgerExact`, `NoMisfire`, `ReadsSequential`, `LanesUndisturbed`, `AmpleMemorySuffices` |
| `engine_scenarios` | nine situations: stranded reservations, thrashing, escapes, refetches, full backing memory | 700 | `OffsetsDisjoint`, `PoolReturned`, `Terminates` |
| `store_calls` | five workloads of up to five calls, submitted in every order | 117,983 | `ExtentsOwned`, `LeasedStable`, `SnapshotExact`, `LeasesEnd` |
| `service` | six pairs of client scripts, an event ring of two | 115,333 | `CallsEnd`, `NoEventMissed`, `CancelsOnce` |
| `peer_link` | a steady link with queued commits and leases, a lossy one with every timer free to fire, one whose queue pair comes up and is demoted, one that drops and reconnects | 67,716 | `NothingTorn`, `CommittedOnce`, `DeliversOnce`, `OverwritesInOrder`, `EverySendEnds` |
| `groups` | ten fleets of one group each: two collectives on both lanes, failing probes, demoted lanes, breaking links, members that cannot attach | 114,631 | `SumsRight`, `AttachmentBarrier`, `StreamsDrain` |
| `planning` | chains of 4 to 6 tasks that overflow fast memory, some with workspaces, under all five policies | 62,761 | `BookkeepingExact`, `Fits`, `ReadsLatest`, `SearchKeepsBest` |
| `training` | up to three launches with up to two faults, over streamed, saved, re-saved and refused configurations | 142,806 | `TrainsOnTheStream`, `RecordsResume`, `EachTokenOnce` |
| `components` | the ten families' specs over small shapes, simulated programs of two layers and two rounds, many tables of makespans, programs of three layers lowered under freeze policies, stacks of every family's blocks; two runs of a session over three sizes, in every regime of the pool | 750,364 | `TrainsSequentially`, `WorkAccounted`, `SearchNeverLoses`, `TrainsEveryRound`, `FreezeExact`, `BackwardSeesForward`, `GradientsWhole`, `MemoryPartitioned`, `PoisonOrdered`, `ArenaExact` |
| `store_wakeup` | a write meets the lease of a send | finding | `CallsAnswered` fails |
| `peer_resend` | one send, DONE resent | finding | `CommittedOnce` fails |
| `planning_workspace` | chains with workspaces under `roundtrip_planner` and `belady_reactive` | finding | `Fits` fails |

Runtime

* `LedgerExact`: the ledger equals the bytes of the slots, and stays within
  capacity, in every state.
* `NoMisfire`: the only errors a coherent plan can meet are want of memory, a
  failing task and cancellation.  No completion order makes a directive fire on
  an object in the wrong state.
* `ReadsSequential`: a task reads live inputs, of the version that sequential
  execution gives them.
* `LanesUndisturbed`: the source and destination of a copy in flight are left
  alone, and nothing is fetched twice.
* `AmpleMemorySuffices`: when memory holds everything at once, nothing
  deadlocks and no transfer stays queued.
* `OffsetsDisjoint`, `PoolReturned`, `Terminates`: buffers at assigned offsets
  never overlap; whatever ends a run that got past its set-up, its buffers go
  back; every run ends.
* `MemoryPartitioned`, `ArenaExact`: every byte of the slab, the overflow arena
  and the VMM arena is free, cached or owned once, a packed placement keeps what
  lives together apart, and the counters say so.
* `PoisonOrdered`: nobody uses memory under a poison write that is still to come.

Service

* `ExtentsOwned`: every extent of a store is free or has one owner.
* `LeasedStable`, `LeasesEnd`: leases keep what they cover in place, and end.
* `SnapshotExact`: a snapshot holds what the calls admitted before it wrote.
* `CallsEnd`, `NoEventMissed`, `CancelsOnce`: see `Service`.
* `DeliversOnce`, `CommittedOnce`: at most one commit per send, and none claimed
  that has not happened.
* `NothingTorn`: an object's bytes are those of the send committed last, and the
  receiver's extents are free or have one owner.
* `OverwritesInOrder`: sends to one destination take effect in order.
* `EverySendEnds`: every ticket ends.
* `SumsRight`, `AttachmentBarrier`, `StreamsDrain`: a collective that completes
  on a lane it keeps has the right operands; the barrier means every member is attached; no stream
  stays parked.

Planning and training

* `Fits`, `ReadsLatest`: a replayed plan stays within fast memory, the workspace its
  source chain asks for included, and reads the latest bytes.
* `BookkeepingExact`, `SearchKeepsBest`: a policy's running sums agree with its
  spans, every overflow is in its heap and every cached option is the one that would
  be computed now, its shadow simulation's states agree with its schedules, and it
  keeps its best candidate.
* `TrainsSequentially`, `WorkAccounted`: a built program computes sequential
  training, counts each task's work once, and pairs each parameter with its
  gradient and its training.
* `TrainsEveryRound`: an optimizer step of a lowered program uses one contribution
  of every round of its step, each computed at the weights the step began with.
* `FreezeExact`: whatever a policy freezes, the program that is left runs to its
  end, steps what is trained once a step and never what is frozen.
* `BackwardSeesForward`: a backward finds what it reads, made in its round and from
  the selections its forward made, recomputed or not.
* `GradientsWhole`: after a round every gradient has one term of each round so far,
  whichever task created it.
* `SearchNeverLoses`: the recomputation search returns nothing slower than a plan
  it simulated.
* `TrainsOnTheStream`, `RecordsResume`, `EachTokenOnce`: whatever crashes, the
  model is one trained on a prefix of the stream, each sealed record whose directory
  was not saved into again resumes to it, and no token is dropped or trained twice.

**Bounds.**  Three tasks let an object be produced or fetched, used, given up
and fetched again, with another object's transfer ahead of it in either lane,
which is what a misfire needs: a directive, a transfer it overtakes, and a
second directive.  Under pressure there are three objects so that there is a
choice of victim while one is protected.  The scenarios reach up to five tasks.
`evictions` is bounded by the code itself (`ThrashLimit`).
Two runs of a session are what a stale buffer needs to meet a new owner, three
sizes what a hole needs to be split and joined.
In the store three objects over two extents let a call find part of what it
needs leased, missing or without room; five calls let a holder
of leases, two writers and a second holder meet.  On the link two or three sends
let one wait behind another and one be numbered like another; three extents with
a quota of one make refusals and retries happen; the fields `faults`, `drops`,
`leases` and `demotions` of a link bound what the environment does, `Tries` and
`RingSize` are the code's own limits made small.  A group of three with a star of links is the
smallest in which an error has to be forwarded.  Two faults (`MaxFaults`) let a
resume fail too.  Objects, clients and ranks play different parts, so no symmetry is used.

Two limits of the peer runs are stated by their constants.  With queued commits
the passing links are `timely`: without it, `peer_resend` shows what happens.  The
lossy link, where all timers fire freely, commits at once, which is the
environment the repository's own protocol tests use.  `NothingTorn` is stated of
links that last.

**Deadlock** is not checked where a system may stop: a run that has ended, a
script that is over.

**Fairness.**  `Terminates` is checked under `WF_vars(Dispatch)`: the control
thread keeps running, and `next_completion` returns while work is outstanding,
which is the contract of the device back ends.  Nothing is assumed about which
token comes first, and nothing about `RequestCancel`.  In `Store` the dispatcher
and the payload thread run, a send ends (which `EverySendEnds` shows), and a
release goes on to its hook.  In `PeerLink` both readers, both tickers, the
writer and the dispatcher run, leases are finite, and a side whose peer has
dropped the link notices.  In `Service` and `PeerGroup` every thread that can take
a step goes on to take one.  Clients submit, the transport misbehaves and links
reconnect only if they wish to.

### Findings

* **A parked call can be forgotten** (`store_wakeup`).  A lease released between
  the `LEASED` a handler raises and the append to `_parked` unparks nothing; with
  no later release the call is never answered.
* **A resent DONE is committed again** (`peer_resend`) while the first commit is
  queued: `handle_done` does not look at `committing`.
* **Workspace is lost in planning** (`planning_workspace`).  `_apply_annotations` and
  the shadow's `to_annotated_chain` rebuild tasks without `workspace_bytes`, which the
  schema says is charged while a task is active.  Plans of `roundtrip_planner` and of
  `belady_reactive` are simulated as if tasks needed none, and can exceed the capacity.
  In `planning` these two get chains without workspace.

Where the properties stop.  The models contain the following behaviours too; they
are why a passing run is restricted or a property qualified.

* A run that overflows a capacity while it loads its initial objects keeps the
  buffers it has drawn: its `RunScope` does not exist yet (`LoadInitialRaises`;
  `PoolReturned` excludes it).
* A prefetch of an object whose first prefetch is still queued is accepted and
  overwrites the slot the first one makes (`PrefetchDirectives`; no coherent plan
  does it).
* `capture_finals` puts produced objects after the run; if one is resident and
  leased, `put` raises `LEASED`, and the parked run starts again on inputs it has
  already mutated (`Run`).
* `wipe` raises `LEASED` after it has released other objects (`Wipe`), and a
  restore that runs out of slab in its admission leaves the targets it has created
  (`Restore`).
* A failed restore takes back its new objects although a send or a snapshot
  admitted meanwhile has leased them (`FailJob`), and releases its own leases in a
  later step, on whatever records the ids have then.  In the workloads of
  `store_calls` nobody else leases what a failing restore creates; otherwise
  `LeasedStable` fails.
* A dropped link frees the extent of a queued commit, which is then committed
  (`DropLinkB`); an acknowledgement crosses a reconnection, because send ids start
  again and `commit_landed` answers on whatever link the peer has.
* A queued send that times out stays in its destination's queue, and the head's
  end raises `KeyError` (`NegotiationTimeout`, `FinishSender`); a receiver that
  times out under a one-sided write gives its extent away (`ReceiverTimeout`,
  `RdmaWrite`).  A timely link excludes both.
* Parked commits are requeued at the tail, so that after a reconnection an earlier
  send can overwrite a later one (`ReleaseLease`).
* A shutdown waits 30 seconds for the dispatcher and then frees the slab; a ticket
  that is registered after the reader has failed all others waits for ever; a
  cancel names a run but sets the one flag of whichever run is next (`Service`).
* Two members can disagree about the lane when one probe fails late (`PeerGroup`).
  An all-reduce looks at the queue pair in `run_job` (`comm.py:469`) and again in
  `exchange` (`comm.py:429`); demoted on both ranks in between, the bytes go by socket
  and are dropped, and the stream adds a landing region nobody wrote.  TLC finds it in
  the fleet with a demoted all-reduce; `SumsRight` excepts the sums that a group made
  for RDMA delivers after its demotion.
* The minimum-pool check of `max_reduce` counts an object twice; `max_reduce` and
  `min_grow` can return chains the simulator rejects, which `Policies` replays and
  reports; the round-trip policy reads stale bytes when a chain rewrites an object
  that has a backing copy, so such chains are not given to it.
* A save into a step that has a record replaces its files one by one
  (`checkpointing.py:132`, `handlers_snapshot.py:225-226`) and the record last.  Cut
  off, it leaves the old record over torn files, against `compose.py:8-10` ("Any
  failure before that point leaves snapshot dirs on disk for forensics and NO
  record") and `docs/checkpointing.md:279-281`.  `RecordsResume` excepts such steps
  (`again`), and fails without the exception; the resume then raises on the hashes,
  and `TrainsOnTheStream` holds.
* Slices of a parameter are cut in units of the optimizer's element size
  (`responsibility.py:69-80`), while `rs_eligible` (`sharding.py:618-621`) asks only
  that parameter and gradient have one type.  Where the sizes differ (`Mixed` in
  `MCTraining`) every such save is refused: the slices leave the object or do not
  cover it.
* PressureFit verifies its candidates without workspaces at a capacity reduced by the
  largest; in the final replay tasks that need less leave more room, prefetches start
  earlier, and the plan it selected can raise (`Select`, `ReplayStep`), although
  another candidate might not.  `docs/dataflow_sim/policy/pressurefit.md:83-90`
  describes the replay.
* A pull after the end of the feed blocks (`Feed`).
* Of a tied table the freeze plan asks the rule of `embed.*`, while the sizes and the
  optimizer ask that of `head.*`.  A policy that freezes only the first drops the
  embedding's backward and still trains the table, so that `TrainsEveryRound` fails;
  such builds are left out of `MCBuilds`.
* The embeddings' backwards lay out their gradient without the optimizer policy
  (`EmbedBwd.egl`, `Gpt2EmbedBwd.egl`) while `emit.py` sizes it with the policy.
  The two agree when the policy freezes no single field of the embedding, which is
  what the builds and stacks have.

## 4. What is proved

The theorems hold for every value of the constants that satisfies the assumptions
named with them: every set of objects and programs with chains of any length, every
catalog, fleet, set of clients and table of rewrites.

* `TypeCorrect == Spec => []TypeOK` (`EngineTypes`), from `ProgramsAssumption`:
  finitely many objects, and each program passes `validate_program`.  The
  inductive invariant `TypeInv` adds that the program never changes to one
  outside the set and that a task in hand is a task of the chain.  Most of the
  work is one lemma per operator on `mem`; the ledger's natural numbers rest on
  `BytesFacts`, and the lanes' on `PickProperties`, proved by induction in the same
  module.

* `OffsetsSafe == Spec => []OffsetsDisjoint` (`EngineTypes`), from
  `ProgramsAssumption` and `PlansAssumption`.  The property is not inductive.
  The pool compares a *new* instance with those already held, but a task's
  outputs are all compared before any of them is drawn, so the pool says nothing
  about two outputs of one task.  They are apart because the placement packed
  them so, and that only speaks of first incarnations.  `OffsetsInv` therefore
  carries `Fresh`: an object that no dispatched task has produced has incarnation
  1, no slot, and no transfer queued or deferred.  That holds because directives
  name only objects the chain has produced by then, and because eviction picks
  only live objects.

* `EngineSafety` proves six properties of the dispatcher from the same two
  assumptions: `LedgerIsExact`, `PlansNeverMisfire`, `TasksReadSequentially`,
  `LanesStayApart`, `BuffersReturn` and `AmpleNeverDeadlocks` (`LedgerExact`,
  `NoMisfire`, `ReadsSequential`, `LanesUndisturbed`, `PoolReturned` and
  `AmpleMemorySuffices`).  One invariant, `PlanInv`, carries all of them.  It
  compares memory with the residency the plan predicts after the last task that
  has retired, object by object (`Follows`): the object is where the plan has it;
  or the plan has it in fast memory and it is still being fetched, waits behind
  its own offload, or was evicted and queued again, in which case a task uses it
  before any directive names it (`UsedFirst`); or the plan has given it up and it
  is still leaving.  Outputs of the task in flight are `Awaited` instead.  That
  last clause on eviction is the one the proof turns on: without it an offload
  could find its object evicted.  Each operator on `mem` has an effect lemma, and
  one lemma says that it keeps the plan; the actions compose these in the order
  of the handler's calls.  In ample memory a lane with something queued has a
  transfer in flight (`LanesBusy`), which is why the deadlock report cannot be
  reached.  `EngineHandlers` has the lemmas of the handlers, `EngineSafety` the
  actions and the theorems.

* `StoreProofs` proves `ExtentsHaveOneOwner` and `StoreSnapshots` proves
  `LeasesHold` and `SnapshotsAreExact` (`ExtentsOwned`, `LeasedStable`,
  `SnapshotExact`), for every slab, catalog and set of scripts that satisfies `StoreConstants`.
  `BaseInv` says that catalog and free list divide the slab, a call that is not
  answered is in one place and has no lease, and a job's leases cover what it has
  still to do.  `StableInv` adds that `lease_refs` counts the holders, so that
  neither another holder's release nor a refused call takes a leased record away.
  `ContentInv` adds what the bytes are: those of the last call that wrote the
  object, unless a restore is still to place it, and no restore in the queue
  writes what an earlier job has still to copy.  First fit is proved to hand out
  different free extents (`CarveFacts`, from `RankExists`).

  `LeasesHold` and `SnapshotsAreExact` assume `LeasesApart`: no other call leases
  the targets of a restore that may fail.  The code does not ensure it, since the
  rollback of a failed restore drops records whoever has leased them; the theorems
  say that this is the only way in which leases and snapshots can go wrong.  TLC
  evaluates the assumption on the scripts of the runs (`WorkloadsApart`).

* `BarrierMeansAttached == Spec => []AttachmentBarrier` (`GroupProofs`), for fleets
  of any number of ranks, from `FleetsAssumption`: a group has a coordinator.
  Nothing is assumed of links, probes, builders or time; they may fail in every
  state.  The property is not inductive, since reading a join replaces a member's
  record by one that is not attached.  `GroupInv` follows the one join each member
  is sent: while it is on the link the member has no builder, and no ack of its own
  is on the way or counted; once an ack is due, on the link or counted, the member
  has attached.  A second join would break this, and there is none because the
  coordinator creates the group once.  Most steps add neither a join nor an ack to
  any link (`Quiet`) and are proved by one lemma (`QuietStep`).

* `SubscribersMissNothing == Spec => []NoEventMissed` (`ServiceProofs`), for any set
  of clients and scripts of any length, from `ScriptsAssumption` (the requests are
  ones the daemon knows) and `RingAssumption` (the ring holds at least one event).
  No fairness and no order of the threads is assumed.  The property says nothing
  about the moment between the two critical sections of a subscription, in which the
  client is registered and its backlog not yet read.  `EventInv` covers it: the ring
  holds the latest events without a gap (`RingInv`), so that the backlog is all that
  is left of what was emitted before it is read; and a client whose connection is
  alive is a subscriber from its registration on, so that every later emission is
  pushed to it.  From there an event is followed through the thread's pushes, the
  socket and the client's queue (`Reached`), each of which is emptied only into the
  next unless the connection ends.

* `RecomputeNeverLoses == SearchInit /\ [][SearchNext]_searchVars =>
  []SearchNeverLoses` (`AlgorithmProofs`), for every table of rewrites, every number
  of rounds and every makespan a simulator could report, from `TableAssumption` and
  `MakespansAssumption`.  A trial is accepted against the plan it was made from, not
  against the best, so the best may be a seed the loop has left behind.  `SearchInv`
  says that the best is the fastest feasible plan evaluated so far (`Fastest`) and
  that the current plan is one of those; a rejected trial is no faster than the
  current plan and so no faster than the best.  It also bounds the batch by the
  ranked candidates, which is why a trial is a plan of the table again.

* The allocators' lemmas in the same module (`CutPartition`, `FitChosen`,
  `CoalescePartition`): carving a hole and coalescing a returned extent keep the holes
  apart and lose no byte, for every slab.

What stays with TLC.  The liveness properties (`Terminates`, `LeasesEnd`,
`CallsEnd`, `EverySendEnds`, `StreamsDrain`), since the prover has neither
fairness nor `ENABLED`.  What recursive definitions compute: the planners'
reducers and running sums, the simulator's replay, the workload builder, the
readers and packers of the feed, the lowering's lists of tasks and the stages of the
blocks.  Sums over a set or a sequence are recursive too, which leaves
`CancelsOnce` (it compares the number of cancelled runs with the number of cancels
asked for) and `SumsRight` to TLC.  The allocators' session (`BufferPool`) contains
the recursive operators of the VMM arena, and training the readers of the feed.  The
peer link is model-checked only: `drop_link` folds over the machines of a side, and
what is promised depends on the faults and drops that the constants of the runs spell
out (`Lasting`, and the size of the dedup ring).

## 5. What is not modelled

* Calls into CUDA, NCCL and the operating system.  The engine models a device by
  the contract of `next_completion`; collectives are the host-memory back end.
* Numerical code: kernels, and the numbers in the blocks.  `Engine` takes any program
  that passes `validate_program`; `Lowering` and `Blocks` model the programs the
  families emit and what their tasks read and write, without costs, group handles,
  tensor-parallel variants, the sliced layouts of sharded runs and the profiler's
  fills.
* Stateless conversions: program JSON, traces, tensor views, command lines, the
  web front end, attention segments and static packing.
* The sliding-window policy, a fixed-distance heuristic beside the five modelled
  ones; sharding arithmetic, of which `Checkpoint` has the byte ranges a save
  derives.
* Within the modelled parts: file layout and hashing of snapshots and the lists of
  jobs in flight, listening and the handshake of links, the state of a queue pair
  (a write may fail only on a link that may drop), destroying a group
  (`HostmemComm.close`, `destroy_peer_group`, `GroupTable.drop`), program
  registration, `close` of the VMM arena, reads and listings of the store, the check of
  an offload against a backing copy of another size (an object has one size here), and
  the start times the shadow of `min_grow` predicts.
