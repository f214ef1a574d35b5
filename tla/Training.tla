------------------------------ MODULE Training ------------------------------
(***************************************************************************)
(* A training run (dataflow_training/run/conductor.py, loop.py,            *)
(* checkpointing.py; distributed/ranks.py, daemons.py).                    *)
(*                                                                         *)
(* A launch resolves the checkpoint it resumes from, takes the run's lock, *)
(* boots a daemon per rank, and steps them: while the ranks run step s, a  *)
(* thread packs the batch of step s + 1 from a feed another thread fills.  *)
(* Every few steps each daemon writes a snapshot and, when all have        *)
(* landed, the launch writes the record that makes them a checkpoint.      *)
(* Launches crash, daemons die, snapshots fail, data cannot be read; a     *)
(* later launch resumes from what is on disk.                              *)
(*                                                                         *)
(* What a step computes is modelled by what it computes from: a byte of    *)
(* state is the logical byte it stands for and the batches it was trained  *)
(* on.  Group creation and the collectives of a step are in PeerGroup.     *)
(***************************************************************************)
EXTENDS Feed, Checkpoint

LOCAL INSTANCE SequencesExt

CONSTANTS
    Scenarios,   \* the runs considered, each a record of its settings
    Launches,    \* 1 .. n: the launches of one run, in order
    Depth,       \* how many sequences the ingest thread prefetches
    MaxFaults    \* how many faults strike

VARIABLES
    cfg,       \* the run's settings
    disk,      \* step -> the step directory: a snapshot per rank, the record
    lock,      \* the launch that holds the run's lock, 0 if none
    launch,    \* launch -> its conductor process
    daemon,    \* rank -> the daemon on that rank's host
    faults     \* the faults left to strike

vars == <<cfg, disk, lock, launch, daemon, faults>>

World(c) == Len(c.counts)

StepDirs(c) == 1 .. c.steps

----------------------------------------------------------------------------
(* What the ranks hold                                                     *)

RankObjects(c) == Objects(c.model, World(c), c.mode, c.private)

RankSlices(c, policy, r) ==
    CompileSourcePolicy(policy, c.model, World(c), c.mode, RankObjects(c), r)

\* Byte b of a resident object: the logical byte it holds, or padding
ByteAt(slices, b, history) ==
    IF \E s \in slices : s.src[1] < b /\ b <= s.src[2]
    THEN LET s == CHOOSE s \in slices : s.src[1] < b /\ b <= s.src[2]
         IN  [of |-> <<<<s.lid, s.dst[1] + b - s.src[1]>>>>, from |-> history]
    ELSE [of |-> <<>>, from |-> <<>>]

ObjectBytes(slices, size, history) == [b \in 1 .. size |-> ByteAt(slices, b, history)]

\* The state of a rank trained on a history of batches from its seed
\* (init_model for the empty history)
Trained(objects, slices, history) ==
    [id \in DOMAIN objects |->
        ObjectBytes({s \in slices : s.id = id}, objects[id], history)]

TrainedRank(c, r, history) ==
    Trained(RankObjects(c), RankSlices(c, "simple", r), history)

\* One optimizer step
Updated(mem, batch) ==
    [id \in DOMAIN mem |->
        [b \in DOMAIN mem[id] |->
            IF mem[id][b].of = <<>> THEN mem[id][b]
            ELSE [mem[id][b] EXCEPT !.from = Append(@, batch)]]]

\* The rounds of a step a rank is given: the next counts[r + 1] of them
RankRounds(c, rounds, r) ==
    SubSeq(rounds,
           FoldLeft(LAMBDA n, k : n + k, 1, SubSeq(c.counts, 1, r)),
           FoldLeft(LAMBDA n, k : n + k, 0, SubSeq(c.counts, 1, r + 1)))

\* What a step's gradient is summed over: every rank's rounds
Batch(tokens, world) == [k \in 1 .. world |-> tokens[k - 1]]

----------------------------------------------------------------------------
(* Processes                                                               *)

NoDaemon == [owner |-> 0, mem |-> <<>>, tokens |-> <<>>, job |-> <<>>]

Booted(l) == [NoDaemon EXCEPT !.owner = l]

NotStarted ==
    [pc |-> "off", rank |-> 0, record |-> <<>>, step |-> 0, feed |-> <<>>,
     pack |-> <<>>, ahead |-> "idle", packed |-> <<>>, cursor |-> <<>>,
     losses |-> <<>>]

NoSnapshot == [index |-> <<>>, whole |-> FALSE]

\* again: a history variable, set while a step that has its record is saved over
EmptyDir(c) ==
    [snap |-> [r \in Ranks(World(c)) |-> NoSnapshot], record |-> <<>>, again |-> FALSE]

\* A conductor process that still runs
Over == {"off", "refused", "crashed", "ended"}

Alive(l) == launch[l].pc \notin Over

At(l, pc) == launch[l].pc = pc

\* Rank r's client reaches the daemon this launch booted
Owned(l, r) == daemon[r].owner = l

AllOwned(l) == \A r \in Ranks(World(cfg)) : Owned(l, r)

Set(l, p) == launch' = [launch EXCEPT ![l] = p]

\* An exception leaves the step loop: on to the finally clause
Fail(l) == Set(l, [launch[l] EXCEPT !.pc = "closing"])

\* A loop over the ranks goes on to the next one, or to pc
NextRank(l, p, pc) ==
    Set(l, IF p.rank + 1 < World(cfg) THEN [p EXCEPT !.rank = @ + 1]
           ELSE [p EXCEPT !.rank = 0, !.pc = pc])

Init ==
    /\ cfg \in Scenarios
    /\ disk = [s \in StepDirs(cfg) |-> EmptyDir(cfg)]
    /\ lock = 0
    /\ launch = [l \in Launches |-> NotStarted]
    /\ daemon = [r \in Ranks(World(cfg)) |-> NoDaemon]
    /\ faults = MaxFaults

----------------------------------------------------------------------------
(* Starting a launch                                                       *)

Recorded == {s \in DOMAIN disk : disk[s].record # <<>>}

Resuming(s) ==
    IF disk[s].record = <<>> THEN [NotStarted EXCEPT !.pc = "refused"]
    ELSE [NotStarted EXCEPT !.pc = "locking", !.record = disk[s].record]

\* resolve_resume: no resume asked for, "auto" for the newest complete
\* checkpoint, or the directory of a step; without a record there, an error
Resolved(way) ==
    CASE way = "none" -> {[NotStarted EXCEPT !.pc = "locking"]}
      [] way = "auto" -> IF Recorded = {} THEN {[NotStarted EXCEPT !.pc = "refused"]}
                         ELSE {Resuming(Max(Recorded))}
      [] way = "step" -> {Resuming(s) : s \in StepDirs(cfg)}

\* How a run is launched: anew while it has no checkpoint and on from its
\* newest one after that, or in any of the three ways when cfg says so
Ways ==
    IF cfg.anyway THEN {"none", "auto", "step"}
    ELSE IF Recorded = {} THEN {"none"} ELSE {"auto"}

\* Launches of one run follow each other, or overlap when cfg says so.  The
\* resume record is read before the lock is asked for.
Start(l) ==
    /\ At(l, "off")
    /\ l > 1 => /\ ~At(l - 1, "off")
                /\ cfg.overlap \/ ~Alive(l - 1)
    /\ \E way \in Ways : \E p \in Resolved(way) : Set(l, p)
    /\ UNCHANGED <<cfg, disk, lock, daemon, faults>>

\* A second launch of the same run refuses
TakeLock(l) ==
    /\ At(l, "locking")
    /\ IF lock = 0
       THEN lock' = l /\ Set(l, [launch[l] EXCEPT !.pc = "booting"])
       ELSE UNCHANGED lock /\ Set(l, [launch[l] EXCEPT !.pc = "refused"])
    /\ UNCHANGED <<cfg, disk, daemon, faults>>

StartStep(p) == IF p.record = <<>> THEN 0 ELSE p.record[1].step

StartCursor(p) == IF p.record = <<>> THEN Beginning ELSE p.record[1].cursor

\* fleet_loop opens the pipeline at the record's cursor and packs the start
\* step's rounds inline
Feeding(p) ==
    [p EXCEPT !.feed = <<NewFeed(cfg.src, StartCursor(p))>>, !.pack = NewPack(cfg.geo),
              !.step = StartStep(p)]

\* daemons.kill, then daemons.launch: whatever runs on the host goes
Boot(l) ==
    /\ At(l, "booting")
    /\ daemon' = [daemon EXCEPT ![launch[l].rank] = Booted(l)]
    /\ NextRank(l, IF launch[l].rank + 1 < World(cfg) THEN launch[l] ELSE Feeding(launch[l]),
                "feeding")
    /\ UNCHANGED <<cfg, disk, lock, faults>>

----------------------------------------------------------------------------
(* The feed and the packer.  The ingest thread lives as long as the        *)
(* conductor: nothing closes the feed.                                     *)

IngestStep(l) ==
    /\ Alive(l) /\ launch[l].feed # <<>>
    /\ launch[l].feed[1].worker = "running"
    /\ Len(launch[l].feed[1].queue) < Depth
    /\ \E feed \in IngestNext(launch[l].feed[1]) :
          Set(l, [launch[l] EXCEPT !.feed = <<feed>>])
    /\ UNCHANGED <<cfg, disk, lock, daemon, faults>>

\* A fault of a kind this run is exposed to
Strikes(kind) == kind \in cfg.faults /\ faults > 0 /\ faults' = faults - 1

IngestRaises(l) ==
    /\ Alive(l) /\ launch[l].feed # <<>>
    /\ launch[l].feed[1].worker = "running"
    /\ Len(launch[l].feed[1].queue) < Depth
    /\ Strikes("ingest")
    /\ Set(l, [launch[l] EXCEPT !.feed = <<IngestFails(launch[l].feed[1])>>])
    /\ UNCHANGED <<cfg, disk, lock, daemon>>

\* next_step runs inline for the start step and in the pack-ahead thread for
\* every later one
Packing(l) == At(l, "feeding") \/ (Alive(l) /\ launch[l].ahead = "packing")

\* next_step raised: at once for the start step, on take() for a later one
PackRaises(p) ==
    IF p.pc = "feeding" THEN [p EXCEPT !.pc = "closing"] ELSE [p EXCEPT !.ahead = "error"]

\* The stream has ended, the ingest thread's error is raised again, or a
\* sequence can never fit a round
Unpackable(feed) ==
    \/ AtStop(feed)
    \/ cfg.geo.policy = "greedy" /\ Oversized(cfg.geo, NextSequence(feed))

PackOne(l) ==
    /\ Packing(l)
    /\ ~StepMade(cfg.geo, launch[l].pack)
    /\ Ready(launch[l].feed[1])
    /\ Set(l, IF Unpackable(launch[l].feed[1])
              THEN PackRaises(launch[l])
              ELSE [launch[l] EXCEPT
                      !.feed = <<Taken(@[1])>>,
                      !.pack = Absorb(cfg.geo, @, NextSequence(launch[l].feed[1]))])
    /\ UNCHANGED <<cfg, disk, lock, daemon, faults>>

\* The step carries the cursor of the moment it was packed
Finished(p, rounds, feed) ==
    [p EXCEPT !.feed = <<feed>>, !.pack = NewPack(cfg.geo),
              !.packed = <<[rounds |-> rounds, cursor |-> Cursor(feed)]>>,
              !.ahead = IF p.pc = "feeding" THEN "idle" ELSE "ready",
              !.pc = IF p.pc = "feeding" THEN "preparing" ELSE @]

PackDone(l) ==
    /\ Packing(l)
    /\ StepMade(cfg.geo, launch[l].pack)
    /\ \E made \in {Packed(cfg.geo, launch[l].pack)} :
          Set(l, Finished(launch[l], made.rounds, Requeue(launch[l].feed[1], made.back)))
    /\ UNCHANGED <<cfg, disk, lock, daemon, faults>>

----------------------------------------------------------------------------
(* Preparing the ranks: seed, warm up, then restore or seed again          *)

WarmUp(c, r, tokens) ==
    Updated(TrainedRank(c, r, <<>>), [k \in 1 .. World(c) |-> IF k = r + 1 THEN tokens ELSE <<>>])

\* A rank restores its own snapshot whole: only a self-sufficient one will do,
\* and its payload must hash to what its index says
Restorable(c, record, r, snap) ==
    /\ record.policy = "simple"
    /\ KeyedPlanExists(record, r, DOMAIN RankObjects(c))
    /\ snap.index # <<>> /\ snap.whole

Restored(mem, windows, snap) == Placed(mem, Placements(snap.index[1], windows))

\* Fault seeded for TrainsOnTheStream: a fresh run is not seeded again after
\* the warm-up
PreparedWarm(c, p, r) ==
    IF p.record = <<>> THEN WarmUp(c, r, RankRounds(c, p.packed[1].rounds, r))
    ELSE Restored(WarmUp(c, r, RankRounds(c, p.packed[1].rounds, r)),
                  MergeSteps(KeyedPlan(p.record[1], r, DOMAIN RankObjects(c))),
                  disk[p.record[1].step].snap[r])

Prepared(c, p, r) ==
    IF p.record = <<>> THEN TrainedRank(c, r, <<>>)
    ELSE Restored(WarmUp(c, r, RankRounds(c, p.packed[1].rounds, r)),
                  MergeSteps(KeyedPlan(p.record[1], r, DOMAIN RankObjects(c))),
                  disk[p.record[1].step].snap[r])

\* The pack-ahead thread is started behind every step that has a next one
Running(p, step) ==
    [p EXCEPT !.step = step, !.cursor = <<p.packed[1].cursor>>, !.packed = <<>>,
              !.ahead = IF step + 1 < cfg.steps THEN "packing" ELSE "idle"]

\* A resumed run continues the curve the record carries
Entering(p) ==
    [Running(p, p.step) EXCEPT
        !.losses = IF p.record = <<>> THEN <<>> ELSE p.record[1].losses]

Prepare(l) ==
    /\ At(l, "preparing")
    /\ \E r \in {launch[l].rank} :
          IF ~Owned(l, r) \/ (launch[l].record # <<>> /\
                ~Restorable(cfg, launch[l].record[1], r, disk[launch[l].record[1].step].snap[r]))
          THEN Fail(l) /\ UNCHANGED daemon
          ELSE /\ daemon' = [daemon EXCEPT
                    ![r].mem = Prepared(cfg, launch[l], r),
                    ![r].tokens = RankRounds(cfg, launch[l].packed[1].rounds, r)]
               /\ NextRank(l, IF r + 1 < World(cfg) THEN launch[l] ELSE Entering(launch[l]),
                           "running")
    /\ UNCHANGED <<cfg, disk, lock, faults>>

----------------------------------------------------------------------------
(* The step loop                                                           *)

Due(step) == (step + 1) % cfg.every = 0 /\ step + 1 < cfg.steps

AfterStep(step) == IF step + 1 < cfg.steps THEN "taking" ELSE "closing"

Stepped(batch) ==
    [r \in DOMAIN daemon |-> [daemon[r] EXCEPT !.mem = Updated(@, batch)]]

\* The ranks run the step together; one that is gone fails the step
RunStep(l) ==
    /\ At(l, "running")
    /\ IF ~AllOwned(l) THEN Fail(l) /\ UNCHANGED daemon
       ELSE \E batch \in {Batch([r \in DOMAIN daemon |-> daemon[r].tokens], World(cfg))} :
              /\ daemon' = Stepped(batch)
              /\ Set(l, [launch[l] EXCEPT
                           !.losses = Append(@, batch),
                           !.pc = IF Due(launch[l].step) THEN "saving"
                                  ELSE AfterStep(launch[l].step)])
    /\ UNCHANGED <<cfg, disk, lock, faults>>

\* pack_ahead.take: join the thread, raise what it raised, ship the rounds
Take(l) ==
    /\ At(l, "taking")
    /\ launch[l].ahead \in {"ready", "error"}
    /\ IF launch[l].ahead = "error" \/ ~AllOwned(l) THEN Fail(l) /\ UNCHANGED daemon
       ELSE /\ daemon' = [r \in DOMAIN daemon |->
                            [daemon[r] EXCEPT
                               !.tokens = RankRounds(cfg, launch[l].packed[1].rounds, r)]]
            /\ Set(l, [Running(launch[l], launch[l].step + 1) EXCEPT !.pc = "running"])
    /\ UNCHANGED <<cfg, disk, lock, faults>>

----------------------------------------------------------------------------
(* Saving a checkpoint                                                     *)

SaveSlices(c, r) == RankSlices(c, c.policy, r)

\* The snapshot call starts a job; its payload is opened for writing over
\* whatever the directory held
Snapshot(l) ==
    /\ At(l, "saving")
    /\ \E r \in {launch[l].rank}, s \in {launch[l].step + 1} :
          IF ~Owned(l, r) \/ ~SlicesValid(SaveSlices(cfg, r), RankObjects(cfg))
          THEN Fail(l) /\ UNCHANGED <<disk, daemon>>
          ELSE /\ disk' = [disk EXCEPT ![s].snap[r].whole = FALSE,
                                        ![s].again = disk[s].record # <<>>]
               /\ daemon' = [daemon EXCEPT ![r].job = <<[step |-> s, state |-> "copying", hash |-> <<>>]>>]
               /\ NextRank(l, launch[l], "waiting")
    /\ UNCHANGED <<cfg, lock, faults>>

\* The entries of a snapshot, with the bytes copied
Captured(slices, mem) ==
    {[lid |-> s.lid, src |-> s.src, dst |-> s.dst, content |-> Within(mem[s.id], s.src)] :
        s \in slices}

\* The hash a snapshot's status reports for a slice
StatusHash(slices, mem) == [s \in slices |-> Within(mem[s.id], s.src)]

JobIs(r, state) == daemon[r].job # <<>> /\ daemon[r].job[1].state = state

\* The payload is complete and the index lands after it
JobLands(r) ==
    /\ JobIs(r, "copying")
    /\ disk' = [disk EXCEPT ![daemon[r].job[1].step].snap[r] =
                    [index |-> <<Captured(SaveSlices(cfg, r), daemon[r].mem)>>, whole |-> TRUE]]
    /\ daemon' = [daemon EXCEPT ![r].job[1].state = "done",
                                ![r].job[1].hash = StatusHash(SaveSlices(cfg, r), daemon[r].mem)]
    /\ UNCHANGED <<cfg, lock, launch, faults>>

JobFails(r) ==
    /\ JobIs(r, "copying")
    /\ Strikes("snapshot")
    /\ daemon' = [daemon EXCEPT ![r].job[1].state = "error"]
    /\ UNCHANGED <<cfg, disk, lock, launch>>

\* wait_snapshot, rank by rank
Wait(l) ==
    /\ At(l, "waiting")
    /\ \E r \in {launch[l].rank} :
          \/ /\ ~Owned(l, r) \/ JobIs(r, "error")
             /\ Fail(l) /\ UNCHANGED faults
          \/ /\ Owned(l, r) /\ JobIs(r, "done")
             /\ NextRank(l, launch[l], "sealing") /\ UNCHANGED faults
          \/ /\ Owned(l, r) /\ JobIs(r, "copying")
             /\ Strikes("timeout")
             /\ Fail(l)
    /\ UNCHANGED <<cfg, disk, lock, daemon>>

\* Fault seeded for RecordsResume: the cursor of the feed as it stands, which
\* the pack-ahead thread has moved on
ComposedLive(c, p, slices) ==
    [step |-> p.step + 1, policy |-> c.policy,
     logical |-> LogicalObjects(slices),
     entries |-> Entries(slices, [r \in DOMAIN slices |-> daemon[r].job[1].hash]),
     objects |-> [r \in DOMAIN slices |-> RankObjects(c)],
     cursor |-> Cursor(p.feed[1]), losses |-> p.losses]

Composed(c, p, slices) ==
    [step |-> p.step + 1, policy |-> c.policy,
     logical |-> LogicalObjects(slices),
     entries |-> Entries(slices, [r \in DOMAIN slices |-> daemon[r].job[1].hash]),
     objects |-> [r \in DOMAIN slices |-> RankObjects(c)],
     cursor |-> p.cursor[1], losses |-> p.losses]

\* keep_last: the steps after the newest ones go, directory and all
Pruned(dirs, complete) ==
    [s \in DOMAIN dirs |->
        IF /\ cfg.keep > 0 /\ s \in complete
           /\ Cardinality({t \in complete : t > s}) >= cfg.keep
        THEN EmptyDir(cfg) ELSE dirs[s]]

\* check_replication_drift, write_record with its validation, and the prune
Sealed(record) ==
    Pruned([disk EXCEPT ![record.step].record = <<record>>, ![record.step].again = FALSE],
           Recorded \cup {record.step})

Seal(l) ==
    /\ At(l, "sealing")
    /\ IF ~AllOwned(l) THEN Fail(l) /\ UNCHANGED disk
       ELSE \E record \in {Composed(cfg, launch[l], [r \in DOMAIN daemon |-> SaveSlices(cfg, r)])} :
              IF ~NoDrift(record.entries) \/ ~ValidRecord(record)
              THEN Fail(l) /\ UNCHANGED disk
              ELSE /\ disk' = Sealed(record)
                   /\ Set(l, [launch[l] EXCEPT !.pc = AfterStep(launch[l].step)])
    /\ UNCHANGED <<cfg, lock, daemon, faults>>

----------------------------------------------------------------------------
(* The end of a launch.  The finally clause drops the lock, shuts its own  *)
(* daemons down, then waits for each host's daemon and kills what is left. *)

Release(l) ==
    /\ At(l, "closing")
    /\ lock' = 0
    /\ Set(l, [NotStarted EXCEPT !.pc = "stopping", !.losses = launch[l].losses])
    /\ UNCHANGED <<cfg, disk, daemon, faults>>

StopOwn(l) ==
    /\ At(l, "stopping")
    /\ daemon' = [r \in DOMAIN daemon |-> IF Owned(l, r) THEN NoDaemon ELSE daemon[r]]
    /\ Set(l, [launch[l] EXCEPT !.pc = "reaping"])
    /\ UNCHANGED <<cfg, disk, lock, faults>>

\* The pid file names the host, not the launch
Reap(l) ==
    /\ At(l, "reaping")
    /\ daemon' = [daemon EXCEPT ![launch[l].rank] = NoDaemon]
    /\ NextRank(l, launch[l], "ended")
    /\ UNCHANGED <<cfg, disk, lock, faults>>

----------------------------------------------------------------------------
(* Faults                                                                  *)

\* The conductor dies.  The system drops its lock; its daemons live on.
Crash(l) ==
    /\ Alive(l)
    /\ Strikes("crash")
    /\ lock' = IF lock = l THEN 0 ELSE lock
    /\ Set(l, [NotStarted EXCEPT !.pc = "crashed"])
    /\ UNCHANGED <<cfg, disk, daemon>>

DaemonDies(r) ==
    /\ daemon[r].owner # 0
    /\ Strikes("daemon")
    /\ daemon' = [daemon EXCEPT ![r] = NoDaemon]
    /\ UNCHANGED <<cfg, disk, lock, launch>>

\* A rank's copy of the first parameter drifts from its replicas
Drifts(r) ==
    /\ daemon[r].mem # <<>>
    /\ Strikes("drift")
    /\ daemon' = [daemon EXCEPT ![r].mem[<<"W", 1>>][1].from =
                                Append(@, [k \in 1 .. r + 1 |-> <<>>])]
    /\ UNCHANGED <<cfg, disk, lock, launch>>

Next ==
    \/ \E l \in Launches :
          \/ Start(l) \/ TakeLock(l) \/ Boot(l)
          \/ IngestStep(l) \/ IngestRaises(l) \/ PackOne(l) \/ PackDone(l)
          \/ Prepare(l) \/ RunStep(l) \/ Take(l)
          \/ Snapshot(l) \/ Wait(l) \/ Seal(l)
          \/ Release(l) \/ StopOwn(l) \/ Reap(l)
          \/ Crash(l)
    \/ \E r \in DOMAIN daemon : JobLands(r) \/ JobFails(r) \/ DaemonDies(r) \/ Drifts(r)

Spec == Init /\ [][Next]_vars

----------------------------------------------------------------------------
(* The stream a run trains on, had one process packed it step by step with *)
(* nothing prefetched, packed ahead, saved or resumed                      *)

RECURSIVE Drive(_, _, _)
Drive(geo, feed, p) ==
    IF StepMade(geo, p)
    THEN LET made == Packed(geo, p)
         IN  <<[rounds |-> made.rounds, feed |-> Requeue(feed, made.back)]>>
    ELSE IF ~Ready(feed)
    THEN Drive(geo, CHOOSE f \in IngestNext(feed) : TRUE, p)
    ELSE IF AtStop(feed) \/ (geo.policy = "greedy" /\ Oversized(geo, NextSequence(feed)))
    THEN <<>>
    ELSE Drive(geo, Taken(feed), Absorb(geo, p, NextSequence(feed)))

RECURSIVE StepsFrom(_, _, _)
StepsFrom(c, feed, n) ==
    LET made == Drive(c.geo, feed, NewPack(c.geo))
    IN  IF n = 0 \/ made = <<>> THEN <<>>
        ELSE <<[k \in 1 .. World(c) |-> RankRounds(c, made[1].rounds, k - 1)]>>
                 \o StepsFrom(c, made[1].feed, n - 1)

BatchesFrom(c, cursor, n) == StepsFrom(c, NewFeed(c.src, cursor), n)

Stream == [c \in Scenarios |-> BatchesFrom(c, Beginning, c.steps)]

\* The first sequences of the source, as many as a run can pull
RECURSIVE DrawnFrom(_, _, _)
DrawnFrom(src, gen, n) ==
    LET d == Draw(src, gen)
    IN  IF n = 0 \/ d = {} THEN <<>>
        ELSE LET x == CHOOSE x \in d : TRUE
             IN  <<x.seq>> \o DrawnFrom(src, x.gen, n - 1)

Drawn == [c \in Scenarios |->
            DrawnFrom(c.src, Generator(c.src, <<>>),
                      (c.steps + c.geo.mult) * c.geo.rounds * c.geo.tokens + 1)]

----------------------------------------------------------------------------
(* Properties                                                              *)

Stepping == {"running", "saving", "waiting", "sealing", "taking"}

\* How many steps launch l has run
StepsRun(l) == launch[l].step + (IF At(l, "running") THEN 0 ELSE 1)

\* Whatever was prefetched, packed ahead, saved, crashed and resumed, the
\* state a rank holds between two steps is the state of the steps before it,
\* trained on the stream in order, and the loss curve is theirs
\* (loop.py fleet_loop: last_cursor, PackAhead, restore over the warm-up).
TrainsOnTheStream ==
    \A l \in Launches :
        At(l, "taking") \/ At(l, "running") =>
            \E past \in {SubSeq(Stream[cfg], 1, StepsRun(l))} :
                /\ launch[l].losses = past
                /\ "drift" \notin cfg.faults =>
                     \A r \in DOMAIN daemon :
                        Owned(l, r) => daemon[r].mem = TrainedRank(cfg, r, past)

\* The bytes of a logical object after the given history
LogicalBytes(lid, n, history) ==
    [k \in 1 .. n |-> [of |-> <<<<lid, k>>>>, from |-> history]]

\* load_checkpoint: every logical object put together from all snapshots
Loaded(record, snaps, windows) ==
    Placed(<<>>, UNION {Placements(snaps[r].index[1],
                                   MergeSteps({w \in windows : w.snap = r})) :
                          r \in DOMAIN snaps})

LoadsWhole(record, snaps, history) ==
    LET local == Loaded(record, snaps, LogicalPlan(record, DOMAIN record.logical))
    IN  \A lid \in DOMAIN record.logical :
            local[lid] = LogicalBytes(lid, record.logical[lid], history)

\* Every rank's own view is the state the rank held
RankResumes(c, record, r, snap, history) ==
    /\ Restorable(c, record, r, snap)
    /\ Restored(WarmUp(c, r, <<>>), MergeSteps(KeyedPlan(record, r, DOMAIN RankObjects(c))), snap)
         = TrainedRank(c, r, history)

Resumable(c, s, record, snaps, history) ==
    /\ record.losses = history
    /\ BatchesFrom(c, record.cursor, 1) = SubSeq(Stream[c], s + 1, s + 1)
    /\ \A r \in DOMAIN snaps : snaps[r].whole
    /\ LoadsWhole(record, snaps, history)
    /\ record.policy = "simple" =>
         \A r \in DOMAIN snaps : RankResumes(c, record, r, snaps[r], history)

\* A recorded checkpoint is complete: its snapshots are whole, its ranks
\* resume from it and its logical objects load from it to the state after
\* that step, and its cursor packs the step that comes next
\* (dataflow/checkpoint/compose.py: the record lands last or not at all).
\* Not so from the moment a later launch, started anew or from an earlier
\* step, begins to save the step over until it seals it: the old record
\* stays above the payloads being rewritten (handlers_snapshot.py opens them
\* "wb"), for good when that save fails.
RecordsResume ==
    \A s \in {t \in Recorded : ~disk[t].again} :
        Resumable(cfg, s, disk[s].record[1], disk[s].snap, SubSeq(Stream[cfg], 1, s))

SpansOf(batches) == FlattenSeq(FlattenSeq(FlattenSeq(batches)))

\* Everything pulled from the source by launch l and the runs it continues
Held(l) ==
    SpansOf(launch[l].losses)
      \o (IF At(l, "running")
          THEN SpansOf(<<Batch([r \in DOMAIN daemon |-> daemon[r].tokens], World(cfg))>>)
          ELSE <<>>)
      \o (IF launch[l].packed = <<>> THEN <<>> ELSE FlattenSeq(launch[l].packed[1].rounds))
      \o FlattenSeq(launch[l].pack.rounds) \o launch[l].pack.placed
      \o launch[l].pack.carry \o launch[l].pack.window
      \o launch[l].feed[1].pending

Times(spans, doc, x) ==
    Cardinality({i \in DOMAIN spans : spans[i].doc = doc /\ spans[i].lo <= x /\ x < spans[i].hi})

SameTokens(spans, drawn) ==
    \E n \in 0 .. Len(drawn) :
        /\ Tokens(SubSeq(drawn, 1, n)) = Tokens(spans)
        /\ \A i \in 1 .. n : \A x \in drawn[i].lo .. drawn[i].hi - 1 :
              Times(spans, drawn[i].doc, x) = Times(SubSeq(drawn, 1, n), drawn[i].doc, x)

\* Every token the source handed out is in exactly one place: a batch that
\* was run, the batch being packed, or the line of sequences given back;
\* across resumes too (feed.py requeue and cursor, packer.py carry and
\* leftover).
EachTokenOnce ==
    \A l \in Launches :
        launch[l].pc \in Stepping /\ (At(l, "running") => AllOwned(l)) =>
            SameTokens(Held(l), Drawn[cfg])
=============================================================================
