------------------------------- MODULE Chain -------------------------------
(***************************************************************************)
(* The planner's program: a chain of compute tasks over sized objects, with *)
(* the release, offload and prefetch triggers that fire when a task ends    *)
(* (dataflow_sim/core/schema.py), and the static prepass that accepts or    *)
(* rejects an annotated chain (dataflow_sim/core/validate.py).              *)
(*                                                                         *)
(* Object ids are integers, ordered as the code orders its id strings.      *)
(* Descriptive metadata (types, names) and per-trigger runtime overrides,   *)
(* which no planner emits, are left out.                                    *)
(***************************************************************************)
EXTENDS Integers, Sequences, FiniteSets, FiniteSetsExt, SequencesExt

(* Later than any instant, larger than any byte count. *)
INF == 1000000

(* A task: the objects it reads, those of them it rewrites, the fresh ones   *)
(* it writes, its running time, its scratch bytes and its three trigger      *)
(* lists.                                                                    *)
Task(ins, muts, outs, time, scratch) ==
  [inputs |-> ins, mutates |-> muts, outputs |-> outs, runtime |-> time,
   workspace |-> scratch, releases |-> <<>>, offloads |-> <<>>, prefetches |-> <<>>]

(* A chain record has fields tasks, size and location (of an output) by      *)
(* object, fast and backing (the initial copies), final (a partial map to    *)
(* locations), capacity, backingCapacity, inbound and outbound (bytes per    *)
(* time unit).                                                               *)
TaskCount(c) == Len(c.tasks)

Objects(c) == DOMAIN c.size

FinalAt(c, loc) == {o \in DOMAIN c.final : c.final[o] = loc}

Bytes(c, S) == MapThenSumSet(LAMBDA o : c.size[o], S)

OutputsAt(c, task, loc) == {o \in task.outputs : c.location[o] = loc}

(* Bytes of fast memory a task needs the moment it starts. *)
Reservation(c, task) == Bytes(c, OutputsAt(c, task, "fast")) + task.workspace

(* Ids introduced before task i. *)
Known(c, i) == c.fast \cup c.backing \cup UNION {c.tasks[j].outputs : j \in 1 .. i - 1}

Uses(c, o) == {i \in 1 .. TaskCount(c) : o \in c.tasks[i].inputs}

Mutators(c, o) == {i \in 1 .. TaskCount(c) : o \in c.tasks[i].mutates}

(* 0 for an object of initial memory. *)
Producer(c, o) == Max({0} \cup {i \in 1 .. TaskCount(c) : o \in c.tasks[i].outputs})

(* End of every task when nothing ever stalls; IdealEnd(c, 0) = 0. *)
IdealEnd(c, i) == MapThenSumSet(LAMBDA j : c.tasks[j].runtime, 1 .. i)

IdealStart(c, i) == IdealEnd(c, i - 1)

TransferTime(size, bandwidth) == Max({(size + bandwidth - 1) \div bandwidth, 1})

-----------------------------------------------------------------------------
(* The static prepass. *)

ValidIds(c) ==
  /\ \A i \in 1 .. TaskCount(c) :
       LET task == c.tasks[i]
           reach == Known(c, i) \cup task.outputs
       IN /\ task.workspace >= 0
          /\ task.outputs \cap Known(c, i) = {}
          /\ task.inputs \subseteq Known(c, i)
          /\ task.mutates \subseteq task.inputs
          /\ ToSet(task.releases) \cup ToSet(task.offloads) \cup ToSet(task.prefetches)
               \subseteq reach
  /\ DOMAIN c.final \subseteq Known(c, TaskCount(c) + 1)

(* Where every copy is, and which fast copies their backing copy lags        *)
(* behind, once task has run: outputs land, mutations dirty, offloads write  *)
(* back and leave, prefetches arrive, releases drop.                         *)
AfterTask(c, where, task) ==
  LET off == ToSet(task.offloads)
      pre == ToSet(task.prefetches)
      rel == ToSet(task.releases)
  IN [fast |-> (((where.fast \cup OutputsAt(c, task, "fast")) \ off) \cup pre) \ rel,
      backing |-> where.backing \cup OutputsAt(c, task, "backing") \cup off,
      dirty |-> (where.dirty \cup task.mutates) \ (off \cup pre \cup rel)]

(* Residency before task i + 1, by the static walk. *)
StaticResidency(c) ==
  LET walk[i \in 0 .. TaskCount(c)] ==
        IF i = 0 THEN [fast |-> c.fast, backing |-> c.backing, dirty |-> {}]
        ELSE AfterTask(c, walk[i - 1], c.tasks[i])
  IN walk

ValidTriggers(c) ==
  LET where == StaticResidency(c)
  IN \A i \in 1 .. TaskCount(c) :
       LET task == c.tasks[i]
           off == ToSet(task.offloads)
           pre == ToSet(task.prefetches)
           there == where[i - 1].fast \cup OutputsAt(c, task, "fast")
       IN /\ off \cap pre = {}
          /\ Cardinality(off) = Len(task.offloads)
          /\ Cardinality(pre) = Len(task.prefetches)
          /\ off \subseteq there
          /\ pre \cap there = {}

ValidReleases(c) ==
  LET where == StaticResidency(c)
      last == where[TaskCount(c)]
  IN /\ \A i \in 1 .. TaskCount(c) :
          /\ ToSet(c.tasks[i].releases) \cap ToSet(c.tasks[i].offloads) = {}
          /\ c.tasks[i].inputs \subseteq where[i - 1].fast
     /\ FinalAt(c, "backing") \subseteq last.backing \ last.dirty
     /\ FinalAt(c, "fast") \subseteq last.fast

ValidCapacity(c) ==
  /\ Bytes(c, c.fast) <= c.capacity
  /\ Bytes(c, c.backing) <= c.backingCapacity
  /\ \A i \in 1 .. TaskCount(c) :
       Bytes(c, c.tasks[i].inputs) + Reservation(c, c.tasks[i]) <= c.capacity

(* What a planner asks of the bare chain it is given. *)
ValidPlanningInput(c) == ValidIds(c) /\ ValidCapacity(c)

ValidChain(c) == ValidIds(c) /\ ValidTriggers(c) /\ ValidReleases(c) /\ ValidCapacity(c)
=============================================================================
