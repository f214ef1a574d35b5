----------------------------- MODULE Simulator -----------------------------
(***************************************************************************)
(* The event-driven simulator (dataflow_sim/engine/simulator.py): one       *)
(* compute stream and two transfer streams, each a single-server FIFO. A    *)
(* run is a sequence of Step values of one record s, so that planners can   *)
(* replay a plan to its end (Replay) and a specification can watch every    *)
(* intermediate state.                                                      *)
(*                                                                         *)
(* s.fast and s.backing map the objects with a copy there to the copy's     *)
(* state and to the version of its bytes: the number of rewrites they       *)
(* contain. The code has no version field; it is what lets a stale read be  *)
(* told from a good one.                                                    *)
(***************************************************************************)
EXTENDS Chain

Streams == {"from_slow", "to_slow"}

Idle == [object |-> 0, end |-> INF]

NoError == [kind |-> "none", task |-> 0, need |-> 0, missing |-> {}]

NewRun(c) ==
  [task |-> 1, pc |-> "probe", target |-> 0, busy |-> 0, scratch |-> 0,
   fast |-> [o \in c.fast |-> [state |-> "live", version |-> 0]],
   backing |-> [o \in c.backing |-> [state |-> "live", version |-> 0]],
   total |-> [fast |-> Bytes(c, c.fast), backing |-> Bytes(c, c.backing)],
   queue |-> [d \in Streams |-> <<>>], flying |-> [d \in Streams |-> Idle],
   deferred |-> {}, latest |-> [o \in Objects(c) |-> 0], stale |-> FALSE,
   makespan |-> 0, error |-> NoError]

Raise(s, e) == [s EXCEPT !.pc = "failed", !.error = e]

ValueError(s) == Raise(s, [NoError EXCEPT !.kind = "value", !.task = s.task])

Put(copies, o, copy) == [x \in DOMAIN copies \cup {o} |-> IF x = o THEN copy ELSE copies[x]]

Drop(copies, o) == [x \in DOMAIN copies \ {o} |-> copies[x]]

State(copies, o) == IF o \in DOMAIN copies THEN copies[o].state ELSE "absent"

StreamTime(c, d, o) == TransferTime(c.size[o], IF d = "from_slow" THEN c.inbound ELSE c.outbound)

-----------------------------------------------------------------------------
(* The transfer streams. *)

FreeBytes(c, s, dst) ==
  (IF dst = "fast" THEN c.capacity - s.scratch ELSE c.backingCapacity) - s.total[dst]

(* The head of a queue starts when its stream is idle and its destination    *)
(* has room; it allocates the destination only then, and otherwise blocks.   *)
TryStart(c, s, d, now) ==
  IF s.flying[d] # Idle \/ s.queue[d] = <<>> THEN s
  ELSE LET o == Head(s.queue[d])
           dst == IF d = "from_slow" THEN "fast" ELSE "backing"
           there == o \in DOMAIN s[dst]
           free == FreeBytes(c, s, dst) + (IF there THEN c.size[o] ELSE 0)
           popped == [s EXCEPT !.queue[d] = Tail(@),
                               !.flying[d] = [object |-> o, end |-> now + StreamTime(c, d, o)],
                               !.total[dst] = @ + (IF there THEN 0 ELSE c.size[o]),
                               !.makespan = Max({@, now + StreamTime(c, d, o)})]
       IN IF free < c.size[o] THEN s
          ELSE IF d = "from_slow"
          THEN [popped EXCEPT !.fast =
                  Put(s.fast, o, [state |-> "inbound", version |-> s.backing[o].version])]
          ELSE [popped EXCEPT !.fast[o].state = "outbound",
                              !.backing = Put(s.backing, o, [state |-> "inbound",
                                                             version |-> s.fast[o].version])]

(* A finished offload frees its source and lets the prefetches that waited   *)
(* for it into the inbound queue.                                            *)
Complete(c, s, d) ==
  LET o == s.flying[d].object
      freed == [s EXCEPT !.flying[d] = Idle]
  IN IF d = "from_slow" THEN [freed EXCEPT !.fast[o].state = "live"]
     ELSE [freed EXCEPT !.fast = Drop(s.fast, o),
                        !.total.fast = @ - c.size[o],
                        !.backing[o].state = "live",
                        !.deferred = @ \ {o},
                        !.queue["from_slow"] = IF o \in s.deferred THEN Append(@, o) ELSE @]

NextEnd(s) == Min({s.flying[d].end : d \in Streams})

(* The next completion, inbound first on a tie. *)
Settle(c, s) ==
  LET t == NextEnd(s)
  IN IF s.flying["from_slow"].end = t
     THEN TryStart(c, Complete(c, s, "from_slow"), "from_slow", t)
     ELSE TryStart(c, TryStart(c, Complete(c, s, "to_slow"), "to_slow", t), "from_slow", t)

(* When the transfers under way and queued would end, back to back, were     *)
(* there always room.                                                        *)
Schedule(c, s, d, now) ==
  LET follow(ends, o) ==
        Append(ends, [object |-> o,
                      end |-> Max({now, IF ends = <<>> THEN now ELSE Last(ends).end})
                                + StreamTime(c, d, o)])
  IN FoldLeft(follow, IF s.flying[d] = Idle THEN <<>> ELSE <<s.flying[d]>>, s.queue[d])

EndsIn(schedule, o) == {e.end : e \in {x \in ToSet(schedule) : x.object = o}}

-----------------------------------------------------------------------------
(* Starting a task. *)

(* The end of the round trip of an input that is still being offloaded. *)
RoundTripEnd(c, o, out, inbound, now) ==
  IF out = {} THEN {}
  ELSE {Max({Min(out)} \cup {IF inbound = <<>> THEN now ELSE Last(inbound).end})
          + StreamTime(c, "from_slow", o)}

(* The predicted instant an input is live; empty when the code raises. *)
InputReady(c, s, o, now) ==
  LET state == State(s.fast, o)
  IN CASE state = "live" -> {now}
       [] state \in {"absent", "pending_outbound", "outbound"} /\ o \in s.deferred ->
            RoundTripEnd(c, o, EndsIn(Schedule(c, s, "to_slow", now), o),
                         Schedule(c, s, "from_slow", now), now)
       [] state = "inbound" \/ (state = "absent" /\ o \notin s.deferred) ->
            LET ends == EndsIn(Schedule(c, s, "from_slow", now), o)
            IN IF ends = {} THEN {} ELSE {Min(ends)}
       [] OTHER -> {}

(* The predicted instant the scheduled offloads, out, have freed need bytes. *)
ReservationReady(c, s, need, out, now) ==
  LET free(k) == c.capacity - s.total.fast - s.scratch
                   + FoldLeft(LAMBDA sum, e : sum + c.size[e.object], 0, SubSeq(out, 1, k))
      enough == {k \in 0 .. Len(out) : free(k) >= need}
  IN IF need = 0 THEN [ready |-> {now}, short |-> 0]
     ELSE IF enough = {} THEN [ready |-> {}, short |-> need - free(Len(out))]
     ELSE [ready |-> {IF Min(enough) = 0 THEN now ELSE out[Min(enough)].end}, short |-> 0]

StartAt(c, s, ready, room) ==
  IF {} \in ready THEN ValueError(s)
  ELSE IF room.ready = {}
  THEN Raise(s, [kind |-> "capacity", task |-> s.task,
                 need |-> c.capacity + room.short, missing |-> {}])
  ELSE [s EXCEPT !.pc = "wait", !.target = Max({s.busy} \cup room.ready \cup UNION ready)]

Probe(c, s) ==
  StartAt(c, s, {InputReady(c, s, o, s.busy) : o \in c.tasks[s.task].inputs},
          ReservationReady(c, s, Reservation(c, c.tasks[s.task]),
                           Schedule(c, s, "to_slow", s.busy), s.busy))

Missing(c, s) == {o \in c.tasks[s.task].inputs : State(s.fast, o) # "live"}

Overage(c, s) ==
  LET need == Reservation(c, c.tasks[s.task])
  IN IF need = 0 THEN 0 ELSE Max({0, s.total.fast + need - c.capacity})

(* The optimistic prediction has come and the task still cannot start: the   *)
(* next transfer to finish may change that; with none, it is a deadlock.     *)
ToNextEnd(c, s) ==
  IF NextEnd(s) = INF
  THEN Raise(s, [kind |-> "capacity", task |-> s.task,
                 need |-> IF Overage(c, s) = 0 THEN 0 ELSE c.capacity + Overage(c, s),
                 missing |-> Missing(c, s)])
  ELSE [s EXCEPT !.target = NextEnd(s)]

StartBoth(c, s, now) == TryStart(c, TryStart(c, s, "from_slow", now), "to_slow", now)

DrainOne(c, s) == ToNextEnd(c, StartBoth(c, s, s.target))

StartTask(c, s) ==
  LET task == c.tasks[s.task]
      reserve(copies, loc) ==
        [o \in DOMAIN copies \cup OutputsAt(c, task, loc) |->
           IF o \in DOMAIN copies THEN copies[o] ELSE [state |-> "reserved", version |-> 0]]
      started ==
        [s EXCEPT !.pc = "compute", !.busy = s.target + task.runtime,
                  !.scratch = task.workspace,
                  !.fast = reserve(@, "fast"), !.backing = reserve(@, "backing"),
                  !.total.fast = @ + Bytes(c, OutputsAt(c, task, "fast")),
                  !.total.backing = @ + Bytes(c, OutputsAt(c, task, "backing")),
                  !.stale = @ \/ \E o \in task.inputs : s.fast[o].version # s.latest[o]]
  IN IF started.total.backing > c.backingCapacity THEN ValueError(s)
     ELSE IF \E o \in task.outputs : o \in DOMAIN s[c.location[o]] THEN ValueError(s)
     ELSE IF started.total.fast + started.scratch > c.capacity
     THEN Raise(s, [NoError EXCEPT !.kind = "overcommitted", !.task = s.task])
     ELSE started

-----------------------------------------------------------------------------
(* Ending a task: outputs are live, then releases, offloads, prefetches. *)

(* The last task that names o as an input or in a transfer trigger. *)
LastReference(c, o) ==
  Max({0} \cup {i \in 1 .. TaskCount(c) :
                  o \in c.tasks[i].inputs \cup ToSet(c.tasks[i].offloads)
                          \cup ToSet(c.tasks[i].prefetches)})

(* An object referenced no more takes its backing copy with it. *)
Release(c, s, o) ==
  LET dead == /\ s.task >= LastReference(c, o)
              /\ o \notin DOMAIN c.final
              /\ State(s.backing, o) = "live"
  IN IF s.pc = "failed" THEN s
     ELSE IF State(s.fast, o) # "live" THEN ValueError(s)
     ELSE [s EXCEPT !.fast = Drop(@, o),
                    !.total.fast = @ - c.size[o],
                    !.backing = IF dead THEN Drop(@, o) ELSE @,
                    !.total.backing = @ - (IF dead THEN c.size[o] ELSE 0)]

Offload(c, s, o) ==
  IF s.pc = "failed" THEN s
  ELSE IF State(s.fast, o) # "live" \/ State(s.backing, o) \notin {"absent", "live"}
  THEN ValueError(s)
  ELSE [s EXCEPT !.fast[o].state = "pending_outbound",
                 !.queue["to_slow"] = Append(@, o)]

(* A prefetch of what is still being written back waits for the writeback. *)
Prefetch(c, s, o) ==
  IF s.pc = "failed" THEN s
  ELSE IF State(s.fast, o) \in {"live", "inbound"} THEN ValueError(s)
  ELSE IF \/ State(s.fast, o) \in {"pending_outbound", "outbound"}
          \/ State(s.backing, o) = "inbound"
  THEN [s EXCEPT !.deferred = @ \cup {o}]
  ELSE IF State(s.backing, o) # "live" THEN ValueError(s)
  ELSE [s EXCEPT !.queue["from_slow"] = Append(@, o)]

Settled(c, s, task) ==
  LET latest == [o \in Objects(c) |-> s.latest[o] + (IF o \in task.mutates THEN 1 ELSE 0)]
      settle(copies, loc) ==
        [o \in DOMAIN copies |->
           IF o \in OutputsAt(c, task, loc) THEN [copies[o] EXCEPT !.state = "live"]
           ELSE IF loc = "fast" /\ o \in task.mutates
           THEN [copies[o] EXCEPT !.version = s.latest[o] + 1]
           ELSE copies[o]]
  IN [s EXCEPT !.scratch = 0, !.latest = latest, !.makespan = Max({@, s.busy}),
               !.fast = settle(@, "fast"), !.backing = settle(@, "backing")]

Triggered(c, s, task) ==
  FoldLeft(LAMBDA x, o : Prefetch(c, x, o),
    FoldLeft(LAMBDA x, o : Offload(c, x, o),
      FoldLeft(LAMBDA x, o : Release(c, x, o), s, task.releases), task.offloads), task.prefetches)

NextTask(c, s) ==
  IF s.pc = "failed" THEN s
  ELSE [StartBoth(c, s, s.busy) EXCEPT !.task = @ + 1, !.pc = "probe"]

EndTask(c, s) ==
  NextTask(c, Triggered(c, Settled(c, s, c.tasks[s.task]), c.tasks[s.task]))

(* The queues must be empty once the last transfer has ended. *)
Finish(s) ==
  IF s.deferred = {} /\ \A d \in Streams : s.queue[d] = <<>>
  THEN [s EXCEPT !.pc = "done"] ELSE ValueError(s)

-----------------------------------------------------------------------------
Ended(s) == s.pc \in {"done", "failed"}

Step(c, s) ==
  CASE s.pc = "probe" /\ s.task <= TaskCount(c) -> Probe(c, s)
    [] s.pc = "probe" /\ s.task > TaskCount(c) -> [s EXCEPT !.pc = "drain"]
    [] s.pc = "wait" ->
         IF NextEnd(s) <= s.target THEN Settle(c, s)
         ELSE IF Missing(c, s) = {} /\ Overage(c, s) = 0 THEN StartTask(c, s)
         ELSE DrainOne(c, s)
    [] s.pc = "compute" -> IF NextEnd(s) <= s.busy THEN Settle(c, s) ELSE EndTask(c, s)
    [] s.pc = "drain" -> IF NextEnd(s) < INF THEN Settle(c, s) ELSE Finish(s)

(* run(): the static prepass, then the simulation to its end. *)
FirstState(c) == IF ValidChain(c) THEN NewRun(c) ELSE ValueError(NewRun(c))

RECURSIVE RunFrom(_, _)
RunFrom(c, s) == IF Ended(s) THEN s ELSE RunFrom(c, Step(c, s))

Replay(c) == RunFrom(c, FirstState(c))
=============================================================================
