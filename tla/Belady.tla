------------------------------- MODULE Belady -------------------------------
(***************************************************************************)
(* The belady_reactive policy (dataflow_sim/policies/belady_reactive.py and *)
(* shadow.py). The planner walks the tasks with a shadow of the simulator:  *)
(* before a task it schedules the prefetches its inputs still need and the  *)
(* evictions its outputs need, at boundaries already behind it, and keeps   *)
(* its record of the past boundaries' pool sizes in step with them.         *)
(*                                                                         *)
(* A shadow is a record: fast and backing map objects to entries, lane is   *)
(* the order the fast entries were made in, sched the two transfer queues,  *)
(* bps and ends the pool size and the end of every task run so far (ran of  *)
(* them), notes the triggers, failed that the planner has raised.           *)
(***************************************************************************)
EXTENDS PolicyCommon

CASCADE_BUDGET == 20

Entry(state, at, made) == [state |-> state, at |-> at, made |-> made]

PessimisticBps(c, k) ==
  LET ends(o) == IF Uses(c, o) = {} THEN TaskCount(c) ELSE LastUse(c, o)
      from(o) == Max({1, Min(Uses(c, o)) - 1})
      made(i) == {o \in OutputsAt(c, c.tasks[i], "fast") : i <= k /\ k <= ends(o)}
  IN Bytes(c, {o \in c.fast : k <= ends(o)})
       + MapThenSumSet(LAMBDA i : Bytes(c, made(i)), 1 .. TaskCount(c))
       + Bytes(c, {o \in Preplaceable(c) : from(o) <= k /\ k <= ends(o)})

(* Task 1's inputs, and by first use what fits at every boundary before it   *)
(* would be fetched, even if nothing were ever evicted.                      *)
SmartPlacement(c) ==
  LET must == (c.tasks[1].inputs \cap c.backing) \ c.fast
      head == [k \in 1 .. TaskCount(c) |->
                 Max({0, c.capacity - PessimisticBps(c, k) - NextReservation(c, k)})]
      early(o) == 1 .. Min(Uses(c, o)) - 2
      add(acc, o) ==
        IF \A k \in early(o) : acc.extra[k] + c.size[o] <= head[k]
        THEN [placed |-> acc.placed \cup {o},
              extra |-> [k \in DOMAIN head |->
                           acc.extra[k] + (IF k \in early(o) THEN c.size[o] ELSE 0)]]
        ELSE acc
  IN FoldLeft(add, [placed |-> must, extra |-> [k \in DOMAIN head |-> 0]],
              SortedBy(Preplaceable(c) \ must,
                       LAMBDA o : <<Min(Uses(c, o)), -c.size[o], o>>)).placed

NewShadow(c, placed, order) ==
  LET start(S) == [o \in S |-> Entry("live", 0, 0)]
      n == TaskCount(c)
  IN [fast |-> start(c.fast \cup placed), backing |-> start(c.backing), placed |-> placed,
      lane |-> Ascending(c.fast) \o SelectSeq(order, LAMBDA o : o \in placed \ c.fast),
      sched |-> [d \in Streams |-> <<>>], busy |-> 0, ran |-> 0,
      bps |-> [k \in 1 .. n |-> Bytes(c, c.fast)], ends |-> [k \in 1 .. n |-> 0],
      notes |-> NoNotes(c), failed |-> FALSE]

-----------------------------------------------------------------------------
(* The shadow simulator. *)

(* A transfer queues behind those enqueued no later; the whole schedule is   *)
(* timed again, as if nothing had run before it.                             *)
InsertTransfer(sched, tx) ==
  LET k == Cardinality({j \in DOMAIN sched : \A i \in 1 .. j : sched[i].enqueue <= tx.enqueue})
      time(acc, x) ==
        LET begin == Max({x.enqueue, IF acc = <<>> THEN 0 ELSE Last(acc).end})
        IN Append(acc, [x EXCEPT !.end = begin + x.runtime])
  IN FoldLeft(time, <<>>, InsertAt(sched, k + 1, tx))

Enqueued(c, sh, d, o, at) ==
  InsertTransfer(sh.sched[d], [object |-> o, runtime |-> StreamTime(c, d, o), enqueue |-> at, end |-> 0])

EndIn(sched, o) ==
  LET mine == {k \in DOMAIN sched : sched[k].object = o}
  IN IF mine = {} THEN INF ELSE sched[Min(mine)].end

ReadyAt(sh, copies, d, o) ==
  IF o \notin DOMAIN copies THEN INF
  ELSE IF copies[o].state = "live" THEN copies[o].at ELSE EndIn(sh.sched[d], o)

ShadowReady(sh, o) == ReadyAt(sh, sh.fast, "from_slow", o)

Usage(c, sh) == Bytes(c, DOMAIN sh.fast)

UsageAt(c, sh, t) ==
  LET out == sh.sched["to_slow"]
  IN Usage(c, sh)
       - MapThenSumSet(LAMBDA k : c.size[out[k].object], {k \in DOMAIN out : out[k].end <= t})

Leave(sh, o) == [sh EXCEPT !.fast = Drop(@, o), !.lane = SelectSeq(@, LAMBDA x : x # o)]

Charged(sh, from, Applies(_), bytes) ==
  [k \in DOMAIN sh.bps |->
     sh.bps[k] + (IF from <= k /\ k <= sh.ran /\ Applies(k) THEN bytes ELSE 0)]

IssueRelease(c, sh, o, k) ==
  [Leave(sh, o) EXCEPT !.notes[k].release = Append(@, o),
                       !.bps = Charged(sh, k, LAMBDA x : TRUE, -c.size[o])]

(* The bytes leave the boundaries that ended after the transfer would, the   *)
(* transfer being as late as its boundary was.                               *)
IssueOffload(c, sh, o, k) ==
  LET sched == Enqueued(c, sh, "to_slow", o, IdealEnd(c, k))
      drift == IF k <= sh.ran THEN Max({0, sh.ends[k] - IdealEnd(c, k)}) ELSE 0
      done == EndIn(sched, o) + drift
      there == IF o \in DOMAIN sh.backing THEN sh.backing[o] ELSE Entry("", IdealEnd(c, k), 0)
  IN [sh EXCEPT !.sched["to_slow"] = sched,
                !.fast[o].state = "pending_outbound",
                !.backing = Put(@, o, [there EXCEPT !.state = "pending_inbound"]),
                !.notes[k].offload = Append(@, o),
                !.bps = Charged(sh, k + 1, LAMBDA x : sh.ends[x] >= done, -c.size[o])]

IssuePrefetch(c, sh, o, k) ==
  IF State(sh.backing, o) # "live" \/ o \in DOMAIN sh.fast THEN [sh EXCEPT !.failed = TRUE]
  ELSE [sh EXCEPT !.sched["from_slow"] = Enqueued(c, sh, "from_slow", o, IdealEnd(c, k)),
                  !.fast = Put(@, o, Entry("pending_inbound", IdealEnd(c, k), 0)),
                  !.lane = Append(@, o),
                  !.notes[k].prefetch = Append(@, o),
                  !.bps = Charged(sh, k, LAMBDA x : TRUE, c.size[o])]

Live(copies, o) == IF o \in DOMAIN copies THEN [copies EXCEPT ![o].state = "live"] ELSE copies

Completed(sh, d, o) ==
  IF d = "from_slow" THEN [sh EXCEPT !.fast = Live(@, o)]
  ELSE [Leave(sh, o) EXCEPT !.backing = Live(@, o)]

(* Completions up to t, in order of time, inbound before outbound. *)
AdvanceTo(sh, t) ==
  LET due(d) == {k \in DOMAIN sh.sched[d] : sh.sched[d][k].end <= t}
      all == UNION {{<<sh.sched[d][k].end, IF d = "from_slow" THEN 0 ELSE 1, k, d>> : k \in due(d)} :
                      d \in Streams}
      left(d) == SubSeq(sh.sched[d], Cardinality(due(d)) + 1, Len(sh.sched[d]))
  IN [FoldLeft(LAMBDA x, e : Completed(x, e[4], sh.sched[e[4]][e[3]].object), sh,
               SortedBy(all, LAMBDA e : <<e[1], e[2], e[3]>>))
        EXCEPT !.sched = [d \in Streams |-> left(d)]]

WithOutputs(c, copies, i, loc, state, at) ==
  [o \in DOMAIN copies \cup OutputsAt(c, c.tasks[i], loc) |->
     IF o \in OutputsAt(c, c.tasks[i], loc) THEN Entry(state, at, i) ELSE copies[o]]

OutputsIn(c, sh, i, state, at) ==
  [sh EXCEPT !.fast = WithOutputs(c, @, i, "fast", state, at),
             !.backing = WithOutputs(c, @, i, "backing", state, at)]

Recorded(c, sh, i, end) ==
  [sh EXCEPT !.busy = end, !.ran = i, !.ends[i] = end, !.bps[i] = Usage(c, sh)]

RunTask(c, sh, i, start) ==
  LET end == start + c.tasks[i].runtime
      reserved == [OutputsIn(c, sh, i, "reserved", start) EXCEPT
                     !.lane = @ \o Ascending(OutputsAt(c, c.tasks[i], "fast"))]
  IN Recorded(c, OutputsIn(c, AdvanceTo(reserved, end), i, "live", start), i, end)

-----------------------------------------------------------------------------
(* Evictions. *)

(* The live object with the furthest next use, the first made of several;    *)
(* 0 when there is none. by and safe limit a victim taken at a past boundary *)
(* to objects made by then and not read before safe.                         *)
PickVictim(c, sh, pinned, t, by, safe) ==
  LET could == {o \in DOMAIN sh.fast \ pinned :
                  /\ sh.fast[o].state = "live"
                  /\ sh.fast[o].at <= by
                  /\ safe # -1 => NextUseAfter(c, o, by) >= safe}
      next(o) == NextUseAfter(c, o, t + 1)
      far == {o \in could : \A x \in could : next(x) <= next(o)}
  IN IF could = {} THEN 0 ELSE SelectSeq(sh.lane, LAMBDA o : o \in far)[1]

BusyUntil(sh, d, t) == Max({t} \cup {x.end : x \in {y \in ToSet(sh.sched[d]) : y.enqueue <= t}})

CopyInBacking(sh, o) == State(sh.backing, o) = "live"

(* A dead object, or one backing memory holds, is released as late as the    *)
(* deadline allows; any other is offloaded as early as its own uses allow.   *)
Evict(c, sh, o, deadline, i) ==
  LET uses == {IdealStart(c, u) : u \in Uses(c, o)}
      prior == Max({-1} \cup {u \in uses : u <= deadline})
      open == {k \in 1 .. i - 1 : k >= sh.fast[o].made /\ IdealEnd(c, k) > prior}
      timely == {k \in open : IdealEnd(c, k) <= deadline}
      end(k) == BusyUntil(sh, "to_slow", IdealEnd(c, k)) + StreamTime(c, "to_slow", o)
      safe == {k \in open : ~\E u \in uses : IdealEnd(c, k) <= u /\ u <= end(k)}
      soon == {k \in safe : end(k) <= deadline}
  IN IF NextUseAfter(c, o, deadline + 1) = INF \/ CopyInBacking(sh, o)
     THEN IF timely = {} THEN [placed |-> FALSE, sh |-> sh]
          ELSE [placed |-> TRUE, sh |-> IssueRelease(c, sh, o, Max(timely))]
     ELSE IF safe = {} THEN [placed |-> FALSE, sh |-> sh]
     ELSE [placed |-> TRUE,
           sh |-> IssueOffload(c, sh, o, IF soon # {} THEN Min(soon) ELSE Max(safe))]

-----------------------------------------------------------------------------
BeladyAdmits(c) == Bytes(c, c.tasks[1].inputs) + NextReservation(c, 0) <= c.capacity

(* Room for a prefetch at boundary k: evictions there, up to the budget. *)
PeakFrom(sh, k, i) == Max({sh.bps[b] : b \in k .. i - 1})

RECURSIVE Cascade(_, _, _, _, _, _, _, _)
Evicted(c, sh, out, o, k, i, pinned, tried, used, victim) ==
  IF out.placed THEN Cascade(c, out.sh, o, k, i, pinned, tried, used + 1)
  ELSE Cascade(c, sh, o, k, i, pinned, tried \cup {victim}, used)

EvictAt(c, sh, o, k, i, pinned, tried, used, victim) ==
  IF victim = 0 THEN sh
  ELSE Evicted(c, sh, Evict(c, sh, victim, IdealEnd(c, k), k + 1), o, k, i, pinned, tried, used,
               victim)

Cascade(c, sh, o, k, i, pinned, tried, used) ==
  IF PeakFrom(sh, k, i) + c.size[o] <= c.capacity \/ used >= CASCADE_BUDGET THEN sh
  ELSE EvictAt(c, sh, o, k, i, pinned, tried, used,
               PickVictim(c, sh, {o} \cup pinned \cup tried, IdealEnd(c, k),
                          IF k <= sh.ran THEN sh.ends[k] ELSE IdealEnd(c, k), IdealStart(c, i)))

(* The latest boundary before task i from which o arrives by the task's      *)
(* ideal start within the capacity; boundary 1 when there is none.           *)
LatePrefetch(c, sh, o, late) ==
  IF UsageAt(c, sh, IdealEnd(c, 1)) + c.size[o] > c.capacity \/ late.failed THEN sh ELSE late

RECURSIVE PrefetchFrom(_, _, _, _, _, _)
PrefetchIn(c, roomy, o, k, i, pinned) ==
  IF PeakFrom(roomy, k, i) + c.size[o] > c.capacity
  THEN PrefetchFrom(c, roomy, o, k - 1, i, pinned)
  ELSE IssuePrefetch(c, roomy, o, k)

PrefetchFrom(c, sh, o, k, i, pinned) ==
  LET end == BusyUntil(sh, "from_slow", IdealEnd(c, k)) + StreamTime(c, "from_slow", o)
  IN IF k = 0 THEN LatePrefetch(c, sh, o, IssuePrefetch(c, sh, o, 1))
     ELSE IF IdealEnd(c, k) < ReadyAt(sh, sh.backing, "to_slow", o) \/ end > IdealStart(c, i)
     THEN PrefetchFrom(c, sh, o, k - 1, i, pinned)
     ELSE PrefetchIn(c, Cascade(c, sh, o, k, i, pinned, {}, 0), o, k, i, pinned)

EnsurePrefetch(c, sh, o, i, pinned) ==
  IF sh.failed \/ ShadowReady(sh, o) <= IdealStart(c, i) THEN sh
  ELSE IF ReadyAt(sh, sh.backing, "to_slow", o) = INF THEN sh
  ELSE PrefetchFrom(c, sh, o, i - 1, i, pinned)

(* The earliest time from task i's ideal start on at which its outputs fit;  *)
(* INF when none of the scheduled offloads makes enough room.                *)
CapacityFit(c, sh, i, pinned) ==
  LET t == IdealStart(c, i)
      times == {t} \cup {x.end : x \in {y \in ToSet(sh.sched["to_slow"]) : y.end > t}}
  IN IF Bytes(c, pinned) > c.capacity THEN INF
     ELSE Min({INF} \cup {x \in times : UsageAt(c, sh, x) + NextReservation(c, i - 1) <= c.capacity})

RECURSIVE MakeRoom(_, _, _, _, _)
RoomBy(c, sh, i, pinned, tried, victim) ==
  LET out == Evict(c, sh, victim, IdealStart(c, i), i)
  IN IF victim = 0 THEN [sh EXCEPT !.failed = TRUE]
     ELSE MakeRoom(c, out.sh, i, pinned, IF out.placed THEN tried ELSE tried \cup {victim})

MakeRoom(c, sh, i, pinned, tried) ==
  IF sh.failed \/ CapacityFit(c, sh, i, pinned) < INF THEN sh
  ELSE RoomBy(c, sh, i, pinned, tried,
              PickVictim(c, sh, pinned \cup tried, IdealStart(c, i), INF, -1))

(* One task of the walk; objects no later task reads are released after it.  *)
ReleaseDead(c, sh, i) ==
  LET dead == {o \in DOMAIN sh.fast \ (c.tasks[i].inputs \cup c.tasks[i].outputs) :
                 sh.fast[o].state = "live" /\ LastUse(c, o) <= i}
  IN FoldLeft(LAMBDA x, o : IssueRelease(c, x, o, i), sh,
              SelectSeq(sh.lane, LAMBDA o : o \in dead))

StartIn(c, sh, i, start) == ReleaseDead(c, RunTask(c, AdvanceTo(sh, start), i, start), i)

Pinned(c, i) == c.tasks[i].inputs \cup OutputsAt(c, c.tasks[i], "fast")

TaskIn(c, sh, i) ==
  LET inputs == Max({0} \cup {ShadowReady(sh, o) : o \in c.tasks[i].inputs})
  IN IF sh.failed \/ inputs = INF THEN [sh EXCEPT !.failed = TRUE]
     ELSE StartIn(c, sh, i, Max({sh.busy, inputs, IdealStart(c, i),
                                 CapacityFit(c, sh, i, Pinned(c, i))}))

BeladyStep(c, sh, i) ==
  TaskIn(c, MakeRoom(c, FoldLeft(LAMBDA x, o : EnsurePrefetch(c, x, o, i, Pinned(c, i)), sh,
                                 Ascending(c.tasks[i].inputs)), i, Pinned(c, i), {}), i)

BeladyChain(c, sh) == AddGradientWritebacks(ApplyAnnotations(c, sh.placed, sh.notes))
=============================================================================
