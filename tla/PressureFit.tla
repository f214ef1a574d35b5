---------------------------- MODULE PressureFit ----------------------------
(***************************************************************************)
(* The PressureFit planner (dataflow_sim/policies/pressurefit.py with       *)
(* pressurefit_aux: reducer, candidate, physical_repair). A candidate       *)
(* starts from the seed spans, cuts spans one at a time until every         *)
(* boundary fits (the reducer), is turned into triggers under one of the    *)
(* prefetch rules, replayed in the simulator and, when the replay runs out  *)
(* of memory, charged with the pressure the replay found and cut again.     *)
(* The fastest candidate that replays is returned with the workspace put    *)
(* back, and replayed once more: that last replay is watched step by step.  *)
(***************************************************************************)
EXTENDS Residency, Simulator

CONSTANTS
  Workloads,        \* the bare chains planned, with their capacity and workspaces
  Leeway,           \* program_leeway_bytes: capacity the plan must leave free
  Preplace          \* a subset of {"greedy", "task0"}

VARIABLES
  source,           \* the chain pressurefit() was called with
  mode,             \* its preplace argument
  stage,            \* what the planner does next
  tried,            \* candidates of the portfolio tried so far
  fitted,           \* spans after the reduction shared by a residency's rules
  reducer,          \* the _PressureReducer at work
  extra,            \* pressure added by physical repair, by boundary
  repairs,          \* repair rounds spent on this candidate
  best,             \* makespan and chain of the fastest candidate that replayed
  failures,         \* why candidates failed, as their diagnostics say
  sim               \* the final replay

vars == <<source, mode, stage, tried, fitted, reducer, extra, repairs, best, failures, sim>>

Residencies ==
  << [headroom |-> TRUE, score |-> "min-stall", continue |-> TRUE],
     [headroom |-> TRUE, score |-> "min-transfer", continue |-> TRUE],
     [headroom |-> FALSE, score |-> "min-stall", continue |-> TRUE],
     [headroom |-> FALSE, score |-> "min-transfer", continue |-> TRUE],
     [headroom |-> FALSE, score |-> "min-stall", continue |-> FALSE] >>

Rules == <<"packed-fifo", "packed-fit", "interval-entry", "latest-safe">>

RuleCount == 2 * Len(Rules)

PHYSICAL_REPAIR_LIMIT == 12

(* Candidate k of the portfolio: rules vary fastest, the last four coalesce. *)
ResidencyOf(k) == Residencies[(k \div RuleCount) + 1]
RuleOf(k) == Rules[((k % RuleCount) % Len(Rules)) + 1]
CoalesceOf(k) == (k % RuleCount) >= Len(Rules)

MaxWorkspace(c) == Max({c.tasks[i].workspace : i \in DOMAIN c.tasks})

(* Planning sees objects only: every workspace is taken out of the capacity  *)
(* once, at its largest.                                                     *)
ObjectChain(c) ==
  [c EXCEPT !.capacity = @ - MaxWorkspace(c) - Leeway,
            !.tasks = [i \in DOMAIN c.tasks |-> [c.tasks[i] EXCEPT !.workspace = 0]]]

bare == ObjectChain(source)

\* Fault seeded for Fits: the capacity is restored, the scratch of the tasks is not.
RestoreCapacity(plan) == [plan EXCEPT !.capacity = source.capacity - Leeway]

RestoreWorkspace(plan) ==
  [plan EXCEPT !.capacity = source.capacity - Leeway,
               !.tasks = [i \in DOMAIN plan.tasks |->
                  [plan.tasks[i] EXCEPT !.workspace = source.tasks[i].workspace]]]

-----------------------------------------------------------------------------
(* The reducer. *)

(* An admissible lower bound of the rank of cutting the gap between two      *)
(* anchors of a span; 0 - 1 stands for a missing edge.                       *)
None == -1

GapLength(span, left, right) ==
  (IF right = None THEN span.end + 1 ELSE right)
    - (IF left = None THEN span.start - 1 ELSE left) - 1

FirstUseOf(c, o) == IF Uses(c, o) = {} THEN TaskCount(c) + 1 ELSE Min(Uses(c, o))

StaticRank(c, o, span, left, right) ==
  << IF left = None /\ span.start = 0 THEN 0 ELSE 1, -FirstUseOf(c, o), -c.size[o],
     -GapLength(span, left, right) >>

RankFloor(c, o, span, left, right) == <<0, 0>> \o StaticRank(c, o, span, left, right)

EdgesAround(c, o, span, b) ==
  LET inside == {x \in Anchors(c, o) : span.start <= x /\ x <= span.end}
      left == {x \in inside : x < b}
      right == {x \in inside : x > b}
  IN [left |-> IF left = {} THEN None ELSE Max(left),
      right |-> IF right = {} THEN None ELSE Min(right)]

OnAnchor(c, o, span, b) == b \in Anchors(c, o) /\ span.start <= b /\ b <= span.end

Covered(c, o, span, headroom) == PressureStart(c, o, span.start, headroom) .. span.end

(* Objects that could be cut at boundary b without touching an anchor, and   *)
(* those that could be cut right after the anchor at b, with rank floors.    *)
(* Both are built once, from the spans the reducer is handed.                *)
GapIndex(c, spans, headroom) ==
  [b \in Boundaries(c) |->
     {<<o, RankFloor(c, o, spans[o][k], EdgesAround(c, o, spans[o][k], b).left,
                     EdgesAround(c, o, spans[o][k], b).right)>> :
        <<o, k>> \in {p \in AllSpans(spans) :
                        /\ b \in Covered(c, p[1], spans[p[1]][p[2]], headroom)
                        /\ ~OnAnchor(c, p[1], spans[p[1]][p[2]], b)}}]

AfterAnchor(c, o, span, b) ==
  /\ OnAnchor(c, o, span, b)
  /\ EdgesAround(c, o, span, b).right > b + 1
  /\ FireTask(c, o, span.start, b) = b

TimingIndex(c, spans) ==
  [b \in Boundaries(c) |->
     {<<o, RankFloor(c, o, spans[o][k], b, EdgesAround(c, o, spans[o][k], b).right)>> :
        <<o, k>> \in {p \in AllSpans(spans) : AfterAnchor(c, p[1], spans[p[1]][p[2]], b)}}]

NoCache == [key |-> <<None, FALSE>>, options |-> <<>>]

Overflows(c, pool, pressure, bs) ==
  {<<pool[b] + NextReservation(c, b) + pressure[b] - c.capacity, b>> : b \in bs}

(* The heap of strict overflows has an entry per boundary, and gets another  *)
(* whenever a boundary changes; the split options of one boundary are cached.*)
NewReducer(c, spans, spec, pressure) ==
  [spans |-> spans, spec |-> spec,
   pool |-> PoolSize(c, spans, spec.headroom),
   heap |-> Overflows(c, PoolSize(c, spans, spec.headroom), pressure, Boundaries(c)),
   cache |-> NoCache,
   departing |-> Departing(c, spans, spec.headroom),
   nonblocking |-> NonBlocking(c, spans, spec.headroom),
   gaps |-> GapIndex(c, spans, spec.headroom), timings |-> TimingIndex(c, spans),
   left |-> Max({1, 2 * (TaskCount(c) + 2) * Cardinality(Objects(c))})]

StrictOverflow(c, r, pressure, b) ==
  r.pool[b] + NextReservation(c, b) + pressure[b] - c.capacity

RelaxedOverflow(c, r, pressure, b) ==
  StrictOverflow(c, r, pressure, b) - r.departing[b] - r.nonblocking[b]

(* The largest overflow in the heap that is still one, the first boundary of *)
(* equals: what lies above it is popped on the way. Empty when nothing is    *)
(* left, an internal error.                                                  *)
Above(e, f) == e[1] > f[1] \/ (e[1] = f[1] /\ e[2] < f[2])

WorstStrict(c, r, pressure) ==
  LET fresh == {e \in r.heap : e[1] = StrictOverflow(c, r, pressure, e[2])}
  IN {[at |-> e[2], heap |-> {f \in r.heap : ~Above(f, e)}] :
        e \in {x \in fresh : \A y \in fresh : ~Above(y, x)}}

(* How far past its deadline the copy would come back, on idle streams. *)
TimingPenalty(c, o, left, right, costly, departure, use) ==
  LET trigger == Max({departure + 1} \cup IF use = 0 THEN {Max({1, right})} ELSE {})
      ready == IF costly
               THEN IdealEnd(c, departure) + TransferTime(c.size[o], c.outbound) ELSE 0
      back == Max({IdealEnd(c, trigger), ready}) + InboundTime(c, o)
      deadline == IF use # 0 THEN IdealStart(c, use) ELSE IdealEnd(c, TaskCount(c))
  IN IF right = None THEN 0
     ELSE IF (left # None /\ departure = 0) \/ trigger > TaskCount(c) THEN INF
     ELSE Max({0, back - deadline})

(* The one way to cut o at boundary b, as a set with at most one option. *)
Drops(span, left) == left = None /\ span.start = 0

LegalSplit(c, r, o, span, b, timing, left, right, before) ==
  /\ b \in Covered(c, o, span, r.spec.headroom)
  /\ OnAnchor(c, o, span, b) => /\ timing /\ right # None
                                /\ FireTask(c, o, span.start, left) = b
  /\ GapLength(span, left, right) > 0
  /\ left # None \/ (Drops(span, left) /\ before.current)

RankedSplit(c, r, o, k, left, right, before, costly) ==
  LET span == r.spans[o][k]
      departure == IF left = None THEN before.departed ELSE FireTask(c, o, span.start, left)
      cost == IF costly THEN 1 ELSE 0
  IN [object |-> o, k |-> k, left |-> left, right |-> right, cost |-> cost,
      rank |-> (IF r.spec.score = "min-stall"
                THEN <<TimingPenalty(c, o, left, right, costly, departure,
                                     FirstUse(c, o, right, span.end)), cost>>
                ELSE <<cost, 0>>) \o StaticRank(c, o, span, left, right)]

SplitOf(c, r, o, k, b, timing, left, right, before) ==
  LET span == r.spans[o][k]
  IN IF ~LegalSplit(c, r, o, span, b, timing, left, right, before) THEN {}
     ELSE {RankedSplit(c, r, o, k, left, right, before,
             /\ ~Drops(span, left)
             /\ ~(before.current /\ ~Dirtied(c, o, Span(span.start, left))))}

SplitOptions(c, r, o, b, timing) ==
  LET k == Max({j \in DOMAIN r.spans[o] : r.spans[o][j].start <= b + 1})
      span == r.spans[o][k]
  IN IF o \notin DOMAIN r.spans THEN {}
     ELSE IF \A j \in DOMAIN r.spans[o] : r.spans[o][j].start > b + 1 THEN {}
     ELSE SplitOf(c, r, o, k, b, timing,
                  IF OnAnchor(c, o, span, b) THEN b ELSE EdgesAround(c, o, span, b).left,
                  EdgesAround(c, o, span, b).right, BackingBefore(c, o, r.spans[o])[k])

(* Candidates in the order of their floors, until a floor cannot be beaten;  *)
(* an option is computed once and then taken from the cache.                 *)
Beaten(found, floor) == found # {} /\ \A x \in found : ~LexLess(floor, x.rank)

Better(found, mine) ==
  IF mine # {} /\ (found = {} \/ \E x \in found, y \in mine : LexLess(y.rank, x.rank))
  THEN mine ELSE found

Scanned(scan, o, mine) ==
  [found |-> Better(scan.found, mine), options |-> Put(scan.options, o, mine)]

Scan(c, r, b, timing, scan, floor, o) ==
  IF Beaten(scan.found, floor) THEN scan
  ELSE IF o \in DOMAIN scan.options THEN Scanned(scan, o, scan.options[o])
  ELSE Scanned(scan, o, SplitOptions(c, r, o, b, timing))

BestSplit(c, r, b, timing) ==
  LET entries == r.gaps[b] \cup IF timing THEN r.timings[b] ELSE {}
  IN FoldLeft(LAMBDA scan, e : Scan(c, r, b, timing, scan, e[2], e[1]),
              [found |-> {}, options |-> IF r.cache.key = <<b, timing>> THEN r.cache.options ELSE <<>>],
              SortedBy(entries, LAMBDA e : Append(e[2], e[1])))

(* A second computation of the same cut, which the reducer compares with     *)
(* its ranked option: None when the cut cannot be executed.                  *)
TransitionCost(c, spans, split) ==
  LET o == split.object
      span == spans[o][split.k]
      before == BackingBefore(c, o, spans[o])[split.k]
      produced == split.k = 1 /\ span.start > 0 /\ span.start = Producer(c, o)
      kept == Span(span.start, split.left)
      departed == IF split.left = None THEN before.departed
                  ELSE FireTask(c, o, span.start, split.left)
      cost == IF split.left = None \/ (before.current /\ ~produced /\ ~Dirtied(c, o, kept))
              THEN 0 ELSE 1
      latest == LatestPrefetch(c, o, Span(split.right, span.end), split.k = Len(spans[o]))
  IN IF \/ (split.left # None /\ departed = 0)
        \/ (split.left = None /\ ~before.current)
        \/ (split.right # None /\ departed + 1 > latest)
     THEN None ELSE cost

Pieces(span, split) ==
  (IF split.left = None THEN <<>> ELSE <<Span(span.start, split.left)>>)
    \o (IF split.right = None THEN <<>> ELSE <<Span(split.right, span.end)>>)

(* The boundary sums are kept up to date by difference. *)
Respanned(c, r, split) ==
  LET o == split.object
      old == r.spans[o][split.k]
      pieces == Pieces(old, split)
      spans == ReplaceSubSeqAt(split.k, pieces, <<old>>, r.spans[o])
      uncovered(b) ==
        /\ b \in Covered(c, o, old, r.spec.headroom)
        /\ \A j \in DOMAIN pieces : b \notin Covered(c, o, pieces[j], r.spec.headroom)
      moved(sum, At(_, _, _, _)) ==
        [b \in Boundaries(c) |->
           sum[b] + c.size[o] *
             (Cardinality({j \in DOMAIN pieces : At(o, pieces[j].start, pieces[j].end, b)})
                - (IF At(o, old.start, old.end, b) THEN 1 ELSE 0))]
  IN [r EXCEPT
        !.left = @ - 1,
        !.spans = [x \in (DOMAIN @ \ {o}) \cup (IF spans = <<>> THEN {} ELSE {o}) |->
                     IF x = o THEN spans ELSE @[x]],
        !.pool = [b \in Boundaries(c) |-> @[b] - (IF uncovered(b) THEN c.size[o] ELSE 0)],
        !.departing = moved(@, LAMBDA x, y, z, b : DepartsAt(c, x, y, z, b, r.spec.headroom)),
        !.nonblocking =
            moved(@, LAMBDA x, y, z, b : ArrivesAt(c, x, y, z, b, r.spec.headroom))]

Pushed(c, r, was, pressure) ==
  [r EXCEPT !.heap = @ \cup Overflows(c, r.pool, pressure, {b \in Boundaries(c) : r.pool[b] # was[b]})]

\* Fault seeded for BookkeepingExact: the cut object's option stays in the cache.
SplitKeepingOption(c, r, split, pressure) == Pushed(c, Respanned(c, r, split), r.pool, pressure)

(* The changed boundaries enter the heap again; the cached options of all    *)
(* other objects stay.                                                       *)
ApplySplit(c, r, split, pressure) ==
  Pushed(c, [Respanned(c, r, split) EXCEPT !.cache.options = Drop(@, split.object)], r.pool, pressure)

-----------------------------------------------------------------------------
(* What the reducer does next: stop, give up, or cut. *)

Cutting(r, heap, b, timing, scan) ==
  [verdict |-> "cut", split |-> CHOOSE x \in scan.found : TRUE,
   reducer |-> [r EXCEPT !.heap = heap, !.cache = [key |-> <<b, timing>>, options |-> scan.options]]]

Verdict(c, r, pressure, strict, heap, relaxed, plain, timed) ==
  LET fits == RelaxedOverflow(c, r, pressure, relaxed) <= 0
  IN IF r.left = 0 THEN [verdict |-> "infeasible"]
     ELSE IF \/ StrictOverflow(c, r, pressure, strict) <= 0
             \/ (~r.spec.continue /\ fits)
     THEN [verdict |-> "fits"]
     ELSE IF plain.found # {} THEN Cutting(r, heap, strict, FALSE, plain)
     ELSE IF fits THEN [verdict |-> "fits"]
     ELSE IF timed.found # {} THEN Cutting(r, heap, relaxed, TRUE, timed)
     ELSE [verdict |-> "infeasible"]

(* The second scan looks at another key than the first and starts afresh. *)
NextSplit(c, r, pressure) ==
  LET relaxed == Worst(c, LAMBDA b : RelaxedOverflow(c, r, pressure, b))
  IN IF r.left > 0 /\ WorstStrict(c, r, pressure) = {} THEN {[verdict |-> "internal"]}
     ELSE {Verdict(c, r, pressure, worst.at, worst.heap, relaxed, BestSplit(c, r, worst.at, FALSE),
                   BestSplit(c, [r EXCEPT !.cache = NoCache], relaxed, TRUE)) :
             worst \in WorstStrict(c, r, pressure)}

(* The cut that was ranked must be the cut that can be executed. *)
Mismatched(c, r, next) == TransitionCost(c, r.spans, next.split) # next.split.cost

Realize(c, spans, moves, k, pressure) ==
  EmitChain(c, moves,
            Fires(c, spans, moves, RuleOf(k), pressure, ResidencyOf(k).headroom),
            CoalesceOf(k))

(* Only the interval-entry rules move entries. *)
Refine(c, spans, moves, k, pressure) ==
  IF RuleOf(k) # "interval-entry" THEN spans
  ELSE ExtendEntries(c, spans, moves, pressure, ResidencyOf(k).headroom)

NoPressure(c) == [b \in Boundaries(c) |-> 0]

(* The pressure a failed replay reveals at the boundary before its task;     *)
(* empty when the failure is not one of capacity.                            *)
RepairedPressure(c, spans, pressure, e) ==
  LET b == e.task - 1
      missing == Bytes(c, e.missing)
      need == IF e.need # 0 THEN e.need ELSE c.capacity + missing
      over == Max({1, need - c.capacity})
      wanted == need - ModeledNeed(c, spans, b)
  IN IF e.kind # "capacity" \/ (e.need = 0 /\ missing = 0) THEN {}
     ELSE {[pressure EXCEPT ![b] = Max({1, IF wanted <= @ THEN @ + over ELSE wanted})]}

ComputeLowerBound(c) == IdealEnd(c, TaskCount(c))

NoPlan == [makespan |-> INF, chain |-> {}]

Portfolio == Len(Residencies) * RuleCount

-----------------------------------------------------------------------------
Init ==
  /\ source \in Workloads
  /\ mode \in Preplace
  /\ stage = "admit"
  /\ tried = 0 /\ fitted = <<>> /\ reducer = <<>> /\ repairs = 0
  /\ extra = NoPressure(source)
  /\ best = NoPlan /\ failures = {} /\ sim = <<>>

(* Admission: too little memory for the workspaces, for one task's objects,  *)
(* or for the first task, is refused before any search.                      *)
Admit ==
  /\ stage = "admit"
  /\ IF bare.capacity >= 0 /\ ValidPlanningInput(bare) /\ PlacementFits(bare)
     THEN /\ reducer' = NewReducer(bare, SeedSpans(bare, InitialPlacement(bare, mode = "greedy")),
                                   ResidencyOf(0), NoPressure(bare))
          /\ stage' = "fit"
     ELSE stage' = "refused" /\ UNCHANGED reducer
  /\ UNCHANGED <<source, mode, tried, fitted, extra, repairs, best, failures, sim>>

(* Leaving candidates tried .. k - 1 behind. *)
GoTo(k) ==
  /\ tried' = k
  /\ repairs' = 0
  /\ extra' = NoPressure(bare)
  /\ IF k = Portfolio THEN stage' = "select" /\ reducer' = <<>> /\ fitted' = <<>>
     ELSE IF k % RuleCount = 0
     THEN /\ stage' = "fit" /\ fitted' = <<>>
          /\ reducer' = NewReducer(bare, SeedSpans(bare, InitialPlacement(bare, mode = "greedy")),
                                   ResidencyOf(k), NoPressure(bare))
     ELSE stage' = "start" /\ reducer' = <<>> /\ UNCHANGED fitted

(* A residency that cannot be reduced takes all its candidates with it; a    *)
(* candidate that cannot be reduced again fails alone.                       *)
AbandonReduction(why) ==
  /\ failures' = failures \cup {why}
  /\ GoTo(IF stage = "fit" THEN tried + RuleCount ELSE tried + 1)

Cut(next) ==
  /\ next.verdict = "cut"
  /\ IF Mismatched(bare, reducer, next) THEN AbandonReduction("internal")
     ELSE /\ reducer' = ApplySplit(bare, next.reducer, next.split, extra)
          /\ UNCHANGED <<stage, tried, fitted, extra, repairs, failures>>

GiveUp(next) == next.verdict \in {"infeasible", "internal"} /\ AbandonReduction(next.verdict)

Fitted(next) ==
  /\ next.verdict = "fits"
  /\ IF stage = "fit" THEN fitted' = reducer.spans /\ stage' = "start" /\ reducer' = <<>>
     ELSE stage' = "refine" /\ UNCHANGED <<fitted, reducer>>
  /\ UNCHANGED <<tried, extra, repairs, failures>>

Reduce ==
  /\ stage \in {"fit", "refit"}
  /\ \E next \in NextSplit(bare, reducer, extra) : Cut(next) \/ GiveUp(next) \/ Fitted(next)
  /\ UNCHANGED <<source, mode, best, sim>>

(* A candidate starts from its own copy of the spans its residency fitted. *)
StartCandidate ==
  /\ stage = "start"
  /\ reducer' = [spans |-> fitted]
  /\ stage' = "refine"
  /\ UNCHANGED <<source, mode, tried, fitted, extra, repairs, best, failures, sim>>

(* Realize the candidate, replay it, and keep it, repair it or drop it. *)
Fail(why) ==
  /\ failures' = failures \cup {why}
  /\ GoTo(tried + 1) /\ UNCHANGED best

Keep(plan, makespan) ==
  /\ best' = IF makespan < best.makespan THEN [makespan |-> makespan, chain |-> plan] ELSE best
  /\ GoTo(IF makespan = ComputeLowerBound(bare) THEN Portfolio ELSE tried + 1)
  /\ UNCHANGED failures

RepairWith(spans, pressure) ==
  /\ extra' = pressure
  /\ repairs' = repairs + 1
  /\ reducer' = NewReducer(bare, spans, ResidencyOf(tried), pressure)
  /\ stage' = "refit"
  /\ UNCHANGED <<tried, fitted, best, failures>>

Judge(spans, plan, replay) ==
  LET repaired == RepairedPressure(bare, spans, extra, replay.error)
  IN IF replay.pc = "done" THEN Keep(plan, replay.makespan)
     ELSE IF repairs < PHYSICAL_REPAIR_LIMIT /\ repaired # {}
     THEN \E pressure \in repaired : RepairWith(spans, pressure)
     ELSE Fail("replay")

VerifyPlan(spans, plan) ==
  IF EmitConflict(plan) THEN Fail("internal") ELSE Judge(spans, plan, Replay(plan))

VerifySpans(spans, moves) ==
  IF ~LegalTransitions(moves) THEN Fail("illegal")
  ELSE VerifyPlan(spans, Realize(bare, spans, moves, tried, extra))

MovesOf(spans) == Transitions(bare, spans, CoalesceOf(tried))

VerifyRefined(spans) == VerifySpans(spans, MovesOf(spans))

Verify ==
  /\ stage = "refine"
  /\ IF RuleOf(tried) = "interval-entry" /\ ~LegalTransitions(MovesOf(reducer.spans))
     THEN Fail("illegal")
     ELSE VerifyRefined(Refine(bare, reducer.spans, MovesOf(reducer.spans), tried, extra))
  /\ UNCHANGED <<source, mode, sim>>

Select ==
  /\ stage = "select"
  /\ IF best.makespan = INF THEN stage' = "raised" /\ UNCHANGED sim
     ELSE stage' = "replay" /\ sim' = FirstState(RestoreWorkspace(best.chain))
  /\ UNCHANGED <<source, mode, tried, fitted, reducer, extra, repairs, best, failures>>

ReplayStep ==
  /\ stage = "replay"
  /\ IF Ended(sim) THEN /\ stage' = (IF sim.pc = "done" THEN "returned" ELSE "raised")
                        /\ UNCHANGED sim
     ELSE sim' = Step(RestoreWorkspace(best.chain), sim) /\ UNCHANGED stage
  /\ UNCHANGED <<source, mode, tried, fitted, reducer, extra, repairs, best, failures>>

Next == Admit \/ Reduce \/ StartCandidate \/ Verify \/ Select \/ ReplayStep

Spec == Init /\ [][Next]_vars
-----------------------------------------------------------------------------
(* Properties. *)

(* The boundary sums are those of the spans held; the heap has every         *)
(* boundary's overflow, whatever else is in it; and a cached option is what  *)
(* would be computed now.                                                    *)
ReducerExact ==
  stage \in {"fit", "refit"} =>
    /\ reducer.pool = PoolSize(bare, reducer.spans, reducer.spec.headroom)
    /\ reducer.departing = Departing(bare, reducer.spans, reducer.spec.headroom)
    /\ reducer.nonblocking = NonBlocking(bare, reducer.spans, reducer.spec.headroom)
    /\ Overflows(bare, reducer.pool, extra, Boundaries(bare)) \subseteq reducer.heap
    /\ \A o \in DOMAIN reducer.cache.options :
         reducer.cache.options[o]
           = SplitOptions(bare, reducer, o, reducer.cache.key[1], reducer.cache.key[2])

SourceScratch == IF sim.pc = "compute" THEN source.tasks[sim.task].workspace ELSE 0

(* In every state of the replay of the plan returned the running totals are  *)
(* the bytes of the copies held, and these with the scratch that the source  *)
(* chain gives the running task, whatever the plan made of it, stay within   *)
(* the capacity less the leeway (schema.py, _restore_execution_workspace).   *)
Fits ==
  stage \in {"replay", "returned"} =>
    /\ sim.total.fast = Bytes(source, DOMAIN sim.fast)
    /\ sim.total.backing = Bytes(source, DOMAIN sim.backing)
    /\ sim.total.fast + SourceScratch <= source.capacity - Leeway

(* No task of the selected plan reads a copy older than the last rewrite of  *)
(* its object, and a plan that is returned leaves the newest bytes of every  *)
(* object with a required final location there.                              *)
ReadsLatest ==
  /\ stage \in {"replay", "returned"} => ~sim.stale
  /\ stage = "returned" =>
       \A o \in DOMAIN source.final :
         /\ o \in DOMAIN sim[source.final[o]]
         /\ sim[source.final[o]][o] = [state |-> "live", version |-> sim.latest[o]]
=============================================================================
