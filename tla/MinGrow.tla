------------------------------ MODULE MinGrow ------------------------------
(***************************************************************************)
(* The min_grow policy (dataflow_sim/policies/min_grow.py): a plan gives    *)
(* each object half-open spans of boundaries, [start, end). From MAX, if it *)
(* fits and replays, or else from a plan grown out of the forced spans, it  *)
(* searches by shrinking, merging and a beam of single changes, scoring     *)
(* every plan by a full replay, until nothing improves or its wall-clock    *)
(* budget runs out. search is the state of that loop; a step may also be    *)
(* the one during which the time runs out, after any number of scorings.    *)
(*                                                                         *)
(* The simulator never exceeds the capacity (Fits), so the code's test of a *)
(* scored plan's peak always passes and a score is a makespan, or INF. The  *)
(* repair that looks for stalled pending-outbound inputs matches copies     *)
(* located at "compute"; no copy ever is, and it is left out.               *)
(***************************************************************************)
EXTENDS Residency, Simulator

K_BEAM == 5
K_SIM == 15
PATIENCE == 3
SHRINK_PATIENCE == 6

(* The order of a plan's dictionary: first reference, inputs before outputs, *)
(* and within one task the walk of a set of strings.                         *)
PlanOrder(c, order) ==
  LET first(o) == IF Producer(c, o) > 0 THEN <<Producer(c, o), 1>>
                  ELSE IF Uses(c, o) # {} THEN <<Min(Uses(c, o)), 0>>
                  ELSE <<TaskCount(c) + 1, 0>>
      at(o) == CHOOSE k \in DOMAIN order : order[k] = o
  IN SortedBy(Objects(c), LAMBDA o : first(o) \o <<at(o)>>)

PlannedObjects(c, plan, order) == SelectSeq(PlanOrder(c, order), LAMBDA o : o \in DOMAIN plan)

Forced(c, o) ==
  {u - 1 : u \in Uses(c, o)} \cup ({Producer(c, o)} \ {0})

(* Maximal runs of forced boundaries, as half-open spans. *)
MinSpans(c, o) ==
  LET bs == Forced(c, o) \cup (IF o \in c.fast THEN {0} ELSE {})
      starts == {b \in bs : b - 1 \notin bs}
      stop(b) == Min({x \in b + 1 .. TaskCount(c) + 1 : x \notin bs})
  IN [k \in 1 .. Cardinality(starts) |->
        LET b == Ascending(starts)[k] IN Span(b, stop(b))]

MinPlan(c) ==
  [o \in {x \in Objects(c) : Forced(c, x) # {} \/ x \in c.fast} |-> MinSpans(c, o)]

MaxPlan(c) ==
  [o \in DOMAIN MinPlan(c) |-> << Span(Producer(c, o), Last(MinPlan(c)[o]).end) >>]

AllOutputs(c, b) == IF b < TaskCount(c) THEN Bytes(c, c.tasks[b + 1].outputs) ELSE 0

StaticPeak(c, plan) ==
  Max({Charge(c, plan, LAMBDA o, x, y : x <= b /\ b < y) + AllOutputs(c, b) : b \in Boundaries(c)})

RespectsStaticCap(c, plan) == StaticPeak(c, plan) <= c.capacity

-----------------------------------------------------------------------------
(* One-object changes of a plan, with the task they are ranked by. *)

Changed(plan, o, spans, rank) ==
  [plan |-> IF spans = <<>> THEN [x \in DOMAIN plan \ {o} |-> plan[x]]
            ELSE [plan EXCEPT ![o] = spans],
   rank |-> rank]

FirstUseAfter(c, o, b) ==
  LET later == {u \in Uses(c, o) : u - 1 >= b}
  IN IF later # {} THEN Min(later)
     ELSE IF Producer(c, o) > 0 /\ Producer(c, o) >= b THEN Producer(c, o)
     ELSE TaskCount(c) + 2

ForcedIn(c, o, span) ==
  {b \in Forced(c, o) : span.start <= b /\ b < span.end}

Spliced(spans, k, new) == SubSeq(spans, 1, k - 1) \o new \o SubSeq(spans, k + 1, Len(spans))

Where(test, seq) == IF test THEN seq ELSE <<>>

ReductionsOf(c, plan, o, k) ==
  LET spans == plan[o]
      span == spans[k]
      forced == ForcedIn(c, o, span)
      low == Min(forced)
      high == Max(forced) + 1
      to(new, b) == Changed(plan, o, Spliced(spans, k, new), FirstUseAfter(c, o, b))
      gaps == Ascending({b \in forced : b # Max(forced) /\ b + 1 \notin forced})
      after(b) == Min({x \in forced : x > b})
  IN IF forced = {} THEN <<Changed(plan, o, Spliced(spans, k, <<>>), TaskCount(c) + 2)>>
     ELSE Where(span.start < low, <<to(<<Span(low, span.end)>>, low)>>)
            \o Where(high < span.end, <<to(<<Span(span.start, high)>>, high)>>)
            \o [j \in DOMAIN gaps |->
                  to(<<Span(span.start, gaps[j] + 1), Span(after(gaps[j]), span.end)>>,
                     after(gaps[j]))]

ExtensionsOf(c, plan, o, k) ==
  LET spans == plan[o]
      span == spans[k]
      rank == IF Uses(c, o) = {} THEN TaskCount(c) + 2 ELSE Min(Uses(c, o))
      low == IF k > 1 THEN spans[k - 1].end ELSE Producer(c, o)
      high == IF k < Len(spans) THEN spans[k + 1].start ELSE TaskCount(c) + 1
      to(new) == Changed(plan, o, new, rank)
  IN Where(span.start > low,
           <<to(IF k = 1 THEN Spliced(spans, k, <<Span(low, span.end)>>)
                ELSE Spliced(Spliced(spans, k, <<>>), k - 1,
                             <<Span(spans[k - 1].start, span.end)>>))>>)
       \o Where(span.end < high,
                <<to(IF k = Len(spans) THEN Spliced(spans, k, <<Span(span.start, high)>>)
                     ELSE Spliced(Spliced(spans, k, <<>>), k,
                                  <<Span(span.start, spans[k + 1].end)>>))>>)

(* Without the later of two changes that give the same plan. *)
Distinct(seq) ==
  LET new(i) == \A j \in 1 .. i - 1 : seq[j].plan # seq[i].plan
      kept == Ascending({i \in DOMAIN seq : new(i)})
  IN [i \in DOMAIN kept |-> seq[kept[i]]]

(* All changes of every span, in plan order. *)
Changes(c, plan, objects, ChangesOf(_, _, _, _)) ==
  LET of(o) == FlattenSeq([k \in DOMAIN plan[o] |-> ChangesOf(c, plan, o, k)])
  IN Distinct(FlattenSeq([j \in DOMAIN objects |-> of(objects[j])]))

RankedBy(seq, key(_)) ==
  LET ranks == SortedBy(DOMAIN seq, LAMBDA i : key(seq[i]) \o <<i>>)
  IN [i \in DOMAIN seq |-> seq[ranks[i]]]

-----------------------------------------------------------------------------
(* From a plan to triggers. *)

FirstUseIn(c, o, span) ==
  LET in == {u \in Uses(c, o) : span.start < u /\ u <= span.end}
  IN IF in = {} THEN span.end ELSE Min(in)

(* The latest task whose end leaves time for the transfer before the use,    *)
(* no later than the span's first boundary.                                  *)
SmartPrefetchTask(c, o, span) ==
  LET use == FirstUseIn(c, o, span)
      early == {t \in 1 .. span.start : IdealEnd(c, t) + InboundTime(c, o) <= IdealStart(c, use)}
  IN IF use > TaskCount(c) THEN span.start ELSE Max({1} \cup early)

RewrittenIn(c, o, span) == \E t \in Mutators(c, o) : span.start < t /\ t <= span.end

ExitKind(c, o, span, last) ==
  IF RewrittenIn(c, o, span) THEN "offload"
  ELSE IF o \in c.backing \/ last THEN "release" ELSE "offload"

(* A span is left after its last use, or after its first task; one that      *)
(* reaches the end is left only to write a rewritten backing object back.    *)
ExitOf(c, o, span, last) ==
  LET used == {u \in Uses(c, o) : span.start < u /\ u <= span.end}
      task == Max({1, Min({TaskCount(c), Max({span.start} \cup used)})})
  IN IF span.end <= TaskCount(c)
     THEN <<[task |-> task, kind |-> ExitKind(c, o, span, last), object |-> o, key |-> span.start]>>
     ELSE <<>>

WritebackOf(c, o, span) ==
  Where(/\ span.end > TaskCount(c) /\ o \in c.backing
        /\ \E t \in Mutators(c, o) : span.start < t,
        <<[task |-> TaskCount(c), kind |-> "offload", object |-> o, key |-> span.start]>>)

EntryOf(c, o, span) ==
  Where(span.start > 0 /\ span.start # Producer(c, o) /\ span.start <= TaskCount(c),
        <<[task |-> SmartPrefetchTask(c, o, span), kind |-> "prefetch", object |-> o,
           key |-> FirstUseIn(c, o, span)]>>)

(* A departure and a prefetch of one object after the same task cancel.      *)
EventsOf(c, plan, objects) ==
  LET moves(o) == FlattenSeq([k \in DOMAIN plan[o] |->
                    EntryOf(c, o, plan[o][k]) \o ExitOf(c, o, plan[o][k], k = Len(plan[o]))])
  IN FlattenSeq([j \in DOMAIN objects |-> moves(objects[j])])
       \o FlattenSeq([j \in DOMAIN objects |->
            WritebackOf(c, objects[j], Last(plan[objects[j]]))])

EventsAt(events, i, kind) == SelectSeq(events, LAMBDA e : e.task = i /\ e.kind = kind)

ObjectsAt(events, i, kind) == {e.object : e \in ToSet(EventsAt(events, i, kind))}

Wasteful(events, i) ==
  (ObjectsAt(events, i, "release") \cup ObjectsAt(events, i, "offload"))
    \cap ObjectsAt(events, i, "prefetch")

(* By the last key and then the first position of each object's triggers. *)
ByKey(triggers, objects) ==
  LET mine(o) == {k \in DOMAIN triggers : triggers[k].object = o}
  IN SortedBy(objects, LAMBDA o : <<IF triggers[1].kind = "release" THEN 0
                                    ELSE triggers[Max(mine(o))].key, Min(mine(o))>>)

TriggersAt(events, i, kind) ==
  ByKey(EventsAt(events, i, kind), ObjectsAt(events, i, kind) \ Wasteful(events, i))

Scheduled(c, plan, events) ==
  WithTriggers(c, {o \in DOMAIN plan \cap c.backing : plan[o][1].start = 0},
               LAMBDA i : TriggersAt(events, i, "release"),
               LAMBDA i : TriggersAt(events, i, "offload"),
               LAMBDA i : TriggersAt(events, i, "prefetch"))

DeriveSchedule(c, plan, order) ==
  Scheduled(c, plan, EventsOf(c, plan, PlannedObjects(c, plan, order)))

MakespanOf(replay) == IF replay.pc = "done" THEN replay.makespan ELSE INF

Score(c, plan, order) == MakespanOf(Replay(DeriveSchedule(c, plan, order)))

-----------------------------------------------------------------------------
(* The search. *)

(* MIN with the inputs of the longest prefix of tasks that fits whole made   *)
(* resident from the start: to their last use, or through their first span.  *)
LeadTimeGrow(c) ==
  LET n == TaskCount(c)
      upTo(i) == UNION {c.tasks[j].inputs \cup c.tasks[j].outputs : j \in 1 .. i}
      warm == Max({i \in 0 .. n : \A j \in 1 .. i : Bytes(c, upTo(j)) <= c.capacity})
      chosen == upTo(warm) \cap (c.backing \cup c.fast)
      lead(o) == IF Uses(c, o) = {} THEN 0 ELSE IdealStart(c, Min(Uses(c, o)))
      grow(plan, o) ==
        LET full == [plan EXCEPT ![o] = <<Span(0, Last(@).end)>>]
            head == [plan EXCEPT ![o][1].start = 0]
        IN IF plan[o][1].start = 0 THEN plan
           ELSE IF RespectsStaticCap(c, full) THEN full
           ELSE IF RespectsStaticCap(c, head) THEN head ELSE plan
  IN FoldLeft(grow, MinPlan(c), SortedBy(chosen, LAMBDA o : <<lead(o), o>>))

(* The first of the fastest of some scored candidates. *)
Fastest(scores) ==
  CHOOSE i \in DOMAIN scores : \A j \in DOMAIN scores : \/ scores[i] < scores[j]
                                                        \/ (scores[i] = scores[j] /\ i <= j)

ToRepair(s) == [s EXCEPT !.phase = "repair", !.start = s.best, !.cur = s.best, !.curMs = s.bestMs,
                         !.next = <<1, 1>>, !.improved = FALSE]

(* Accept the best shrink that is not worse, for up to six plateau steps: the *)
(* search after some candidates have been scored, and whether time is up.    *)
AfterShrinks(s, tried, scores, late) ==
  LET i == Fastest(scores)
      better == scores[i] < s.bestMs
      new == [s EXCEPT !.cur = tried[i].plan, !.curMs = scores[i],
                       !.best = IF better THEN tried[i].plan ELSE @,
                       !.bestMs = Min({@, scores[i]}),
                       !.stale = IF better THEN 0 ELSE @ + 1]
  IN IF scores = <<>> THEN ToRepair(s)
     ELSE IF scores[i] > s.curMs THEN ToRepair(s)
     ELSE IF late \/ new.stale = SHRINK_PATIENCE THEN ToRepair(new) ELSE new

ScoresOf(c, tried, order) == [i \in DOMAIN tried |-> Score(c, tried[i].plan, order)]

(* What a round may end as: complete, or cut short after any scoring. *)
Rounds(tried, scores, After(_, _)) ==
  {After(scores, FALSE)} \cup {After(SubSeq(scores, 1, k), TRUE) : k \in 0 .. Len(tried)}

FirstFew(seq, k) == SubSeq(seq, 1, Min({k, Len(seq)}))

ShrinkTried(c, s, order, tried) ==
  Rounds(tried, ScoresOf(c, tried, order),
         LAMBDA scores, late : AfterShrinks(s, tried, scores, late))

Shrink(c, s, order) ==
  ShrinkTried(c, s, order,
    FirstFew(RankedBy(SelectSeq(Changes(c, s.cur, PlannedObjects(c, s.cur, order), ReductionsOf),
                                LAMBDA x : RespectsStaticCap(c, x.plan)),
                      LAMBDA x : <<-x.rank>>), K_SIM))

\* Fault seeded for SearchKeepsBest: the repaired plan's time is kept, the plan is not.
BeamFromUnrepaired(c, s, start, score) ==
  LET wins == score < Min({s.bestMs, s.curMs})
  IN [s EXCEPT !.phase = "beam", !.start = start, !.stale = 0, !.seen = {start},
               !.best = IF wins THEN start ELSE @,
               !.bestMs = Min({@, s.curMs, score}),
               !.beam = <<[plan |-> start, ms |-> score,
                           peak |-> IF score = INF THEN StaticPeak(c, start) ELSE 0]>>]

(* The beam starts from the best plan so far, or from one that never ran.    *)
BeamFrom(c, s, start, score) ==
  LET better == s.curMs < s.bestMs
      wins == score < Min({s.bestMs, s.curMs})
  IN [s EXCEPT !.phase = "beam", !.start = start, !.stale = 0, !.seen = {start},
               !.best = IF better \/ wins THEN start ELSE @,
               !.bestMs = Min({@, s.curMs, score}),
               !.beam = <<[plan |-> start, ms |-> score,
                           peak |-> IF score = INF THEN StaticPeak(c, start) ELSE 0]>>]

ToBeam(c, s, order) ==
  LET start == IF s.curMs < s.bestMs THEN s.cur ELSE s.start
  IN BeamFrom(c, s, start, Score(c, start, order))

NoSearch(c, start, min) ==
  [phase |-> "beam", min |-> min, start |-> start, best |-> MinPlan(c), bestMs |-> INF,
   cur |-> start, curMs |-> INF, stale |-> 0, next |-> <<1, 1>>, improved |-> FALSE,
   beam |-> <<>>, seen |-> {}]

SearchFrom(c, start, score, min) ==
  IF score = INF THEN BeamFrom(c, NoSearch(c, start, min), start, score)
  ELSE [NoSearch(c, start, min) EXCEPT !.phase = "shrink", !.best = start, !.bestMs = score,
                                       !.curMs = score]

NewSearch(c, order) ==
  LET start == IF RespectsStaticCap(c, MaxPlan(c)) THEN MaxPlan(c) ELSE LeadTimeGrow(c)
  IN SearchFrom(c, start, Score(c, start, order), Score(c, MinPlan(c), order))

(* Try the next pair of neighbouring spans for a merge that is faster; when  *)
(* a pass over all of them improved the plan there is another pass.          *)
GapsOf(s, objects) ==
  {p \in UNION {{<<j, k>> : k \in 1 .. Len(s.cur[objects[j]]) - 1} : j \in DOMAIN objects} :
     /\ ~LexLess(p, s.next)
     /\ s.cur[objects[p[1]]][p[2]].end < s.cur[objects[p[1]]][p[2] + 1].start}

MergedAt(plan, o, k) ==
  [plan EXCEPT ![o] = Spliced(Spliced(@, k + 1, <<>>), k, <<Span(@[k].start, @[k + 1].end)>>)]

MergeTried(s, p, merged, ms) ==
  IF ms < s.curMs THEN [s EXCEPT !.cur = merged, !.curMs = ms, !.next = p, !.improved = TRUE]
  ELSE [s EXCEPT !.next = <<p[1], p[2] + 1>>]

TryMerge(c, s, order, p, merged) ==
  MergeTried(s, p, merged, IF RespectsStaticCap(c, merged) THEN Score(c, merged, order) ELSE INF)

MergeIn(c, s, order, objects, gaps) ==
  LET p == CHOOSE x \in gaps : \A y \in gaps \ {x} : LexLess(x, y)
  IN IF gaps # {} THEN {TryMerge(c, s, order, p, MergedAt(s.cur, objects[p[1]], p[2]))}
     ELSE IF s.improved THEN {[s EXCEPT !.next = <<1, 1>>, !.improved = FALSE]} ELSE {}

Merge(c, s, order) ==
  LET objects == PlannedObjects(c, s.cur, order)
  IN {ToBeam(c, s, order)} \cup MergeIn(c, s, order, objects, GapsOf(s, objects))

Finished(s) == [s EXCEPT !.phase = "found"]

(* One round of the beam: every unseen change of its plans, ranked, the best *)
(* ranked scored, and the fastest kept.                                      *)
PlansIn(seq) == {x.plan : x \in ToSet(seq)}

Unseen(seq, seen) == SelectSeq(seq, LAMBDA x : x.plan \notin seen)

AddExtensions(c, acc, plan, objects) ==
  LET new == Unseen(SelectSeq(Changes(c, plan, objects, ExtensionsOf),
                              LAMBDA x : RespectsStaticCap(c, x.plan)), acc.seen)
  IN [acc EXCEPT !.exts = @ \o new, !.seen = @ \cup PlansIn(new)]

AddReductions(c, acc, plan, objects) ==
  LET new == Unseen(Changes(c, plan, objects, ReductionsOf), acc.seen)
  IN [acc EXCEPT !.reds = @ \o new, !.seen = @ \cup PlansIn(new)]

Candidates(c, s, order) ==
  FoldLeft(LAMBDA acc, e :
             AddExtensions(c, AddReductions(c, acc, e.plan, PlannedObjects(c, e.plan, order)),
                           e.plan, PlannedObjects(c, e.plan, order)),
           [reds |-> <<>>, exts |-> <<>>, seen |-> s.seen], s.beam)

ChosenOf(c, s, found) ==
  LET half == K_SIM \div 2
      reds == RankedBy(found.reds, LAMBDA x : <<-x.rank, StaticPeak(c, x.plan)>>)
      exts == RankedBy(found.exts, LAMBDA x : <<x.rank, StaticPeak(c, x.plan)>>)
  IN IF s.bestMs = INF THEN FirstFew(reds, K_SIM)
     ELSE FirstFew(reds, K_SIM - half) \o FirstFew(exts, half)

BeamEntries(c, tried, scores) ==
  [i \in DOMAIN scores |->
     [plan |-> tried[i].plan, ms |-> scores[i],
      peak |-> IF scores[i] = INF THEN StaticPeak(c, tried[i].plan) ELSE 0]]

BeamKey(c, e) == IF e.peak <= c.capacity THEN <<0, 0, e.ms>> ELSE <<1, e.peak, e.ms>>

NewBeam(best, ms, better, sorted) ==
  IF ms = INF THEN FirstFew(sorted, K_BEAM)
  ELSE FirstFew(<<[plan |-> best, ms |-> ms, peak |-> 0]>>
                  \o SelectSeq(sorted, LAMBDA e : ~(better /\ e.plan = best)), K_BEAM)

AfterBeam(c, s, seen, tried, scores, late) ==
  LET i == Fastest(scores)
      better == scores[i] < s.bestMs
      best == IF better THEN tried[i].plan ELSE s.best
      ms == Min({s.bestMs, scores[i]})
      stale == IF ms = INF \/ better THEN 0 ELSE s.stale + 1
      new == [s EXCEPT !.best = best, !.bestMs = ms, !.stale = stale, !.seen = seen,
                       !.beam = NewBeam(best, ms, better,
                                        RankedBy(BeamEntries(c, tried, scores),
                                                 LAMBDA e : BeamKey(c, e)))]
  IN IF scores = <<>> THEN Finished(s)
     ELSE IF late \/ stale >= PATIENCE THEN Finished(new) ELSE new

BeamTried(c, s, order, seen, tried) ==
  Rounds(tried, ScoresOf(c, tried, order),
         LAMBDA scores, late : AfterBeam(c, s, seen, tried, scores, late))

BeamFound(c, s, order, found) == BeamTried(c, s, order, found.seen, ChosenOf(c, s, found))

BeamStep(c, s, order) == BeamFound(c, s, order, Candidates(c, s, order))

FoundPlan(c, s) == IF s.bestMs > s.min THEN MinPlan(c) ELSE s.best
=============================================================================
