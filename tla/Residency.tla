----------------------------- MODULE Residency -----------------------------
(***************************************************************************)
(* PressureFit's interval model (dataflow_sim/policies/pressurefit_aux:     *)
(* core, seeds, transitions, residency_refinement, prefetch_rules, emit).   *)
(* A plan for an object is a sequence of spans of boundaries at which it is *)
(* in fast memory; boundary 0 lies before task 1 and boundary i after task  *)
(* i. From the spans follow the pressure at every boundary, the transitions *)
(* between spans, the task after which each prefetch is enqueued, and the   *)
(* annotated chain. 0 stands for no task.                                   *)
(***************************************************************************)
EXTENDS Chain

Span(a, b) == [start |-> a, end |-> b]

Boundaries(c) == 0 .. TaskCount(c)

(* The boundaries at which an object must be in fast memory. *)
Anchors(c, o) ==
  (IF o \in c.fast THEN {0} ELSE {})
    \cup ({Producer(c, o)} \ {0})
    \cup {u - 1 : u \in Uses(c, o)}
    \cup (IF o \in FinalAt(c, "fast") THEN {TaskCount(c)} ELSE {})

(* A use or mutation by task e is anchored at boundary e - 1. *)
EventsIn(events, a, b) == {e \in events : a + 1 <= e /\ e <= b + 1}

FirstUse(c, o, a, b) ==
  LET in == EventsIn(Uses(c, o), a, b) IN IF in = {} THEN 0 ELSE Min(in)

(* The task after which a span can be left: its last producer or use, or the *)
(* first task for a span that starts the chain and has neither.              *)
FireTask(c, o, a, b) ==
  LET made == {p \in {Producer(c, o)} \ {0} : a <= p /\ p <= b}
      last == made \cup EventsIn(Uses(c, o), a, b)
  IN IF last # {} THEN Min({TaskCount(c), Max(last)})
     ELSE IF a = 0 /\ TaskCount(c) > 0 THEN 1 ELSE 0

NextReservation(c, b) ==
  IF b < TaskCount(c) THEN Bytes(c, OutputsAt(c, c.tasks[b + 1], "fast")) ELSE 0

(* With headroom a prefetched span is charged one boundary early. *)
PressureStart(c, o, a, headroom) ==
  IF headroom /\ a > 0 /\ a # Producer(c, o) THEN a - 1 ELSE a

AllSpans(spans) == UNION {{<<o, k>> : k \in DOMAIN spans[o]} : o \in DOMAIN spans}

(* The bytes of the spans for which Charged holds. *)
Charge(c, spans, Charged(_, _, _)) ==
  MapThenSumSet(LAMBDA p : c.size[p[1]],
                {p \in AllSpans(spans) :
                   Charged(p[1], spans[p[1]][p[2]].start, spans[p[1]][p[2]].end)})

(* Fast bytes charged at every boundary. *)
PoolSize(c, spans, headroom) ==
  [b \in Boundaries(c) |->
     Charge(c, spans, LAMBDA o, x, y : PressureStart(c, o, x, headroom) <= b /\ b <= y)]

(* Of those, the bytes that leave after the task before the boundary ... *)
DepartsAt(c, o, x, y, b, headroom) ==
  /\ 0 < b /\ b < TaskCount(c)
  /\ FireTask(c, o, x, y) = b
  /\ PressureStart(c, o, x, headroom) <= b
  /\ b <= y

(* ... and the prefetched bytes that the task after it does not wait for. *)
ArrivesAt(c, o, x, y, b, headroom) ==
  /\ 0 < b /\ b < TaskCount(c)
  /\ x > 0 /\ x # Producer(c, o)
  /\ PressureStart(c, o, x, headroom) = b
  /\ (FirstUse(c, o, x, y) = 0 \/ FirstUse(c, o, x, y) > b + 1)

Departing(c, spans, headroom) ==
  [b \in Boundaries(c) |-> Charge(c, spans, LAMBDA o, x, y : DepartsAt(c, o, x, y, b, headroom))]

NonBlocking(c, spans, headroom) ==
  [b \in Boundaries(c) |-> Charge(c, spans, LAMBDA o, x, y : ArrivesAt(c, o, x, y, b, headroom))]

(* What the model believes the boundary needs once departures are gone. *)
ModeledNeed(c, spans, b) ==
  PoolSize(c, spans, TRUE)[b] - Departing(c, spans, TRUE)[b]
    - NonBlocking(c, spans, TRUE)[b] + NextReservation(c, b)

(* The first boundary with the largest overflow. *)
Worst(c, Overflow(_)) ==
  CHOOSE b \in Boundaries(c) :
    \A x \in Boundaries(c) : \/ Overflow(x) < Overflow(b)
                             \/ (Overflow(x) = Overflow(b) /\ b <= x)

-----------------------------------------------------------------------------
(* Initial placement and the seed spans. *)

LexLess(x, y) ==
  \E k \in DOMAIN x : x[k] < y[k] /\ \A j \in 1 .. k - 1 : x[j] = y[j]

(* The elements of S in the order of their keys, which all differ. *)
SortedBy(S, key(_)) ==
  LET rank == [x \in S |-> Cardinality({y \in S : LexLess(key(y), key(x))})]
  IN [k \in 1 .. Cardinality(S) |-> CHOOSE x \in S : rank[x] = k - 1]

Ascending(S) == SortedBy(S, LAMBDA x : <<x>>)

InboundTime(c, o) == TransferTime(c.size[o], c.inbound)

Preplaceable(c) == {o \in c.backing : Uses(c, o) # {}}

(* How late each cold prefetch would be if all of them ran back to back from *)
(* the end of task 1, by deadline.                                           *)
EarliestUse(c, o) == Min(Uses(c, o))

MissesInOrder(c, order) ==
  LET end(k) == IdealEnd(c, 1) + MapThenSumSet(LAMBDA j : InboundTime(c, order[j]), 1 .. k)
      at(o) == CHOOSE j \in DOMAIN order : order[j] = o
  IN [o \in ToSet(order) |-> Max({0, end(at(o)) - IdealStart(c, EarliestUse(c, o))})]

ColdMisses(c, placed) ==
  MissesInOrder(c, SortedBy({o \in Preplaceable(c) \ placed : EarliestUse(c, o) > 1},
                            LAMBDA o : <<IdealStart(c, EarliestUse(c, o)), EarliestUse(c, o), o>>))

(* Backing objects copied to fast memory before the first task: its inputs,  *)
(* then ("greedy") whatever still fits, earliest use first.                  *)
ByUrgency(c, must, misses) ==
  LET slack(o) ==
        Max({0, IdealStart(c, EarliestUse(c, o)) - IdealEnd(c, 1) - InboundTime(c, o)})
  IN SortedBy(Preplaceable(c) \ must,
              LAMBDA o : <<EarliestUse(c, o), slack(o),
                           -(IF o \in DOMAIN misses THEN misses[o] ELSE 0), -c.size[o], o>>)

InitialPlacement(c, greedy) ==
  LET must == c.tasks[1].inputs \cap (c.backing \ c.fast)
      outs == Bytes(c, OutputsAt(c, c.tasks[1], "fast"))
      add(placed, o) ==
        IF Bytes(c, c.fast) + Bytes(c, placed) + c.size[o] + outs <= c.capacity
        THEN placed \cup {o} ELSE placed
  IN IF ~greedy THEN must
     ELSE FoldLeft(add, must, ByUrgency(c, must, ColdMisses(c, must)))

PlacementFits(c) ==
  Bytes(c, c.fast) + Bytes(c, c.tasks[1].inputs \cap (c.backing \ c.fast))
    + Bytes(c, OutputsAt(c, c.tasks[1], "fast")) <= c.capacity

(* One span per object, from its arrival to its last use. *)
SeedSpan(c, o, placed) ==
  LET uses == Uses(c, o)
      last == TaskCount(c)
      a == IF o \in c.backing
           THEN IF o \in placed THEN 0 ELSE IF uses # {} THEN Min(uses) - 1 ELSE last
           ELSE Producer(c, o)
      b == IF uses # {} THEN Max(uses) - 1 ELSE a
  IN Span(a, IF o \in FinalAt(c, "fast") THEN Max({b, last}) ELSE b)

SeedSpans(c, placed) ==
  LET needed == {o \in Objects(c) :
                   o \in c.backing => Uses(c, o) # {} \/ o \in FinalAt(c, "fast")}
  IN [o \in needed |-> <<SeedSpan(c, o, placed)>>]

-----------------------------------------------------------------------------
(* Transitions between the spans of one object. *)

(* Whether the backing copy is current, and the last departure, before each  *)
(* span.                                                                     *)
BackingBefore(c, o, spans) ==
  LET reset(k, current) ==
        current /\ ~(k = 1 /\ Producer(c, o) > 0 /\ spans[1].start = Producer(c, o))
      before[k \in DOMAIN spans] ==
        IF k = 1 THEN [current |-> reset(1, o \in c.backing), departed |-> 0]
        ELSE [current |-> TRUE,
              departed |-> FireTask(c, o, spans[k - 1].start, spans[k - 1].end)]
  IN before

\* Fault seeded for ReadsLatest: the last task of a span is overlooked.
DirtiedBefore(c, o, span) == EventsIn(Mutators(c, o), span.start, span.end - 1) # {}

Dirtied(c, o, span) == EventsIn(Mutators(c, o), span.start, span.end) # {}

LatestPrefetch(c, o, span, isLast) ==
  LET use == FirstUse(c, o, span.start, span.end)
  IN IF use # 0 THEN use - 1
     ELSE IF isLast /\ o \in FinalAt(c, "fast") THEN Max({1, span.start})
     ELSE Max({1, Min({TaskCount(c), span.start})})

(* Arrival, legal prefetch window, departure task and departure action of    *)
(* every span of o. coalesce lets a clean span end and the next one begin    *)
(* after the same task.                                                      *)
ObjectTransitions(c, o, spans, coalesce) ==
  LET next(acc, k) ==
        LET span == spans[k]
            isLast == k = Len(spans)
            produced == k = 1 /\ span.start > 0 /\ span.start = Producer(c, o)
            arrival == IF k = 1 /\ span.start = 0
                       THEN IF o \in c.backing \ c.fast THEN "preplaced" ELSE "initial"
                       ELSE IF produced THEN "produced" ELSE "prefetch"
            current == acc.current /\ ~produced /\ ~Dirtied(c, o, span)
            fire == FireTask(c, o, span.start, span.end)
            action == IF isLast /\ o \in FinalAt(c, "fast") THEN "retain"
                      ELSE IF isLast /\ o \notin FinalAt(c, "backing") THEN "release"
                      ELSE IF current THEN "release" ELSE "offload"
            earliest == IF acc.departed = 0 THEN 1
                        ELSE IF coalesce /\ acc.released THEN acc.departed
                        ELSE acc.departed + 1
            latest == LatestPrefetch(c, o, span, isLast)
        IN [list |-> Append(acc.list,
                       [object |-> o, span |-> span, arrival |-> arrival, action |-> action,
                        fire |-> fire, earliest |-> earliest, latest |-> latest,
                        use |-> FirstUse(c, o, span.start, span.end)]),
            legal |-> /\ acc.legal
                      /\ arrival = "prefetch" => earliest <= latest
                      /\ action # "retain" => fire # 0,
            current |-> current \/ action = "offload",
            departed |-> IF action = "retain" THEN 0 ELSE fire,
            released |-> action = "release"]
  IN FoldLeft(next, [list |-> <<>>, legal |-> TRUE, current |-> o \in c.backing,
                     departed |-> 0, released |-> FALSE],
              [k \in DOMAIN spans |-> k])

Transitions(c, spans, coalesce) ==
  [o \in DOMAIN spans |-> ObjectTransitions(c, o, spans[o], coalesce)]

LegalTransitions(moves) == \A o \in DOMAIN moves : moves[o].legal

Moves(moves) == UNION {ToSet(moves[o].list) : o \in DOMAIN moves}

-----------------------------------------------------------------------------
(* Moving the entry of a prefetched span to the left where there is room,    *)
(* latest deadline first. An entry after task 1 makes the code read the end   *)
(* of the LAST task as the next start time (its index wraps around).          *)

EntryFits(c, pool, extra, o, from, upto) ==
  \A b \in from .. upto - 1 :
    pool[b] + c.size[o] + NextReservation(c, b) + extra[b] <= c.capacity

ExtendEntries(c, spans, moves, extra, headroom) ==
  LET wanted == UNION {{<<o, k>> : k \in {j \in DOMAIN spans[o] :
                          LET m == moves[o].list[j]
                          IN /\ m.arrival = "prefetch" /\ m.span.start > 1
                             /\ m.use # 0 /\ m.earliest < m.span.start}} : o \in DOMAIN spans}
      move(p) == moves[p[1]].list[p[2]]
      order == SortedBy(wanted, LAMBDA p : <<-IdealStart(c, move(p).use), p[1], p[2]>>)
      extend(acc, p) ==
        LET m == move(p)
            o == p[1]
            a == m.span.start
            begin == Max({0, Min({IdealStart(c, m.use), acc.next}) - InboundTime(c, o)})
            done == {i \in 1 .. TaskCount(c) : IdealEnd(c, i) <= begin}
            ideal == Max({(IF done = {} THEN 0 ELSE Max(done)) + 1, m.earliest})
            old == PressureStart(c, o, a, headroom)
            fits == {x \in ideal .. a - 1 :
                       EntryFits(c, acc.pool, extra, o, PressureStart(c, o, x, headroom), old)}
            entry == IF fits = {} THEN a ELSE Min(fits)
            new == PressureStart(c, o, entry, headroom)
        IN [spans |-> [acc.spans EXCEPT ![o][p[2]].start = entry],
            pool |-> [b \in DOMAIN acc.pool |->
                        acc.pool[b] + (IF new <= b /\ b < old THEN c.size[o] ELSE 0)],
            next |-> IdealEnd(c, IF entry = 1 THEN TaskCount(c) ELSE entry - 1)]
  IN FoldLeft(extend, [spans |-> spans, pool |-> PoolSize(c, spans, headroom), next |-> INF],
              order).spans

-----------------------------------------------------------------------------
(* Choosing the task after which each prefetch is enqueued. *)

(* Later than ideal when the boundaries an early enqueue would fill are full. *)
ClampedFire(c, m, fire, pool, extra, headroom) ==
  LET entry == PressureStart(c, m.object, m.span.start, headroom)
      full == {b \in fire .. entry - 1 : ~EntryFits(c, pool, extra, m.object, b, b + 1)}
  IN IF full = {} THEN fire ELSE Max(full) + 1

(* Backward from the deadlines, as one queue. *)
PackedFires(c, jobs, clamp, extra, headroom, pool0) ==
  LET order == Reverse(SortedBy(jobs, LAMBDA m : <<IdealStart(c, m.use), m.latest, m.object>>))
      place(acc, m) ==
        LET desired == Min({IdealStart(c, m.use), acc.next}) - InboundTime(c, m.object)
            early == {t \in m.earliest .. m.latest : IdealEnd(c, t) <= desired}
            ideal == IF early = {} THEN m.earliest ELSE Max(early)
            fire == IF clamp THEN ClampedFire(c, m, ideal, acc.pool, extra, headroom) ELSE ideal
            entry == PressureStart(c, m.object, m.span.start, headroom)
        IN [at |-> acc.at \cup {<<m, fire>>},
            next |-> Max({IdealEnd(c, fire), desired}),
            pool |-> [b \in DOMAIN acc.pool |->
                        acc.pool[b] + (IF clamp /\ fire <= b /\ b < entry
                                       THEN c.size[m.object] ELSE 0)]]
  IN FoldLeft(place, [at |-> {}, next |-> INF, pool |-> pool0], order).at

LatestSafeFire(c, m, latest) ==
  LET safe == {t \in m.earliest .. latest :
                 IdealEnd(c, t) + InboundTime(c, m.object) <= IdealStart(c, m.use)}
  IN IF safe = {} THEN latest ELSE Max(safe)

DirectFire(c, m, rule) ==
  IF m.use = 0 THEN m.latest
  ELSE LatestSafeFire(c, m,
         IF rule = "interval-entry"
         THEN Max({m.earliest, Min({m.latest, Max({1, m.span.start - 1})})}) ELSE m.latest)

Fires(c, spans, moves, rule, extra, headroom) ==
  LET due == {m \in Moves(moves) : m.arrival = "prefetch"}
      packed == IF rule \in {"packed-fifo", "packed-fit"} THEN {m \in due : m.use # 0} ELSE {}
  IN PackedFires(c, packed, rule = "packed-fit", extra, headroom, PoolSize(c, spans, headroom))
       \cup {<<m, DirectFire(c, m, rule)>> : m \in due \ packed}

-----------------------------------------------------------------------------
(* The annotated chain. Leaving and coming back after the same task, clean,  *)
(* is staying.                                                               *)

PrefetchesAfter(c, fires, i) ==
  LET here == {f[1] : f \in {g \in fires : g[2] = i}}
      use(m) == IF m.use = 0 THEN TaskCount(c) + 1 ELSE m.use
      rank(o) == CHOOSE u \in {use(m) : m \in {x \in here : x.object = o}} : TRUE
  IN SortedBy({m.object : m \in here}, LAMBDA o : <<rank(o), o>>)

DeparturesAfter(moves, action, i) ==
  Ascending({m.object : m \in {x \in Moves(moves) : x.action = action /\ x.fire = i}})

WithTriggers(c, placed, release(_), offload(_), prefetch(_)) ==
  [c EXCEPT !.fast = @ \cup placed,
            !.tasks = [i \in DOMAIN c.tasks |->
               [c.tasks[i] EXCEPT !.releases = release(i), !.offloads = offload(i),
                                  !.prefetches = prefetch(i)]]]

EmitChain(c, moves, fires, coalesce) ==
  LET rel(i) == DeparturesAfter(moves, "release", i)
      pre(i) == PrefetchesAfter(c, fires, i)
      stay(i) == IF coalesce THEN ToSet(rel(i)) \cap ToSet(pre(i)) ELSE {}
      without(seq, S) == SelectSeq(seq, LAMBDA o : o \notin S)
  IN WithTriggers(c, {m.object : m \in {x \in Moves(moves) : x.arrival = "preplaced"}},
                  LAMBDA i : without(rel(i), stay(i)),
                  LAMBDA i : DeparturesAfter(moves, "offload", i),
                  LAMBDA i : without(pre(i), stay(i)))

(* The emitter's own consistency check. *)
EmitConflict(plan) ==
  \E i \in DOMAIN plan.tasks :
    ToSet(plan.tasks[i].offloads) \cap ToSet(plan.tasks[i].prefetches) # {}
=============================================================================
