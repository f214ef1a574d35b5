----------------------------- MODULE MaxReduce -----------------------------
(***************************************************************************)
(* The max_reduce policy (dataflow_sim/policies/max_reduce.py): every       *)
(* object starts resident for its whole active span; while a boundary       *)
(* overflows, the best-ranked span covering it is cut there; entries of     *)
(* prefetched spans are then moved left, latest deadline first; triggers    *)
(* follow from the spans. Residency's spans and boundaries are used.        *)
(*                                                                         *)
(* The code walks its objects in the order of a set of strings, which       *)
(* changes from process to process: order is that walk. It decides ties     *)
(* between equally ranked cuts and the order of one task's triggers.        *)
(***************************************************************************)
EXTENDS Residency

PositionIn(order, o) == CHOOSE k \in DOMAIN order : order[k] = o

InOrder(order, S) == SelectSeq(order, LAMBDA o : o \in S)

(* Boundaries some span of o must cover. *)
Mandatory(c, o) ==
  (IF o \in c.fast THEN {0} ELSE {}) \cup ({Producer(c, o)} \ {0}) \cup {u - 1 : u \in Uses(c, o)}

(* Phase 0: the quick feasibility check. An object counts once as produced,  *)
(* once per use and once as initially fast, even at the same boundary.       *)
CountedAt(c, o, b) ==
  (IF o \in c.fast /\ b = 0 THEN 1 ELSE 0) + (IF b > 0 /\ Producer(c, o) = b THEN 1 ELSE 0)
    + (IF b + 1 \in Uses(c, o) THEN 1 ELSE 0)

MinPool(c, b) == MapThenSumSet(LAMBDA o : c.size[o] * CountedAt(c, o, b), Objects(c))

MinPoolFits(c) ==
  \A b \in Boundaries(c) : MinPool(c, b) + NextReservation(c, b) <= c.capacity

(* Phase 1: one span per object, from its appearance to its last use. *)
FullSpans(c) ==
  [o \in Objects(c) |->
     << Span(Producer(c, o),
             IF Uses(c, o) = {} THEN Producer(c, o) ELSE Max(Uses(c, o)) - 1) >>]

OverflowAt(c, spans, b) == PoolSize(c, spans, TRUE)[b] + NextReservation(c, b) - c.capacity

(* 0 - 1 stands for a side without a mandatory boundary. *)
CutsAt(c, spans, b) ==
  LET cut(o, k) ==
        LET span == spans[o][k]
            inside == {x \in Mandatory(c, o) : span.start <= x /\ x <= span.end}
            left == Max({-1} \cup {x \in inside : x < b})
            right == {x \in inside : x > b}
            gap == (IF right = {} THEN span.end + 1 ELSE Min(right))
                     - (IF left = -1 THEN span.start - 1 ELSE left) - 1
            drops == left = -1 /\ span.start = 0
            free == drops \/ (o \in c.backing /\ Mutators(c, o) = {})
            first == IF Uses(c, o) = {} THEN TaskCount(c) + 1 ELSE Min(Uses(c, o))
        IN [object |-> o, k |-> k, left |-> left, gap |-> gap,
            right |-> IF right = {} THEN -1 ELSE Min(right),
            rank |-> <<IF free THEN 0 ELSE 1, IF drops THEN 0 ELSE 1, -first, -c.size[o], -gap>>]
      covering == {p \in AllSpans(spans) :
                     LET span == spans[p[1]][p[2]]
                     IN /\ PressureStart(c, p[1], span.start, TRUE) <= b /\ b <= span.end
                        /\ b \notin Mandatory(c, p[1])}
  IN {x \in {cut(p[1], p[2]) : p \in covering} : x.gap > 0}

PiecesOf(span, cut) ==
  (IF cut.left = -1 THEN <<>> ELSE <<Span(span.start, cut.left)>>)
    \o (IF cut.right = -1 THEN <<>> ELSE <<Span(cut.right, span.end)>>)

(* Of equally ranked cuts, the first object of the walk. *)
BestCut(cuts, order) ==
  CHOOSE x \in cuts : \A y \in cuts \ {x} :
    LexLess(x.rank \o <<PositionIn(order, x.object), x.k>>,
            y.rank \o <<PositionIn(order, y.object), y.k>>)

Reduced(spans, cut) ==
  [spans EXCEPT ![cut.object] =
     ReplaceSubSeqAt(cut.k, PiecesOf(@[cut.k], cut), <<@[cut.k]>>, @)]

(* Phase 3: prefetched spans, the latest deadline first, start as early as   *)
(* the inbound queue wants them to and memory allows.                        *)
PackedEntries(c, spans) ==
  LET wanted == {p \in AllSpans(spans) :
                   LET a == spans[p[1]][p[2]].start
                   IN a > 1 /\ ~(p[2] = 1 /\ a = Producer(c, p[1]))}
      start(p) == spans[p[1]][p[2]].start
      earliest(p) == Max({2, Producer(c, p[1]) + 1}
                           \cup IF p[2] = 1 THEN {} ELSE {spans[p[1]][p[2] - 1].end + 2})
      order == SortedBy(wanted, LAMBDA p : <<-IdealEnd(c, start(p) - 1), p[1]>>)
      pack(acc, p) ==
        LET o == p[1]
            a == start(p)
            begin == Max({0, Min({IdealEnd(c, a - 1), acc.next}) - InboundTime(c, o)})
            done == {i \in 1 .. TaskCount(c) : IdealEnd(c, i) <= begin}
            ideal == Max({Max({0} \cup done) + 1, earliest(p)})
            room(x) == \A b \in x - 1 .. a - 2 :
                         acc.pool[b] + c.size[o] + NextReservation(c, b) <= c.capacity
            entry == Min({a} \cup {x \in ideal .. a - 1 : room(x)})
        IN [spans |-> [acc.spans EXCEPT ![o][p[2]].start = entry],
            pool |-> [b \in DOMAIN acc.pool |->
                        acc.pool[b] + (IF entry - 1 <= b /\ b < a - 1 THEN c.size[o] ELSE 0)],
            next |-> IdealEnd(c, entry - 1)]
  IN FoldLeft(pack, [spans |-> spans, pool |-> PoolSize(c, spans, TRUE), next |-> INF],
              order).spans

(* Phase 2: the triggers. A span that would have to be fetched before the    *)
(* first task (it starts at boundary 1) gets no trigger at all.              *)
SpanPreplaced(c, spans, o) == spans[o] # <<>> /\ o \in c.backing /\ spans[o][1].start = 0

SpanFetched(c, o, span, k) == ~(k = 1 /\ span.start \in {0, Producer(c, o)})

SpanReleased(c, o, span, last) ==
  EventsIn(Mutators(c, o), span.start, span.end) = {} /\ (last \/ o \in c.backing)

(* The task after which a span is left; 0 for a span nothing refers to. *)
SpanFire(c, o, span) ==
  Max({0} \cup EventsIn(Uses(c, o), span.start, span.end)
          \cup {p \in {Producer(c, o)} : span.start <= p /\ p <= span.end})

MaxReduceChain(c, spans, order) ==
  LET at(Test(_, _, _)) ==
        InOrder(order, {o \in DOMAIN spans : \E k \in DOMAIN spans[o] : Test(o, spans[o][k], k)})
      leaves(i, release) ==
        at(LAMBDA o, span, k : /\ SpanFire(c, o, span) = i
                               /\ SpanReleased(c, o, span, k = Len(spans[o])) = release)
  IN WithTriggers(c, {o \in DOMAIN spans : SpanPreplaced(c, spans, o)},
                  LAMBDA i : leaves(i, TRUE), LAMBDA i : leaves(i, FALSE),
                  LAMBDA i : at(LAMBDA o, span, k : /\ SpanFetched(c, o, span, k)
                                                    /\ span.start - 1 = i))
=============================================================================
