--------------------------- MODULE EngineHandlers ---------------------------
(***************************************************************************)
(* What the engine's handlers do to memory that follows a plan.            *)
(*                                                                         *)
(* A plan reasons as if transfers took no time.  OnPlan says, for every    *)
(* object, how memory may differ from the residency the plan predicts      *)
(* after the last retired task: a copy the plan has in fast memory may     *)
(* still be queued or in flight, wait behind its own offload, or have been *)
(* evicted, in which case its next use comes before any directive on it; a *)
(* copy the plan has given up may still be leaving.  The lanes, the        *)
(* eviction valve and a retiring task keep memory so.                      *)
(***************************************************************************)
EXTENDS EngineTypes

USE ZenonT(40)

\* The last task of the chain that has retired.
LastRetired == IF outstanding = 0 THEN cursor - 1 ELSE outstanding - 1

\* The objects that task t, if it is one, is producing.
InFlight(t) == IF t = 0 THEN {} ELSE Produced(prog, t)

\* Neither lane has anything to do with o.
AtRest(m, o) ==
    /\ o \notin Range(m.h2dq) /\ o \notin Range(m.d2hq)
    /\ o # m.h2din /\ o # m.d2hin /\ m.deferred[o] = 0

Present(m, o) ==
    /\ AtRest(m, o)
    /\ m.fast[o].st = "live" /\ m.fast[o].ver = m.ver[o]
    /\ m.backing[o].st \in {"none", "live"}

Absent(m, o) ==
    AtRest(m, o) /\ m.fast[o].st = "none" /\ m.backing[o].st \in {"none", "live"}

\* An output of task t, which is in flight.
Awaited(m, o, t) ==
    /\ AtRest(m, o)
    /\ \/ /\ o \in prog.out[t]["fast"]
          /\ m.fast[o].st = "reserved" /\ m.fast[o].ver = m.ver[o]
          /\ m.backing[o].st = "none"
       \/ /\ o \in prog.out[t]["backing"]
          /\ m.backing[o].st = "reserved" /\ m.backing[o].ver = m.ver[o]
          /\ m.fast[o].st = "none"

\* On its way in: queued, or in flight.
Fetching(m, o) ==
    /\ m.backing[o].st = "live" /\ m.backing[o].ver = m.ver[o]
    /\ o \notin Range(m.d2hq) /\ o # m.d2hin /\ m.deferred[o] = 0
    /\ \/ o \in Range(m.h2dq) /\ o # m.h2din /\ m.fast[o].st = "none"
       \/ /\ o \notin Range(m.h2dq) /\ o = m.h2din
          /\ m.fast[o].st = "inbound" /\ m.fast[o].ver = m.ver[o]

\* On its way out: queued, or in flight.
Leaving(m, o) ==
    /\ m.fast[o].ver = m.ver[o]
    /\ o \notin Range(m.h2dq) /\ o # m.h2din
    /\ \/ /\ o \in Range(m.d2hq) /\ o # m.d2hin
          /\ m.fast[o].st = "pending_outbound" /\ m.backing[o].st \in {"none", "live"}
       \/ /\ o \notin Range(m.d2hq) /\ o = m.d2hin /\ m.fast[o].st = "outbound"
          /\ m.backing[o].st = "inbound" /\ m.backing[o].ver = m.ver[o]

\* The backing slot is what the residency says.
Backed(m, o, back) ==
    /\ back = "none" => m.backing[o].st = "none"
    /\ back # "none" => m.backing[o].st = "live"
    /\ back = "current" => m.backing[o].ver = m.ver[o]

\* Every directive on o after task k comes after another use of o.
UsedFirst(o, k) == \A t \in DirectivesOf(o) : t > k => \E u \in UsesOf(o) : k < u /\ u <= t

\* The ways in which memory can be behind, or be deprived of, residency r.
Follows(m, o, r, k) ==
    \/ r.fast /\ Present(m, o) /\ Backed(m, o, r.back)
    \/ r.fast /\ Fetching(m, o) /\ r.back # "none" /\ (r.settled => UsedFirst(o, k))
    \/ r.fast /\ ~ r.settled /\ r.back = "current" /\ Leaving(m, o) /\ m.deferred[o] = 1
    \/ ~ r.fast /\ Absent(m, o) /\ Backed(m, o, r.back)
    \/ ~ r.fast /\ r.back = "current" /\ Leaving(m, o) /\ m.deferred[o] = 0

Accounted(m, o, t, r, k) == IF o \in InFlight(t) THEN Awaited(m, o, t) ELSE Follows(m, o, r, k)

Balanced(m) ==
    /\ m.used["fast"] = Bytes(Held(m.fast)) /\ m.used["fast"] <= prog.cap["fast"]
    /\ m.used["backing"] = Bytes(Held(m.backing)) /\ m.used["backing"] <= prog.cap["backing"]

\* Every instance drawn from the pool is the buffer of a slot.
Owned(m) == \A h \in m.held : m.fast[h[1]].st # "none" /\ m.fast[h[1]].inc = h[2]

\* The state of the tables, whatever the plan.
Kempt(m) ==
    /\ m \in MemType /\ m.err = "none" /\ Balanced(m) /\ Owned(m)
    /\ NoRepeats(m.h2dq) /\ NoRepeats(m.d2hq)

\* Task t is in flight, and every object but its outputs follows residency res.
OnPlan(m, t, res, k) == Kempt(m) /\ \A o \in Objects : Accounted(m, o, t, res[o], k)

Ample == (\A l \in Locations : Bytes(Objects) <= prog.cap[l]) /\ prog.clash = {}

\* A lane with something queued has a transfer in flight.
LanesBusy(m) == (m.h2din = Nil => m.h2dq = <<>>) /\ (m.d2hin = Nil => m.d2hq = <<>>)

-----------------------------------------------------------------------------
(***************************************************************************)
(* Sequences, and the bytes of slots.                                      *)
(***************************************************************************)
\* What is left of a lane's queue once its head has started.
LEMMA TailFacts ==
    ASSUME NEW s \in Seq(Objects), s # <<>>, NoRepeats(s)
    PROVE  /\ Head(s) \in Objects /\ Head(s) \in Range(s) /\ Tail(s) \in Seq(Objects)
           /\ NoRepeats(Tail(s))
           /\ \A q : q \in Range(Tail(s)) <=> q \in Range(s) /\ q # Head(s)
<1>1. /\ Len(s) \in Nat \ {0} /\ Head(s) = s[1] /\ DOMAIN s = 1 .. Len(s)
      /\ DOMAIN Tail(s) = 1 .. Len(s) - 1 /\ Len(Tail(s)) = Len(s) - 1
      /\ \A i \in 1 .. Len(s) - 1 : Tail(s)[i] = s[i + 1]
    BY SMT
<1>2. Head(s) \in Objects /\ Head(s) \in Range(s) /\ Tail(s) \in Seq(Objects)
    BY <1>1, SMT DEF Range
<1>3. NoRepeats(Tail(s))
    BY <1>1, SMT DEF NoRepeats
<1>4. ASSUME NEW q \in Range(Tail(s)) PROVE q \in Range(s) /\ q # Head(s)
  <2>1. PICK i \in 1 .. Len(s) - 1 : q = s[i + 1]
      BY <1>1 DEF Range
  <2>2. i + 1 \in 1 .. Len(s) /\ 1 \in 1 .. Len(s) /\ i + 1 # 1
      BY <1>1, SMT
  <2> QED
      BY <1>1, <2>1, <2>2 DEF Range, NoRepeats
<1>5. ASSUME NEW q \in Range(s), q # Head(s) PROVE q \in Range(Tail(s))
  <2>1. PICK i \in 1 .. Len(s) : q = s[i]
      BY <1>1 DEF Range
  <2>2. i - 1 \in 1 .. Len(s) - 1 /\ Tail(s)[i - 1] = q
      BY <1>1, <1>5, <2>1, SMT
  <2> QED
      BY <1>1, <2>2 DEF Range
<1> QED
    BY <1>2, <1>3, <1>4, <1>5

\* A queue to which another one, with none of its objects, is appended.
LEMMA ConcatFacts ==
    ASSUME NEW s \in Seq(Objects), NEW w \in Seq(Objects)
    PROVE  /\ s \o w \in Seq(Objects)
           /\ \A q : q \in Range(s \o w) <=> q \in Range(s) \/ q \in Range(w)
           /\ NoRepeats(s) /\ NoRepeats(w) /\ Range(s) \cap Range(w) = {} => NoRepeats(s \o w)
<1>1. /\ Len(s) \in Nat /\ Len(w) \in Nat /\ s \o w \in Seq(Objects)
      /\ DOMAIN s = 1 .. Len(s) /\ DOMAIN w = 1 .. Len(w)
      /\ DOMAIN (s \o w) = 1 .. Len(s) + Len(w) /\ Len(s \o w) = Len(s) + Len(w)
    BY SMT
<1>2. \A i \in 1 .. Len(s) : (s \o w)[i] = s[i]
    BY SMT
<1>3. \A i \in 1 .. Len(w) : (s \o w)[Len(s) + i] = w[i]
    BY SMT
<1>4. \A i \in 1 .. Len(s) + Len(w) :
         \/ i \in 1 .. Len(s)
         \/ i - Len(s) \in 1 .. Len(w) /\ (s \o w)[i] = w[i - Len(s)]
    BY <1>1, SMT
<1> DEFINE c == s \o w
<1>5. \A i \in 1 .. Len(s) + Len(w) :
         \/ i \in 1 .. Len(s) /\ c[i] = s[i]
         \/ i - Len(s) \in 1 .. Len(w) /\ c[i] = w[i - Len(s)]
    BY <1>2, <1>4
<1>6. Len(c) = Len(s) + Len(w) /\ DOMAIN c = 1 .. Len(c)
    BY <1>1
<1>7. \A i \in 1 .. Len(w) : c[Len(s) + i] = w[i] /\ Len(s) + i \in 1 .. Len(c)
    BY <1>1, <1>3, SMT
<1>8. \A i \in 1 .. Len(s) : c[i] = s[i] /\ i \in 1 .. Len(c)
    BY <1>1, <1>2, SMT
<1> HIDE DEF c
<1>9. \A q : q \in Range(c) <=> q \in Range(s) \/ q \in Range(w)
  <2>1. ASSUME NEW q \in Range(c) PROVE q \in Range(s) \/ q \in Range(w)
    <3>1. PICK i \in 1 .. Len(c) : q = c[i]
        BY <1>6 DEF Range
    <3>2. CASE i \in 1 .. Len(s) /\ c[i] = s[i]
        BY <1>1, <3>1, <3>2 DEF Range
    <3>3. CASE i - Len(s) \in 1 .. Len(w) /\ c[i] = w[i - Len(s)]
        BY <1>1, <3>1, <3>3 DEF Range
    <3> QED
        BY <1>5, <1>6, <3>1, <3>2, <3>3
  <2>2. \A q \in Range(s) : q \in Range(c)
      BY <1>1, <1>6, <1>8 DEF Range
  <2>3. \A q \in Range(w) : q \in Range(c)
      BY <1>1, <1>6, <1>7 DEF Range
  <2> QED
      BY <2>1, <2>2, <2>3
<1>10. ASSUME NoRepeats(s), NoRepeats(w), Range(s) \cap Range(w) = {} PROVE NoRepeats(c)
  <2> SUFFICES ASSUME NEW i \in 1 .. Len(c), NEW j \in 1 .. Len(c), c[i] = c[j] PROVE i = j
      BY DEF NoRepeats
  <2>1. CASE i \in 1 .. Len(s) /\ c[i] = s[i] /\ j \in 1 .. Len(s) /\ c[j] = s[j]
      BY <1>10, <2>1 DEF NoRepeats
  <2>2. CASE /\ i - Len(s) \in 1 .. Len(w) /\ c[i] = w[i - Len(s)]
             /\ j - Len(s) \in 1 .. Len(w) /\ c[j] = w[j - Len(s)]
    <3>1. i - Len(s) = j - Len(s)
        BY <1>10, <2>2 DEF NoRepeats
    <3> QED
        BY <1>1, <1>6, <3>1, SMTT(30)
  <2>3. CASE i \in 1 .. Len(s) /\ c[i] = s[i] /\ j - Len(s) \in 1 .. Len(w) /\ c[j] = w[j - Len(s)]
    <3>1. c[i] \in Range(s) /\ c[j] \in Range(w)
        BY <1>1, <2>3 DEF Range
    <3> QED
        BY <1>10, <3>1
  <2>4. CASE j \in 1 .. Len(s) /\ c[j] = s[j] /\ i - Len(s) \in 1 .. Len(w) /\ c[i] = w[i - Len(s)]
    <3>1. c[j] \in Range(s) /\ c[i] \in Range(w)
        BY <1>1, <2>4 DEF Range
    <3> QED
        BY <1>10, <3>1
  <2> QED
      BY <1>5, <1>6, <2>1, <2>2, <2>3, <2>4
<1> QED
    BY <1>1, <1>9, <1>10 DEF c

\* An object appended to a lane's queue.
LEMMA OneFacts ==
    ASSUME NEW o \in Objects
    PROVE  <<o>> \in Seq(Objects) /\ NoRepeats(<<o>>) /\ \A q : q \in Range(<<o>>) <=> q = o
<1>1. <<o>> \in Seq(Objects) /\ DOMAIN <<o>> = 1 .. 1 /\ Len(<<o>>) = 1 /\ <<o>>[1] = o
    BY SMT
<1> QED
    BY <1>1, SMT DEF NoRepeats, Range

-----------------------------------------------------------------------------
(***************************************************************************)
(* An object that a step does not touch stays accounted for.               *)
(***************************************************************************)
Untouched(m, m2, q) ==
    /\ m2.fast[q] = m.fast[q] /\ m2.backing[q] = m.backing[q]
    /\ m2.ver[q] = m.ver[q] /\ m2.deferred[q] = m.deferred[q]
    /\ q \in Range(m2.h2dq) <=> q \in Range(m.h2dq)
    /\ q \in Range(m2.d2hq) <=> q \in Range(m.d2hq)
    /\ q = m2.h2din <=> q = m.h2din
    /\ q = m2.d2hin <=> q = m.d2hin

\* Whether an object is accounted for depends on its own slots and transfers only.
LEMMA UntouchedAccounted ==
    ASSUME NEW m, NEW m2, NEW o, NEW t, NEW r, NEW k, Untouched(m, m2, o),
           Accounted(m, o, t, r, k)
    PROVE  Accounted(m2, o, t, r, k)
<1>1. AtRest(m, o) <=> AtRest(m2, o)
    BY DEF Untouched, AtRest
<1>2. Present(m, o) <=> Present(m2, o)
    BY <1>1 DEF Untouched, Present
<1>3. Absent(m, o) <=> Absent(m2, o)
    BY <1>1 DEF Untouched, Absent
<1>4. Awaited(m, o, t) <=> Awaited(m2, o, t)
    BY <1>1 DEF Untouched, Awaited
<1>5. Fetching(m, o) <=> Fetching(m2, o)
    BY DEF Untouched, Fetching
<1>6. Leaving(m, o) <=> Leaving(m2, o)
    BY DEF Untouched, Leaving
<1>7. Backed(m, o, r.back) <=> Backed(m2, o, r.back)
    BY DEF Untouched, Backed
<1>8. m2.deferred[o] = m.deferred[o]
    BY DEF Untouched
<1> QED
    BY <1>2, <1>3, <1>4, <1>5, <1>6, <1>7, <1>8 DEF Accounted, Follows

\* A step that touches one object.
LEMMA OneTouched ==
    ASSUME NEW m, NEW m2, NEW t, NEW res, NEW k, NEW o, OnPlan(m, t, res, k), Kempt(m2),
           \A q \in Objects \ {o} : Untouched(m, m2, q),
           Accounted(m2, o, t, res[o], k)
    PROVE  OnPlan(m2, t, res, k)
<1> SUFFICES ASSUME NEW q \in Objects \ {o} PROVE Accounted(m2, q, t, res[q], k)
    BY DEF OnPlan
<1>1. Accounted(m, q, t, res[q], k) /\ Untouched(m, m2, q)
    BY DEF OnPlan
<1> QED
    BY <1>1, UntouchedAccounted

\* A slot that comes, or goes, with its bytes.
LEMMA SlotBytes ==
    ASSUME prog \in Programs, NEW f \in [Objects -> Slot], NEW g \in [Objects -> Slot],
           NEW o \in Objects, f[o].st = "none", g[o].st # "none",
           \A q \in Objects \ {o} : f[q].st = g[q].st
    PROVE  /\ Bytes(Held(g)) = Bytes(Held(f)) + prog.size[o]
           /\ Bytes(Held(f)) \in Nat /\ Bytes(Held(g)) \in Nat
<1>1. Held(g) = Held(f) \cup {o} /\ Held(f) \cap {o} = {}
    BY DEF Held
<1>2. Held(f) \in SUBSET Objects /\ {o} \in SUBSET Objects /\ Held(g) \in SUBSET Objects
    BY DEF Held
<1>3. Bytes(Held(f) \cup {o}) = Bytes(Held(f)) + Bytes({o}) /\ Bytes({o}) = prog.size[o]
    BY <1>1, <1>2, BytesFacts
<1> QED
    BY <1>1, <1>2, <1>3, BytesFacts

\* The bytes of a set of slots depend on which slots there are.
LEMMA SameBytes ==
    ASSUME NEW f, NEW g, \A q \in Objects : f[q].st = "none" <=> g[q].st = "none"
    PROVE  Bytes(Held(g)) = Bytes(Held(f))
<1>1. Held(f) = Held(g)
    BY DEF Held
<1> QED
    BY <1>1

-----------------------------------------------------------------------------
(***************************************************************************)
(* The lanes.                                                              *)
(***************************************************************************)
\* What starting a prefetch changes, when there is room.
StartedH2D(m, m2, o, d) ==
    /\ m2.used = [m.used EXCEPT !["fast"] = m.used["fast"] + prog.size[o]]
    /\ m2.held = m.held \cup {<<o, m.inc[o], d>>}
    /\ m2.fast = [m.fast EXCEPT ![o] = [st |-> "inbound", ver |-> m.backing[o].ver,
                                        inc |-> m.inc[o]]]
    /\ m2.backing = m.backing /\ m2.ver = m.ver /\ m2.deferred = m.deferred
    /\ m2.d2hq = m.d2hq /\ m2.d2hin = m.d2hin /\ m2.err = m.err
    /\ m2.h2dq = Tail(m.h2dq) /\ m2.h2din = o

\* What a fetch that starts changes (try_start, h2d).
LEMMA StartH2DEffect ==
    ASSUME prog \in Programs, NEW m \in MemType, NEW o \in Objects, NEW d \in BOOLEAN,
           CanReserve(m, "fast", prog.size[o])
    PROVE  StartedH2D(m, StartH2D(m, o, d), o, d)
<1> DEFINE m2 == StartH2D(m, o, d)
<1> DEFINE c == Charge(m, "fast", prog.size[o])
<1>1. c = [m EXCEPT !.used["fast"] = m.used["fast"] + prog.size[o]]
    BY DEF Charge
<1>2. prog.size[o] \in Nat
    BY ProgramTypes
<1>3. c \in MemType
    BY <1>2, ChargeType DEF Locations
<1>4. /\ c.used = [m.used EXCEPT !["fast"] = m.used["fast"] + prog.size[o]]
      /\ c.held = m.held /\ c.fast = m.fast /\ c.inc = m.inc
      /\ c.backing = m.backing /\ c.ver = m.ver /\ c.deferred = m.deferred
      /\ c.d2hq = m.d2hq /\ c.d2hin = m.d2hin /\ c.err = m.err /\ c.h2dq = m.h2dq
    BY <1>1 DEF MemType
<1> HIDE DEF c
<1> DEFINE g == Get(c, o, d)
<1>5. /\ g \in MemType
      /\ g.used = c.used /\ g.held = m.held \cup {<<o, m.inc[o], d>>} /\ g.fast = m.fast
      /\ g.backing = m.backing /\ g.ver = m.ver /\ g.deferred = m.deferred
      /\ g.d2hq = m.d2hq /\ g.d2hin = m.d2hin /\ g.err = m.err /\ g.h2dq = m.h2dq
  <2>1. g \in MemType
      BY <1>3, GetType
  <2>2. g = [c EXCEPT !.held = c.held \cup {<<o, c.inc[o], d>>}, !.inc[o] = c.inc[o] + 1]
      BY DEF Get
  <2> HIDE DEF g
  <2> QED
      BY <1>3, <1>4, <2>1, <2>2 DEF MemType
<1>6. m2 = [g EXCEPT !.h2dq = Tail(g.h2dq), !.h2din = o,
                     !.fast[o] = [st |-> "inbound", ver |-> m.backing[o].ver, inc |-> m.inc[o]]]
    BY DEF StartH2D, c
<1> HIDE DEF g
<1> QED
  <2> DEFINE f == [g.fast EXCEPT ![o] = [st |-> "inbound", ver |-> m.backing[o].ver,
                                         inc |-> m.inc[o]]]
  <2>1. m2 = [g EXCEPT !.h2dq = Tail(g.h2dq), !.h2din = o, !.fast = f]
      BY <1>6
  <2> HIDE DEF f, m2
  <2>2. /\ m2.used = g.used /\ m2.held = g.held /\ m2.fast = f /\ m2.backing = g.backing
        /\ m2.ver = g.ver /\ m2.deferred = g.deferred /\ m2.d2hq = g.d2hq
        /\ m2.d2hin = g.d2hin /\ m2.err = g.err /\ m2.h2dq = Tail(g.h2dq) /\ m2.h2din = o
      BY <1>5, <2>1 DEF MemType
  <2>3. StartedH2D(m, m2, o, d)
      BY <1>4, <1>5, <2>2 DEF f, StartedH2D
  <2> QED
      BY <2>3 DEF m2

\* The head of the from_slow queue starts: it was on its way in, and still is.
LEMMA StartH2DOnPlan ==
    ASSUME prog \in Programs, NEW m, NEW t, NEW res, NEW k, OnPlan(m, t, res, k),
           m.h2dq # <<>>, m.h2din = Nil, NEW o, o = Head(m.h2dq), NEW d \in BOOLEAN,
           CanReserve(m, "fast", prog.size[o]),
           NEW m2, m2 = StartH2D(m, o, d)
    PROVE  OnPlan(m2, t, res, k) /\ m.fast[o].st = "none"
<1>1. m \in MemType /\ m.h2dq \in Seq(Objects) /\ NoRepeats(m.h2dq)
    BY DEF OnPlan, Kempt, MemType
<1>2. o \in Objects /\ o \in Range(m.h2dq)
    BY <1>1, TailFacts
<1>3. StartedH2D(m, m2, o, d)
    BY <1>1, <1>2, StartH2DEffect
<1>4. NoRepeats(m2.h2dq) /\ \A q : q \in Range(m2.h2dq) <=> q \in Range(m.h2dq) /\ q # o
    BY <1>1, <1>3, TailFacts, SMTT(30) DEF StartedH2D
<1>5. m2 \in MemType
    BY <1>1, <1>2, StartH2DType
<1> HIDE DEF StartH2D
<1>6. Fetching(m, o) /\ m.fast[o].st = "none" /\ Accounted(m, o, t, res[o], k)
  <2>1. Accounted(m, o, t, res[o], k)
      BY <1>2 DEF OnPlan
  <2> QED
      BY <1>2, <2>1 DEF Accounted, Awaited, Follows, Present, Absent, Leaving, AtRest, Fetching
<1>7. m.fast \in [Objects -> Slot] /\ m2.fast \in [Objects -> Slot]
    BY <1>1, <1>5 DEF MemType
<1>8. /\ m2.fast[o].st = "inbound" /\ m2.fast[o].ver = m.backing[o].ver
      /\ m2.fast[o].inc = m.inc[o] /\ \A q \in Objects \ {o} : m2.fast[q] = m.fast[q]
  <2>1. m2.fast = [m.fast EXCEPT ![o] = [st |-> "inbound", ver |-> m.backing[o].ver,
                                         inc |-> m.inc[o]]]
      BY Zenon, <1>3 DEF StartedH2D
  <2>2. /\ m2.fast[o] = [st |-> "inbound", ver |-> m.backing[o].ver, inc |-> m.inc[o]]
        /\ \A q \in Objects \ {o} : m2.fast[q] = m.fast[q]
      BY Zenon, <1>2, <1>7, <2>1
  <2> QED
      BY ONLY SMTT(30), <2>2
<1>9. Balanced(m2)
  <2>1. /\ Bytes(Held(m2.fast)) = Bytes(Held(m.fast)) + prog.size[o]
        /\ Bytes(Held(m.fast)) \in Nat
      BY <1>2, <1>6, <1>7, <1>8, SlotBytes, SMTT(30)
  <2>2. prog.size[o] \in Nat \ {0} /\ prog.cap["fast"] \in Nat
      BY <1>2, ProgramTypes DEF Locations
  <2>3. m.used \in [Locations -> Nat] /\ "fast" \in Locations /\ "backing" \in Locations
      BY <1>1 DEF MemType, Locations
  <2>4. m2.used["fast"] = m.used["fast"] + prog.size[o] /\ m2.used["backing"] = m.used["backing"]
      BY <1>3, <2>3 DEF StartedH2D
  <2>5. m.used["fast"] + prog.size[o] <= prog.cap["fast"]
      BY <2>2 DEF CanReserve
  <2>6. m2.backing = m.backing /\ Balanced(m)
      BY Zenon, <1>3 DEF OnPlan, Kempt, StartedH2D
  <2>7. m2.used["fast"] = Bytes(Held(m2.fast))
      BY Zenon, <2>1, <2>4, <2>6 DEF Balanced
  <2>8. m2.used["fast"] <= prog.cap["fast"]
      BY Zenon, <2>4, <2>5
  <2> QED
      BY ZenonT(40), <2>4, <2>6, <2>7, <2>8 DEF Balanced
<1>10. Owned(m2)
  <2> SUFFICES ASSUME NEW h \in m2.held
               PROVE  m2.fast[h[1]].st # "none" /\ m2.fast[h[1]].inc = h[2]
      BY DEF Owned
  <2>1. CASE h = <<o, m.inc[o], d>>
      BY <1>8, <2>1
  <2>2. CASE h \in m.held
    <3>1. h[1] \in Objects /\ m.fast[h[1]].st # "none" /\ m.fast[h[1]].inc = h[2]
        BY <1>1, <2>2 DEF OnPlan, Kempt, Owned, MemType
    <3> QED
        BY <1>6, <1>8, <3>1
  <2> QED
      BY <1>3, <2>1, <2>2 DEF StartedH2D
<1>11. Kempt(m2)
    BY <1>3, <1>4, <1>5, <1>9, <1>10 DEF OnPlan, Kempt, StartedH2D
<1>12. \A q \in Objects \ {o} : Untouched(m, m2, q)
  <2>1. Nil \notin Objects
      BY ProgramsAssumption
  <2> QED
      BY <1>3, <1>4, <1>8, <2>1 DEF Untouched, StartedH2D
<1>13. Fetching(m2, o)
    BY <1>3, <1>4, <1>6, <1>8 DEF Fetching, StartedH2D
<1>14. Accounted(m2, o, t, res[o], k)
    BY <1>2, <1>6, <1>13 DEF Accounted, Awaited, Follows, Present, Absent, Leaving, AtRest
<1> QED
    BY <1>6, <1>11, <1>12, <1>14, OneTouched

\* What is live stays so, and no version changes.
LiveKept(m, m2) ==
    /\ m2.ver = m.ver
    /\ \A o \in Objects : m.fast[o].st = "live" => m2.fast[o] = m.fast[o]

\* Ample memory always has room for objects that are not there yet.
LEMMA AmpleRoom ==
    ASSUME prog \in Programs, NEW m, Kempt(m), Ample, NEW R \in SUBSET Objects
    PROVE  /\ R \cap Held(m.fast) = {} => CanReserve(m, "fast", Bytes(R))
           /\ R \cap Held(m.backing) = {} => CanReserve(m, "backing", Bytes(R))
<1>1. \A H \in SUBSET Objects : R \cap H = {} => Bytes(H) + Bytes(R) <= Bytes(Objects)
  <2> SUFFICES ASSUME NEW H \in SUBSET Objects, R \cap H = {}
               PROVE  Bytes(H) + Bytes(R) <= Bytes(Objects)
      OBVIOUS
  <2>1. Bytes(H \cup R) = Bytes(H) + Bytes(R)
    <3>1. H \cap R = {}
        OBVIOUS
    <3> QED
        BY <3>1, BytesFacts
  <2>2. Bytes(H \cup R) <= Bytes(Objects)
    <3>1. H \cup R \in SUBSET Objects /\ Objects \in SUBSET Objects
        OBVIOUS
    <3> QED
        BY <3>1, BytesMonotone
  <2> QED
      BY <2>1, <2>2
<1>2. Held(m.fast) \in SUBSET Objects /\ Held(m.backing) \in SUBSET Objects
    BY DEF Held
<1>3. /\ Bytes(R) \in Nat /\ Bytes(Objects) \in Nat
      /\ Bytes(Held(m.fast)) \in Nat /\ Bytes(Held(m.backing)) \in Nat
    BY <1>2, BytesFacts
<1>4. /\ Bytes(Objects) <= prog.cap["fast"] /\ Bytes(Objects) <= prog.cap["backing"]
      /\ prog.cap["fast"] \in Nat /\ prog.cap["backing"] \in Nat
    BY ProgramTypes DEF Ample, Locations
<1>5. m.used["fast"] = Bytes(Held(m.fast)) /\ m.used["backing"] = Bytes(Held(m.backing))
    BY DEF Kempt, Balanced
<1>6. ASSUME R \cap Held(m.fast) = {} PROVE CanReserve(m, "fast", Bytes(R))
  <2>1. Bytes(Held(m.fast)) + Bytes(R) <= Bytes(Objects)
      BY <1>1, <1>2, <1>6
  <2> QED
      BY <1>3, <1>4, <1>5, <2>1, SMTT(30) DEF CanReserve
<1>7. ASSUME R \cap Held(m.backing) = {} PROVE CanReserve(m, "backing", Bytes(R))
  <2>1. Bytes(Held(m.backing)) + Bytes(R) <= Bytes(Objects)
      BY <1>1, <1>2, <1>7
  <2> QED
      BY <1>3, <1>4, <1>5, <2>1, SMTT(30) DEF CanReserve
<1> QED
    BY <1>6, <1>7

\* try_start of the from_slow lane keeps memory on plan, and in ample memory a
\* queued prefetch does not stay behind an idle lane.
LEMMA H2DTryStartOnPlan ==
    ASSUME prog \in Programs, NEW m, NEW t, NEW res, NEW k, OnPlan(m, t, res, k),
           NEW esc \in BOOLEAN, NEW m2, m2 = H2DTryStart(m, esc)
    PROVE  /\ OnPlan(m2, t, res, k) /\ LiveKept(m, m2)
           /\ m2.d2hq = m.d2hq /\ m2.d2hin = m.d2hin
           /\ Ample /\ m2.h2din = Nil => m2.h2dq = <<>>
<1> DEFINE o == Head(m.h2dq)
           d == ~ CanGet(m, o)
<1>1. m \in MemType /\ m.err = "none" /\ m.h2dq \in Seq(Objects) /\ NoRepeats(m.h2dq)
    BY DEF OnPlan, Kempt, MemType
<1>2. CASE m.h2din # Nil \/ m.h2dq = <<>>
  <2>1. m2 = m
      BY <1>1, <1>2 DEF H2DTryStart
  <2> QED
      BY <1>2, <2>1 DEF LiveKept
<1>3. CASE m.h2din = Nil /\ m.h2dq # <<>>
  <2>1. o \in Objects /\ o \in Range(m.h2dq)
      BY <1>1, <1>3, TailFacts
  <2>2. m.backing[o].st = "live" /\ m.fast[o].st = "none"
    <3>1. Accounted(m, o, t, res[o], k)
        BY <2>1 DEF OnPlan
    <3> HIDE DEF o
    <3>2. o # m.h2din
        BY <1>3, <2>1, ProgramsAssumption
    <3> QED
        BY <2>1, <3>1, <3>2 DEF Accounted, Awaited, Follows, Present, Absent, Leaving, AtRest,
                                Fetching
  <2>3. d \in BOOLEAN
      BY Zenon DEF CanGet
  <2>4. CASE CanReserve(m, "fast", prog.size[o]) /\ (CanGet(m, o) \/ esc)
    <3>1. m2 = StartH2D(m, o, d)
        BY <1>1, <1>3, <2>2, <2>4 DEF H2DTryStart
    <3>2. OnPlan(m2, t, res, k)
        BY <1>3, <2>3, <2>4, <3>1, StartH2DOnPlan
    <3>3. StartedH2D(m, m2, o, d)
        BY <1>1, <2>1, <2>3, <2>4, <3>1, StartH2DEffect
    <3> HIDE DEF o, d
    <3>4. m2.ver = m.ver /\ m2.d2hq = m.d2hq /\ m2.d2hin = m.d2hin /\ m2.h2din = o /\ o # Nil
        BY <2>1, <3>3, ProgramsAssumption DEF StartedH2D
    <3>5. \A q \in Objects : m.fast[q].st = "live" => m2.fast[q] = m.fast[q]
        BY <1>1, <2>2, <3>3 DEF StartedH2D, MemType
    <3> QED
        BY <3>2, <3>4, <3>5 DEF LiveKept
  <2>5. CASE ~ (CanReserve(m, "fast", prog.size[o]) /\ (CanGet(m, o) \/ esc))
    <3>1. m2 = m
        BY <1>1, <1>3, <2>2, <2>5 DEF H2DTryStart
    <3>2. ~ Ample
      <4> SUFFICES ASSUME Ample PROVE FALSE
          OBVIOUS
      <4>1. {o} \cap Held(m.fast) = {} /\ {o} \in SUBSET Objects
          BY <2>1, <2>2 DEF Held
      <4>2. CanReserve(m, "fast", Bytes({o})) /\ Bytes({o}) = prog.size[o]
          BY <2>1, <4>1, AmpleRoom, BytesFacts DEF OnPlan
      <4>3. CanGet(m, o)
          BY DEF CanGet, Ample
      <4> QED
          BY <2>5, <4>2, <4>3
    <3> QED
        BY <3>1, <3>2 DEF LiveKept
  <2> QED
      BY <2>4, <2>5
<1> QED
    BY <1>2, <1>3

\* So does the escape of a head that waits for its offset.
LEMMA EscapeBlockedHeadOnPlan ==
    ASSUME prog \in Programs, NEW m, NEW t, NEW res, NEW k, OnPlan(m, t, res, k)
    PROVE  /\ OnPlan(EscapeBlockedHead(m), t, res, k) /\ LiveKept(m, EscapeBlockedHead(m))
           /\ EscapeBlockedHead(m).d2hq = m.d2hq /\ EscapeBlockedHead(m).d2hin = m.d2hin
<1>1. EscapeBlockedHead(m) \in {m, H2DTryStart(m, TRUE)}
    BY DEF EscapeBlockedHead
<1>2. CASE EscapeBlockedHead(m) = m
    BY <1>2 DEF LiveKept
<1>3. CASE EscapeBlockedHead(m) = H2DTryStart(m, TRUE)
    BY <1>3, H2DTryStartOnPlan
<1> QED
    BY <1>1, <1>2, <1>3

\* What starting an offload changes, when there is room.
BackingNeed(m, o) == IF m.backing[o].st = "none" THEN prog.size[o] ELSE 0

StartedD2H(m, m2, o) ==
    /\ m2.used = [m.used EXCEPT !["backing"] = m.used["backing"] + BackingNeed(m, o)]
    /\ m2.backing = [m.backing EXCEPT ![o] = [NoSlot EXCEPT !.st = "inbound",
                                                            !.ver = m.fast[o].ver]]
    /\ m2.fast = [m.fast EXCEPT ![o].st = "outbound"]
    /\ m2.held = m.held /\ m2.inc = m.inc /\ m2.ver = m.ver /\ m2.deferred = m.deferred
    /\ m2.h2dq = m.h2dq /\ m2.h2din = m.h2din /\ m2.err = m.err
    /\ m2.d2hq = Tail(m.d2hq) /\ m2.d2hin = o

\* What an offload that starts changes (try_start, d2h).
LEMMA StartD2HEffect ==
    ASSUME prog \in Programs, NEW m \in MemType, NEW o \in Objects,
           CanReserve(m, "backing", BackingNeed(m, o))
    PROVE  StartedD2H(m, StartD2H(m, o), o)
<1> DEFINE need == BackingNeed(m, o)
           c    == [m EXCEPT !.used["backing"] = m.used["backing"] + need]
           m2   == StartD2H(m, o)
           f    == [m.fast EXCEPT ![o].st = "outbound"]
           b    == [m.backing EXCEPT ![o] = [NoSlot EXCEPT !.st = "inbound",
                                                           !.ver = m.fast[o].ver]]
<1>1. Charge(m, "backing", need) = c
    BY DEF Charge
<1>2. /\ c.used = [m.used EXCEPT !["backing"] = m.used["backing"] + need]
      /\ c.held = m.held /\ c.fast = m.fast /\ c.inc = m.inc
      /\ c.backing = m.backing /\ c.ver = m.ver /\ c.deferred = m.deferred
      /\ c.d2hq = m.d2hq /\ c.h2din = m.h2din /\ c.err = m.err /\ c.h2dq = m.h2dq
    BY DEF MemType
<1>3. c \in MemType
  <2>1. need \in Nat
      BY ProgramTypes DEF BackingNeed
  <2> QED
      BY <1>1, <2>1, ChargeType DEF Locations
<1> HIDE DEF c, need
<1>4. m2 = [c EXCEPT !.d2hq = Tail(m.d2hq), !.d2hin = o, !.backing = b, !.fast = f]
    BY <1>1, <1>2 DEF StartD2H, BackingNeed, need
<1> HIDE DEF f, b, m2
<1>5. /\ m2.used = c.used /\ m2.held = c.held /\ m2.inc = c.inc /\ m2.ver = c.ver
      /\ m2.deferred = c.deferred /\ m2.h2dq = c.h2dq /\ m2.h2din = c.h2din /\ m2.err = c.err
      /\ m2.d2hq = Tail(m.d2hq) /\ m2.d2hin = o /\ m2.backing = b /\ m2.fast = f
    BY <1>3, <1>4 DEF MemType
<1>6. StartedD2H(m, m2, o)
    BY <1>2, <1>5 DEF StartedD2H, need, f, b
<1> QED
    BY <1>6 DEF m2

\* The head of the to_slow queue starts: it was on its way out, and still is.
LEMMA StartD2HOnPlan ==
    ASSUME prog \in Programs, NEW m, NEW t, NEW res, NEW k, OnPlan(m, t, res, k),
           m.d2hq # <<>>, m.d2hin = Nil, NEW o, o = Head(m.d2hq),
           CanReserve(m, "backing", BackingNeed(m, o)),
           NEW m2, m2 = StartD2H(m, o)
    PROVE  OnPlan(m2, t, res, k)
<1>1. m \in MemType /\ m.d2hq \in Seq(Objects) /\ NoRepeats(m.d2hq)
    BY DEF OnPlan, Kempt, MemType
<1>2. o \in Objects /\ o \in Range(m.d2hq)
    BY <1>1, TailFacts
<1>3. StartedD2H(m, m2, o)
    BY <1>1, <1>2, StartD2HEffect
<1>4. NoRepeats(m2.d2hq) /\ \A q : q \in Range(m2.d2hq) <=> q \in Range(m.d2hq) /\ q # o
    BY <1>1, <1>3, TailFacts, SMTT(30) DEF StartedD2H
<1>5. m2 \in MemType
    BY <1>1, <1>2, StartD2HType
<1>6. /\ Leaving(m, o) /\ m.fast[o].st = "pending_outbound"
      /\ m.backing[o].st \in {"none", "live"} /\ Accounted(m, o, t, res[o], k)
  <2>1. Accounted(m, o, t, res[o], k)
      BY <1>2 DEF OnPlan
  <2> QED
      BY <1>2, <2>1 DEF Accounted, Awaited, Follows, Present, Absent, Leaving, AtRest, Fetching
<1>7. /\ m.fast \in [Objects -> Slot] /\ m2.fast \in [Objects -> Slot]
      /\ m.backing \in [Objects -> Slot] /\ m2.backing \in [Objects -> Slot]
    BY <1>1, <1>5 DEF MemType
<1>8. /\ m2.fast[o].st = "outbound" /\ m2.fast[o].ver = m.fast[o].ver
      /\ m2.fast[o].inc = m.fast[o].inc /\ \A q \in Objects \ {o} : m2.fast[q] = m.fast[q]
  <2>1. m.fast[o] \in [st : SlotStates, ver : Nat, inc : Nat]
      BY <1>2, <1>7 DEF Slot
  <2>2. m2.fast[o] = [m.fast[o] EXCEPT !.st = "outbound"]
      BY <1>2, <1>3, <1>7 DEF StartedD2H
  <2> QED
      BY <1>2, <1>3, <1>7, <2>1, <2>2 DEF StartedD2H
<1>9. /\ m2.backing[o].st = "inbound" /\ m2.backing[o].ver = m.fast[o].ver
      /\ \A q \in Objects \ {o} : m2.backing[q] = m.backing[q]
  <2>1. m2.backing[o] = [NoSlot EXCEPT !.st = "inbound", !.ver = m.fast[o].ver]
      BY <1>2, <1>3, <1>7 DEF StartedD2H
  <2>2. m2.backing[o].st = "inbound" /\ m2.backing[o].ver = m.fast[o].ver
      BY <2>1 DEF NoSlot
  <2> QED
      BY <1>2, <1>3, <1>7, <2>2 DEF StartedD2H
<1>10. Balanced(m2)
  <2>1. Bytes(Held(m2.fast)) = Bytes(Held(m.fast))
      BY <1>6, <1>8, SameBytes, SMTT(30)
  <2>2. prog.size[o] \in Nat \ {0} /\ prog.cap["backing"] \in Nat
      BY <1>2, ProgramTypes DEF Locations
  <2>3. m.used \in [Locations -> Nat] /\ "fast" \in Locations /\ "backing" \in Locations
      BY <1>1 DEF MemType, Locations
  <2>4. /\ m2.used["backing"] = m.used["backing"] + BackingNeed(m, o)
        /\ m2.used["fast"] = m.used["fast"]
      BY <1>3, <2>3 DEF StartedD2H
  <2>5. CASE m.backing[o].st = "none"
    <3>1. /\ Bytes(Held(m2.backing)) = Bytes(Held(m.backing)) + prog.size[o]
          /\ Bytes(Held(m.backing)) \in Nat
        BY SMTT(30), <1>2, <1>7, <1>9, <2>5, SlotBytes
    <3>2. m.used["backing"] + prog.size[o] <= prog.cap["backing"]
        BY <2>2, <2>5 DEF CanReserve, BackingNeed
    <3> QED
        BY <2>1, <2>4, <2>5, <3>1, <3>2 DEF OnPlan, Kempt, Balanced, BackingNeed
  <2>6. CASE m.backing[o].st # "none"
    <3>1. Bytes(Held(m2.backing)) = Bytes(Held(m.backing))
        BY SMTT(30), <1>9, <2>6, SameBytes
    <3>2. m2.used["backing"] = m.used["backing"]
        BY <2>3, <2>4, <2>6, SMTT(30) DEF BackingNeed
    <3> QED
        BY <2>1, <2>4, <3>1, <3>2 DEF OnPlan, Kempt, Balanced
  <2> QED
      BY <2>5, <2>6
<1>11. Owned(m2)
  <2> SUFFICES ASSUME NEW h \in m2.held
               PROVE  m2.fast[h[1]].st # "none" /\ m2.fast[h[1]].inc = h[2]
      BY DEF Owned
  <2>1. h[1] \in Objects /\ m.fast[h[1]].st # "none" /\ m.fast[h[1]].inc = h[2]
      BY <1>1, <1>3, SMTT(30) DEF OnPlan, Kempt, Owned, MemType, StartedD2H
  <2> QED
      BY <1>8, <2>1
<1>12. Kempt(m2)
    BY <1>3, <1>4, <1>5, <1>10, <1>11 DEF OnPlan, Kempt, StartedD2H
<1>13. \A q \in Objects \ {o} : Untouched(m, m2, q)
  <2>1. Nil \notin Objects
      BY ProgramsAssumption
  <2> QED
    <3> SUFFICES ASSUME NEW q \in Objects, q # o PROVE Untouched(m, m2, q)
        OBVIOUS
    <3>1. m2.fast[q] = m.fast[q] /\ m2.backing[q] = m.backing[q]
        BY <1>8, <1>9
    <3>2. q \in Range(m2.d2hq) <=> q \in Range(m.d2hq)
        BY <1>4
    <3>3. q # m2.d2hin /\ q # m.d2hin
        BY <1>3, <2>1 DEF StartedD2H
    <3> QED
        BY <1>3, <3>1, <3>2, <3>3 DEF Untouched, StartedD2H
<1>14. Leaving(m2, o) /\ m2.deferred = m.deferred
    BY <1>3, <1>4, <1>6, <1>8, <1>9 DEF Leaving, StartedD2H
<1>15. Accounted(m2, o, t, res[o], k)
    BY <1>2, <1>6, <1>14 DEF Accounted, Awaited, Follows, Present, Absent, Fetching, AtRest
<1> QED
    BY <1>12, <1>13, <1>15, OneTouched

\* try_start of the to_slow lane keeps memory on plan, and in ample memory a
\* queued offload does not stay behind an idle lane.
LEMMA D2HTryStartOnPlan ==
    ASSUME prog \in Programs, NEW m, NEW t, NEW res, NEW k, OnPlan(m, t, res, k),
           NEW m2, m2 = D2HTryStart(m)
    PROVE  /\ OnPlan(m2, t, res, k) /\ LiveKept(m, m2)
           /\ m2.h2dq = m.h2dq /\ m2.h2din = m.h2din
           /\ Ample /\ m2.d2hin = Nil => m2.d2hq = <<>>
<1> DEFINE o == Head(m.d2hq)
<1>1. m \in MemType /\ m.err = "none" /\ m.d2hq \in Seq(Objects) /\ NoRepeats(m.d2hq)
    BY DEF OnPlan, Kempt, MemType
<1>2. CASE m.d2hin # Nil \/ m.d2hq = <<>>
  <2>1. m2 = m
      BY <1>1, <1>2 DEF D2HTryStart
  <2> QED
      BY <1>2, <2>1 DEF LiveKept
<1>3. CASE m.d2hin = Nil /\ m.d2hq # <<>>
  <2>1. o \in Objects /\ o \in Range(m.d2hq)
      BY <1>1, <1>3, TailFacts
  <2>2. m.fast[o].st = "pending_outbound"
    <3>1. Accounted(m, o, t, res[o], k)
        BY <2>1 DEF OnPlan
    <3> HIDE DEF o
    <3> QED
        BY <2>1, <3>1
           DEF Accounted, Awaited, Follows, Present, Absent, Leaving, AtRest, Fetching
  <2>3. CASE CanReserve(m, "backing", BackingNeed(m, o))
    <3>1. m2 = StartD2H(m, o)
        BY <1>1, <1>3, <2>2, <2>3 DEF D2HTryStart, BackingNeed
    <3>2. OnPlan(m2, t, res, k)
        BY <1>3, <2>3, <3>1, StartD2HOnPlan
    <3>3. StartedD2H(m, m2, o)
        BY <1>1, <2>1, <2>3, <3>1, StartD2HEffect
    <3> HIDE DEF o
    <3>4. m2.ver = m.ver /\ m2.h2dq = m.h2dq /\ m2.h2din = m.h2din /\ m2.d2hin = o /\ o # Nil
        BY <2>1, <3>3, ProgramsAssumption DEF StartedD2H
    <3>5. \A q \in Objects : m.fast[q].st = "live" => m2.fast[q] = m.fast[q]
        BY <1>1, <2>2, <3>3 DEF StartedD2H, MemType
    <3> QED
        BY <3>2, <3>4, <3>5 DEF LiveKept
  <2>4. CASE ~ CanReserve(m, "backing", BackingNeed(m, o))
    <3>1. m2 = m
        BY <1>1, <1>3, <2>2, <2>4 DEF D2HTryStart, BackingNeed
    <3>2. ~ Ample
      <4> SUFFICES ASSUME Ample PROVE FALSE
          OBVIOUS
      <4>1. m.backing[o].st = "none"
          BY <2>4 DEF CanReserve, BackingNeed
      <4>2. {o} \cap Held(m.backing) = {} /\ {o} \in SUBSET Objects
          BY <2>1, <4>1 DEF Held
      <4>3. CanReserve(m, "backing", Bytes({o})) /\ Bytes({o}) = prog.size[o]
          BY <2>1, <4>2, AmpleRoom, BytesFacts DEF OnPlan
      <4> QED
          BY <2>4, <4>1, <4>3 DEF BackingNeed
    <3> QED
        BY <3>1, <3>2 DEF LiveKept
  <2> QED
      BY <2>3, <2>4
<1> QED
    BY <1>2, <1>3

\* complete of the from_slow lane: the object arrives where the plan has it.
LEMMA CompleteH2DOnPlan ==
    ASSUME prog \in Programs, NEW m, NEW t, NEW res, NEW k, OnPlan(m, t, res, k),
           m.h2din # Nil, NEW m2, m2 = CompleteH2D(m)
    PROVE  /\ OnPlan(m2, t, res, k) /\ LiveKept(m, m2)
           /\ m2.d2hq = m.d2hq /\ m2.d2hin = m.d2hin
<1> DEFINE o == m.h2din
           f == [m.fast EXCEPT ![o].st = "live"]
<1>1. m \in MemType /\ o \in Objects
    BY DEF OnPlan, Kempt, MemType
<1>2. Accounted(m, o, t, res[o], k) /\ Fetching(m, o) /\ m.fast[o].st = "inbound"
  <2>1. Accounted(m, o, t, res[o], k)
      BY <1>1 DEF OnPlan
  <2> QED
      BY <2>1 DEF Accounted, Awaited, Follows, Present, Absent, Leaving, AtRest, Fetching
<1>3. m2 = [m EXCEPT !.fast = f, !.h2din = Nil] /\ m2 \in MemType
    BY <1>1, <1>2, CompleteType DEF CompleteH2D
<1>4. m.fast \in [Objects -> Slot] /\ f \in [Objects -> Slot]
    BY <1>1, SlotUpdate DEF MemType, SlotStates
<1>5. /\ f[o].st = "live" /\ f[o].ver = m.fast[o].ver /\ f[o].inc = m.fast[o].inc
      /\ \A q \in Objects \ {o} : f[q] = m.fast[q]
  <2>1. m.fast[o] \in [st : SlotStates, ver : Nat, inc : Nat]
      BY <1>1, <1>4 DEF Slot
  <2>2. f[o] = [m.fast[o] EXCEPT !.st = "live"]
      BY <1>1, <1>4
  <2> QED
      BY <1>1, <1>4, <2>1, <2>2
<1> HIDE DEF f
<1>6. /\ m2.fast = f /\ m2.h2din = Nil /\ m2.used = m.used /\ m2.held = m.held
      /\ m2.backing = m.backing /\ m2.ver = m.ver /\ m2.deferred = m.deferred
      /\ m2.d2hq = m.d2hq /\ m2.d2hin = m.d2hin /\ m2.err = m.err /\ m2.h2dq = m.h2dq
    BY <1>1, <1>3 DEF MemType
<1> HIDE DEF o
<1>7. Bytes(Held(m2.fast)) = Bytes(Held(m.fast))
    BY <1>2, <1>5, <1>6, SameBytes, SMTT(30)
<1>8. Owned(m2)
  <2> SUFFICES ASSUME NEW h \in m2.held
               PROVE  m2.fast[h[1]].st # "none" /\ m2.fast[h[1]].inc = h[2]
      BY DEF Owned
  <2>1. h[1] \in Objects /\ m.fast[h[1]].st # "none" /\ m.fast[h[1]].inc = h[2]
      BY <1>1, <1>6, SMT DEF OnPlan, Kempt, Owned, MemType
  <2> QED
      BY <1>5, <1>6, <2>1
<1>9. Kempt(m2)
    BY <1>3, <1>6, <1>7, <1>8 DEF OnPlan, Kempt, Balanced
<1>10. \A q \in Objects \ {o} : Untouched(m, m2, q)
    BY <1>5, <1>6, ProgramsAssumption DEF Untouched, o
<1>11. Present(m2, o) /\ m2.backing[o].st = "live" /\ m2.backing[o].ver = m2.ver[o]
    BY <1>1, <1>2, <1>5, <1>6, ProgramsAssumption DEF Fetching, Present, AtRest
<1>12. Accounted(m2, o, t, res[o], k)
    BY <1>2, <1>11 DEF Accounted, Awaited, Follows, Present, Absent, Fetching, AtRest, Leaving,
                       Backed
<1>13. OnPlan(m2, t, res, k)
    BY <1>9, <1>10, <1>12, OneTouched
<1>14. \A q \in Objects : m.fast[q].st = "live" => m2.fast[q] = m.fast[q]
    BY <1>2, <1>5, <1>6
<1> QED
    BY <1>6, <1>13, <1>14 DEF LiveKept

\* What dropping the fast slots of R changes, when they exist.
Dropped(m, m2, R) ==
    /\ m2.used = [m.used EXCEPT !["fast"] = m.used["fast"] - Bytes(R)]
    /\ m2.held = {h \in m.held : ~ (h[1] \in R /\ h[2] = m.fast[h[1]].inc)}
    /\ m2.fast = [o \in Objects |-> IF o \in R THEN NoSlot ELSE m.fast[o]]
    /\ m2.backing = m.backing /\ m2.inc = m.inc /\ m2.ver = m.ver
    /\ m2.deferred = m.deferred /\ m2.h2dq = m.h2dq /\ m2.h2din = m.h2din
    /\ m2.d2hq = m.d2hq /\ m2.d2hin = m.d2hin /\ m2.err = m.err

\* The slots that are dropped leave the ledger and the pool as they came.
LEMMA DropFastEffect ==
    ASSUME prog \in Programs, NEW m, Kempt(m), NEW R \in SUBSET Objects,
           \A o \in R : m.fast[o].st # "none"
    PROVE  Dropped(m, DropFast(m, R), R) /\ Kempt(DropFast(m, R))
<1> DEFINE d  == [m EXCEPT !.used["fast"] = m.used["fast"] - Bytes(R)]
           m2 == DropFast(m, R)
           hs == {h \in m.held : ~ (h[1] \in R /\ h[2] = m.fast[h[1]].inc)}
           f  == [o \in Objects |-> IF o \in R THEN NoSlot ELSE m.fast[o]]
<1>1. m \in MemType /\ m2 \in MemType
    BY DropFastType DEF Kempt
<1>2. /\ Held(m.fast) \in SUBSET Objects /\ R \in SUBSET Held(m.fast)
      /\ Bytes(R) <= Bytes(Held(m.fast))
      /\ Bytes(Held(m.fast) \ R) = Bytes(Held(m.fast)) - Bytes(R)
  <2>1. Held(m.fast) \in SUBSET Objects /\ R \in SUBSET Held(m.fast)
      BY DEF Held
  <2> QED
      BY <2>1, BytesMonotone
<1>3. Bytes(R) \in Nat /\ Bytes(Held(m.fast)) \in Nat
    BY <1>2, BytesFacts
<1>4. m.used["fast"] = Bytes(Held(m.fast))
    BY DEF Kempt, Balanced
<1>5. Release(m, "fast", Bytes(R)) = d
    BY <1>2, <1>4 DEF Release
<1>6. d \in MemType
    BY <1>1, <1>3, <1>5, ChargeType DEF Locations
<1>7. /\ d.used = [m.used EXCEPT !["fast"] = m.used["fast"] - Bytes(R)]
      /\ d.held = m.held /\ d.fast = m.fast /\ d.backing = m.backing /\ d.inc = m.inc
      /\ d.ver = m.ver /\ d.deferred = m.deferred /\ d.h2dq = m.h2dq /\ d.h2din = m.h2din
      /\ d.d2hq = m.d2hq /\ d.d2hin = m.d2hin /\ d.err = m.err
    BY <1>1 DEF MemType
<1> HIDE DEF d
<1>8. m2 = [d EXCEPT !.held = hs, !.fast = f]
    BY <1>5, <1>7 DEF DropFast
<1> HIDE DEF hs, f, m2
<1>9. Dropped(m, m2, R)
  <2>1. /\ m2.held = hs /\ m2.fast = f /\ m2.used = d.used /\ m2.backing = d.backing
        /\ m2.inc = d.inc /\ m2.ver = d.ver /\ m2.deferred = d.deferred /\ m2.h2dq = d.h2dq
        /\ m2.h2din = d.h2din /\ m2.d2hq = d.d2hq /\ m2.d2hin = d.d2hin /\ m2.err = d.err
      BY <1>6, <1>8 DEF MemType
  <2> QED
      BY <1>7, <2>1 DEF Dropped, hs, f
<1>10. /\ \A o \in R : m2.fast[o].st = "none"
       /\ \A o \in Objects \ R : m2.fast[o] = m.fast[o]
    BY <1>9, SMTT(30) DEF Dropped, NoSlot
<1>11. Balanced(m2)
  <2>1. Held(m2.fast) = Held(m.fast) \ R
      BY <1>10 DEF Held
  <2>2. m.used \in [Locations -> Nat] /\ "fast" \in Locations /\ "backing" \in Locations
      BY <1>1 DEF MemType, Locations
  <2>3. m2.used["fast"] = m.used["fast"] - Bytes(R) /\ m2.used["backing"] = m.used["backing"]
      BY <1>9, <2>2 DEF Dropped
  <2>4. m.used["fast"] <= prog.cap["fast"] /\ prog.cap["fast"] \in Nat
      BY ProgramTypes DEF Kempt, Balanced, Locations
  <2>5. m2.used["fast"] <= prog.cap["fast"]
      BY SMTT(30), <1>2, <1>3, <1>4, <2>3, <2>4
  <2> QED
      BY <1>2, <1>4, <1>9, <2>1, <2>3, <2>5 DEF Kempt, Balanced, Dropped
<1>12. Owned(m2)
  <2> SUFFICES ASSUME NEW h \in m2.held
               PROVE  m2.fast[h[1]].st # "none" /\ m2.fast[h[1]].inc = h[2]
      BY DEF Owned
  <2>1. h \in m.held /\ ~ (h[1] \in R /\ h[2] = m.fast[h[1]].inc)
      BY <1>9 DEF Dropped
  <2>2. h[1] \in Objects /\ m.fast[h[1]].st # "none" /\ m.fast[h[1]].inc = h[2]
      BY <1>1, <2>1 DEF Kempt, Owned, MemType
  <2> QED
      BY <1>10, <2>1, <2>2
<1>13. Kempt(m2)
    BY <1>1, <1>9, <1>11, <1>12 DEF Kempt, Dropped
<1> QED
    BY <1>9, <1>13 DEF m2

\* complete of the to_slow lane, and the prefetches deferred on it: the object has
\* left, or starts on its way back.
LEMMA CompleteD2HOnPlan ==
    ASSUME prog \in Programs, NEW m, NEW t, NEW res, NEW k, OnPlan(m, t, res, k),
           m.d2hin # Nil, NEW m2, m2 = ActivateDeferred(CompleteD2H(m), m.d2hin)
    PROVE  OnPlan(m2, t, res, k) /\ LiveKept(m, m2)
<1> DEFINE o  == m.d2hin
           d  == DropFast(m, {o})
           b  == [d.backing EXCEPT ![o].st = "live"]
           m1 == CompleteD2H(m)
           a  == [i \in 1 .. m1.deferred[o] |-> o]
           df == [m1.deferred EXCEPT ![o] = 0]
<1>1. m \in MemType /\ o \in Objects /\ Kempt(m) /\ Nil \notin Objects
    BY ProgramsAssumption DEF OnPlan, Kempt, MemType
<1>2. /\ Accounted(m, o, t, res[o], k) /\ Leaving(m, o) /\ m.fast[o].st = "outbound"
      /\ m.backing[o].st = "inbound" /\ m.backing[o].ver = m.ver[o]
      /\ o \notin Range(m.d2hq) /\ m.deferred[o] \in {0, 1}
  <2>1. Accounted(m, o, t, res[o], k)
      BY <1>1 DEF OnPlan
  <2> QED
      BY <2>1 DEF Accounted, Awaited, Follows, Present, Absent, Leaving, AtRest, Fetching
<1>3. Dropped(m, d, {o}) /\ Kempt(d)
    BY <1>1, <1>2, DropFastEffect
<1> HIDE DEF o, d
<1>4. m1 = [d EXCEPT !.backing = b, !.d2hin = Nil] /\ m1 \in MemType
    BY <1>1, <1>2, CompleteType DEF CompleteD2H, o, d
<1>5. d \in MemType /\ d.backing \in [Objects -> Slot] /\ d.backing = m.backing
    BY <1>3 DEF Kempt, MemType, Dropped
<1>6. /\ b[o].st = "live" /\ b[o].ver = m.ver[o] /\ \A q \in Objects \ {o} : b[q] = m.backing[q]
  <2>1. d.backing[o] \in [st : SlotStates, ver : Nat, inc : Nat]
      BY <1>1, <1>5 DEF Slot
  <2>2. b[o] = [d.backing[o] EXCEPT !.st = "live"]
      BY <1>1, <1>5
  <2> QED
      BY <1>1, <1>2, <1>5, <2>1, <2>2
<1> HIDE DEF b, m1
<1>7. /\ m1.backing = b /\ m1.d2hin = Nil /\ m1.used = d.used /\ m1.held = d.held
      /\ m1.fast = d.fast /\ m1.inc = d.inc /\ m1.ver = d.ver /\ m1.deferred = d.deferred
      /\ m1.h2dq = d.h2dq /\ m1.h2din = d.h2din /\ m1.d2hq = d.d2hq /\ m1.err = d.err
    BY <1>4, <1>5 DEF MemType
<1>8. Kempt(m1)
  <2>1. Bytes(Held(m1.backing)) = Bytes(Held(m.backing))
      BY <1>2, <1>6, <1>7, SameBytes, SMT
  <2> QED
      BY <1>3, <1>4, <1>5, <1>7, <2>1 DEF Kempt, Balanced, Owned
<1>9. m2 = [m1 EXCEPT !.h2dq = m1.h2dq \o a, !.deferred = df] /\ m2 \in MemType
  <2>1. m2 = ActivateDeferred(m1, o) /\ m1.err = "none"
      BY <1>8 DEF m1, o, Kempt
  <2>2. m2 \in MemType
      BY <1>1, <1>4, <2>1, ActivateDeferredType
  <2>3. m2 = [m1 EXCEPT !.h2dq = m1.h2dq \o a, !.deferred = df]
      BY <2>1 DEF ActivateDeferred
  <2> QED
      BY <2>2, <2>3
<1>10. /\ m1.deferred[o] = m.deferred[o] /\ m.h2dq \in Seq(Objects) /\ m1.h2dq = m.h2dq
       /\ df[o] = 0 /\ \A q \in Objects \ {o} : df[q] = m.deferred[q]
    BY <1>1, <1>3, <1>4, <1>7 DEF MemType, Dropped
<1> HIDE DEF df
<1>11. /\ NoRepeats(m1.h2dq \o a)
       /\ \A q : q \in Range(m1.h2dq \o a) <=>
                    q \in Range(m.h2dq) \/ (q = o /\ m.deferred[o] = 1)
  <2>1. NoRepeats(m.h2dq) /\ o \notin Range(m.h2dq)
      BY <1>1, <1>2 DEF Kempt, Leaving
  <2>2. CASE m.deferred[o] = 0
    <3>1. a = <<>>
        BY <1>10, <2>2, SMTT(30)
    <3> HIDE DEF a
    <3>2. m1.h2dq \o a = m.h2dq
        BY <1>10, <3>1, SMTT(30)
    <3> QED
        BY SMTT(30), <2>1, <2>2, <3>2
  <2>3. CASE m.deferred[o] = 1
    <3>1. a = <<o>>
        BY <1>10, <2>3, SMTT(30)
    <3>2. Range(m.h2dq) \cap Range(<<o>>) = {}
        BY SMTT(30), <1>1, <2>1, OneFacts
    <3> QED
        BY <1>1, <1>10, <2>1, <2>3, <3>1, <3>2, OneFacts, ConcatFacts
  <2> QED
      BY <1>2, <2>2, <2>3
<1> HIDE DEF a
<1>12. /\ m2.h2dq = m1.h2dq \o a /\ m2.deferred = df /\ m2.used = m1.used /\ m2.held = m1.held
       /\ m2.fast = m1.fast /\ m2.backing = m1.backing /\ m2.ver = m1.ver
       /\ m2.h2din = m1.h2din /\ m2.d2hq = m1.d2hq /\ m2.d2hin = m1.d2hin /\ m2.err = m1.err
    BY <1>4, <1>9 DEF MemType
<1>13. Kempt(m2)
  <2>1. m2 \in MemType /\ m2.err = "none" /\ NoRepeats(m2.h2dq) /\ NoRepeats(m2.d2hq)
      BY Zenon, <1>8, <1>9, <1>11, <1>12 DEF Kempt
  <2>2. Balanced(m2)
      BY Zenon, <1>8, <1>12 DEF Kempt, Balanced
  <2>3. Owned(m2)
      BY Zenon, <1>8, <1>12 DEF Kempt, Owned
  <2> QED
      BY Zenon, <2>1, <2>2, <2>3 DEF Kempt
<1>14. m2.fast[o].st = "none" /\ \A q \in Objects \ {o} : m2.fast[q] = m.fast[q]
  <2>1. m2.fast = [q \in Objects |-> IF q \in {o} THEN NoSlot ELSE m.fast[q]]
      BY Zenon, <1>3, <1>7, <1>12 DEF Dropped
  <2>2. m2.fast[o] = NoSlot /\ \A q \in Objects \ {o} : m2.fast[q] = m.fast[q]
      BY Zenon, <1>1, <2>1
  <2> QED
      BY ONLY SMTT(30), <2>2 DEF NoSlot
<1>15. \A q \in Objects \ {o} : Untouched(m, m2, q)
    BY SMTT(30), <1>1, <1>3, <1>6, <1>7, <1>10, <1>11, <1>12, <1>14 DEF Untouched, Dropped, o
<1>16. /\ m2.deferred[o] = 0 /\ o # m2.h2din /\ o # m2.d2hin /\ o \notin Range(m2.d2hq)
       /\ o \in Range(m2.h2dq) <=> m.deferred[o] = 1
       /\ m2.backing[o].st = "live" /\ m2.backing[o].ver = m2.ver[o]
  <2>1. o # m.h2din /\ o \notin Range(m.h2dq)
      BY <1>2 DEF Leaving
  <2> QED
      BY SMTT(30), <1>1, <1>2, <1>3, <1>6, <1>7, <1>10, <1>11, <1>12, <2>1 DEF Dropped
<1>17. Accounted(m2, o, t, res[o], k)
  <2>1. o \notin InFlight(t) /\ res[o].back = "current"
      BY <1>2 DEF Accounted, Awaited, Follows, Present, Absent, Leaving, AtRest, Fetching
  <2>2. CASE m.deferred[o] = 0
    <3>1. ~ res[o].fast
        BY SMTT(30), <1>2, <2>1, <2>2
           DEF Accounted, Follows, Present, Absent, Leaving, AtRest, Fetching
    <3>2. Absent(m2, o) /\ Backed(m2, o, res[o].back)
        BY SMTT(30), <1>14, <1>16, <2>1, <2>2 DEF Absent, AtRest, Backed
    <3> QED
        BY <2>1, <3>1, <3>2 DEF Accounted, Follows
  <2>3. CASE m.deferred[o] = 1
    <3>1. res[o].fast /\ ~ res[o].settled
        BY SMTT(30), <1>2, <2>1, <2>3
           DEF Accounted, Follows, Present, Absent, Leaving, AtRest, Fetching
    <3>2. Fetching(m2, o)
        BY <1>14, <1>16, <2>3 DEF Fetching
    <3> QED
        BY <2>1, <3>1, <3>2 DEF Accounted, Follows
  <2> QED
      BY <1>2, <2>2, <2>3
<1>18. OnPlan(m2, t, res, k)
    BY <1>13, <1>15, <1>17, OneTouched
<1>19. m2.ver = m.ver
    BY <1>3, <1>7, <1>12 DEF Dropped
<1> QED
    BY <1>2, <1>14, <1>18, <1>19 DEF LiveKept

\* A completed transfer, with the restarts its handler makes.
LEMMA TransferDoneOnPlan ==
    ASSUME prog \in Programs, NEW m, NEW t, NEW res, NEW k, OnPlan(m, t, res, k),
           Ample => LanesBusy(m), NEW m2,
           \/ m.h2din # Nil /\ m2 = OnH2DDone(m)
           \/ m.d2hin # Nil /\ m2 = OnD2HDone(m)
    PROVE  OnPlan(m2, t, res, k) /\ LiveKept(m, m2) /\ (Ample => LanesBusy(m2))
<1>1. CASE m.h2din # Nil /\ m2 = OnH2DDone(m)
  <2> DEFINE m1 == CompleteH2D(m)
  <2>1. OnPlan(m1, t, res, k) /\ LiveKept(m, m1) /\ m1.d2hq = m.d2hq /\ m1.d2hin = m.d2hin
      BY <1>1, CompleteH2DOnPlan, SMTT(30)
  <2>2. m2 = H2DTryStart(m1, FALSE)
      BY <1>1 DEF OnH2DDone
  <2> HIDE DEF m1
  <2>3. OnPlan(m1, t, res, k)
      BY <2>1
  <2>4. /\ OnPlan(m2, t, res, k) /\ LiveKept(m1, m2)
        /\ m2.d2hq = m1.d2hq /\ m2.d2hin = m1.d2hin
        /\ Ample /\ m2.h2din = Nil => m2.h2dq = <<>>
      BY ONLY prog \in Programs, <2>2, <2>3, FALSE \in BOOLEAN, H2DTryStartOnPlan, ZenonT(40)
  <2> QED
      BY <2>1, <2>4 DEF LiveKept, LanesBusy
<1>2. CASE m.d2hin # Nil /\ m2 = OnD2HDone(m)
  <2> DEFINE m1 == ActivateDeferred(CompleteD2H(m), m.d2hin)
             m3 == D2HTryStart(m1)
  <2>1. OnPlan(m1, t, res, k) /\ LiveKept(m, m1)
      BY <1>2, CompleteD2HOnPlan
  <2>2. m2 = H2DTryStart(m3, FALSE)
      BY <1>2 DEF OnD2HDone
  <2> HIDE DEF m1
  <2>3. /\ OnPlan(m3, t, res, k) /\ LiveKept(m1, m3)
        /\ Ample /\ m3.d2hin = Nil => m3.d2hq = <<>>
      BY <2>1, D2HTryStartOnPlan
  <2> HIDE DEF m3
  <2>4. /\ OnPlan(m2, t, res, k) /\ LiveKept(m3, m2)
        /\ m2.d2hq = m3.d2hq /\ m2.d2hin = m3.d2hin
        /\ Ample /\ m2.h2din = Nil => m2.h2dq = <<>>
      BY ONLY prog \in Programs, <2>2, <2>3, FALSE \in BOOLEAN, H2DTryStartOnPlan, ZenonT(40)
  <2> QED
      BY <2>1, <2>3, <2>4 DEF LiveKept, LanesBusy
<1> QED
    BY <1>1, <1>2

-----------------------------------------------------------------------------
(***************************************************************************)
(* The eviction valve.                                                     *)
(***************************************************************************)
\* Of some positions in the chain one is the first.
LEMMA LeastExists ==
    ASSUME NEW T \in SUBSET Nat, NEW x \in T
    PROVE  \E y \in T : \A z \in T : y <= z
<1>1. PICK y \in T : \A z \in T : ~ (<<z, y>> \in OpToRel(<, Nat))
    BY NatLessThanWellFounded, WFMin
<1>2. \A z \in T : ~ (z < y) /\ z \in Nat /\ y \in Nat
    BY <1>1 DEF OpToRel
<1> QED
    BY <1>2, SMT

\* An object that may be evicted is used again before any directive names it.
LEMMA EvictableUsedFirst ==
    ASSUME TypeInv, NEW o \in Objects, Evictable(o)
    PROVE  UsedFirst(o, cursor - 1)
<1> DEFINE T == {t \in UsesOf(o) : t >= cursor}
<1>1. cursor \in Nat /\ prog.n \in Nat /\ UsesOf(o) \in SUBSET Nat /\ DirectivesOf(o) \in SUBSET Nat
    BY ProgramTypes, SMTT(30) DEF TypeInv, TypeOK, UsesOf, DirectivesOf, Tasks
<1>2. PICK x : x \in T
    BY DEF Evictable
<1>3. PICK y \in T : \A z \in T : y <= z
    BY <1>1, <1>2, LeastExists
<1>4. NextUse(o) \in UsesOf(o) /\ NextUse(o) >= cursor
    BY <1>3 DEF NextUse
<1>5. DirectivesOf(o) \cap (cursor .. NextUse(o) - 1) = {}
    BY DEF Evictable
<1> HIDE DEF T
<1> SUFFICES ASSUME NEW t \in DirectivesOf(o), t > cursor - 1
             PROVE  \E u \in UsesOf(o) : cursor - 1 < u /\ u <= t
    BY DEF UsedFirst
<1>6. NextUse(o) \in Nat /\ t \in Nat
    BY <1>1, <1>4
<1>7. cursor - 1 < NextUse(o) /\ NextUse(o) <= t
    BY SMTT(30), <1>1, <1>4, <1>5, <1>6
<1> QED
    BY <1>4, <1>7

\* Evicting it leaves memory on plan: its copy is queued for the way in.
LEMMA EvictOnPlan ==
    ASSUME TypeInv, NEW res, OnPlan(mem, 0, res, cursor - 1), NEW o \in Objects, Evictable(o),
           NEW m2, m2 = Evict(mem, o)
    PROVE  /\ OnPlan(m2, 0, res, cursor - 1) /\ m2.ver = mem.ver
           /\ \A q \in Objects \ {o} : m2.fast[q] = mem.fast[q]
<1> DEFINE d == DropFast(mem, {o})
           w == Append(d.h2dq, o)
<1>1. /\ prog \in Programs /\ mem \in MemType /\ Kempt(mem) /\ Nil \notin Objects
      /\ Accounted(mem, o, 0, res[o], cursor - 1) /\ InFlight(0) = {}
    BY ProgramsAssumption DEF TypeInv, OnPlan, Kempt, InFlight
<1>2. /\ mem.fast[o].st = "live" /\ mem.backing[o].st = "live" /\ mem.backing[o].ver = mem.ver[o]
    BY DEF Evictable
<1>3. res[o].fast /\ AtRest(mem, o) /\ res[o].back # "none"
    BY <1>1, <1>2 DEF Accounted, Follows, Present, Absent, Leaving, Fetching, Backed
<1>4. UsedFirst(o, cursor - 1)
    BY EvictableUsedFirst
<1>5. Dropped(mem, d, {o}) /\ Kempt(d)
    BY <1>1, <1>2, DropFastEffect
<1>6. m2 = [d EXCEPT !.h2dq = w] /\ m2 \in MemType
    BY <1>1, EvictType DEF Evict
<1> HIDE DEF d
<1>7. d \in MemType /\ d.h2dq = mem.h2dq /\ mem.h2dq \in Seq(Objects)
    BY <1>1, <1>5 DEF Kempt, Dropped, MemType
<1>8. w = mem.h2dq \o <<o>>
    BY <1>7, SMTT(30)
<1>9. NoRepeats(w) /\ \A q : q \in Range(w) <=> q \in Range(mem.h2dq) \/ q = o
  <2>1. NoRepeats(mem.h2dq) /\ o \notin Range(mem.h2dq)
      BY <1>1, <1>3 DEF Kempt, AtRest
  <2>2. Range(mem.h2dq) \cap Range(<<o>>) = {} /\ <<o>> \in Seq(Objects) /\ NoRepeats(<<o>>)
        /\ \A q : q \in Range(<<o>>) <=> q = o
      BY <2>1, OneFacts, SMTT(30)
  <2> HIDE DEF w
  <2> QED
      BY <1>7, <1>8, <2>1, <2>2, ConcatFacts
<1> HIDE DEF w
<1>10. /\ m2.h2dq = w /\ m2.used = d.used /\ m2.held = d.held /\ m2.fast = d.fast
       /\ m2.backing = d.backing /\ m2.ver = d.ver /\ m2.deferred = d.deferred
       /\ m2.h2din = d.h2din /\ m2.d2hq = d.d2hq /\ m2.d2hin = d.d2hin /\ m2.err = d.err
    BY <1>6, <1>7 DEF MemType
<1>11. Kempt(m2)
    BY <1>5, <1>6, <1>9, <1>10 DEF Kempt, Balanced, Owned
<1>12. m2.fast[o].st = "none" /\ \A q \in Objects \ {o} : m2.fast[q] = mem.fast[q]
    BY <1>5, <1>10, SMTT(30) DEF Dropped, NoSlot
<1>13. \A q \in Objects \ {o} : Untouched(mem, m2, q)
    BY <1>5, <1>9, <1>10, <1>12 DEF Untouched, Dropped
<1>14. Fetching(m2, o)
    BY SMTT(30), <1>2, <1>3, <1>5, <1>9, <1>10, <1>12 DEF Fetching, Dropped, AtRest
<1>15. Accounted(m2, o, 0, res[o], cursor - 1)
    BY <1>1, <1>3, <1>4, <1>14 DEF Accounted, Follows
<1>16. OnPlan(m2, 0, res, cursor - 1)
    BY <1>1, <1>11, <1>13, <1>15, OneTouched
<1> QED
    BY <1>5, <1>10, <1>12, <1>16 DEF Dropped

-----------------------------------------------------------------------------
(***************************************************************************)
(* A task retires.                                                         *)
(***************************************************************************)
\* The outputs of a task are live and what it mutates has a new version.
RanAs(m, m2, t) ==
    /\ \A o \in Objects :
         /\ m2.fast[o].st = IF o \in prog.out[t]["fast"] THEN "live" ELSE m.fast[o].st
         /\ m2.fast[o].ver = IF o \in prog.mutates[t] THEN m.ver[o] + 1 ELSE m.fast[o].ver
         /\ m2.fast[o].inc = m.fast[o].inc
         /\ o \notin prog.out[t]["fast"] \cup prog.mutates[t] => m2.fast[o] = m.fast[o]
         /\ m2.backing[o].st = IF o \in prog.out[t]["backing"] THEN "live" ELSE m.backing[o].st
         /\ m2.backing[o].ver = m.backing[o].ver
         /\ o \notin prog.out[t]["backing"] => m2.backing[o] = m.backing[o]
         /\ m2.ver[o] = IF o \in prog.mutates[t] THEN m.ver[o] + 1 ELSE m.ver[o]
    /\ m2.used = m.used /\ m2.held = m.held /\ m2.deferred = m.deferred
    /\ m2.h2dq = m.h2dq /\ m2.h2din = m.h2din /\ m2.d2hq = m.d2hq /\ m2.d2hin = m.d2hin
    /\ m2.err = m.err

\* Marking the outputs and bumping the versions raises nothing.
LEMMA RanEffect ==
    ASSUME prog \in Programs, NEW t \in 1 .. prog.n, NEW m \in MemType, m.err = "none",
           \A o \in prog.out[t]["fast"] : m.fast[o].st = "reserved",
           \A o \in prog.out[t]["backing"] : m.backing[o].st = "reserved",
           \A o \in prog.mutates[t] : m.fast[o].st = "live",
           prog.mutates[t] \cap prog.out[t]["fast"] = {}
    PROVE  RanAs(m, Mutate(OutputsLive(m, t), t), t)
<1> DEFINE outF == prog.out[t]["fast"]
           outB == prog.out[t]["backing"]
           mut == prog.mutates[t]
           f == [o \in Objects |-> IF o \in outF THEN [m.fast[o] EXCEPT !.st = "live"] ELSE m.fast[o]]
           b == [o \in Objects |-> IF o \in outB THEN [m.backing[o] EXCEPT !.st = "live"]
                                   ELSE m.backing[o]]
           m1 == OutputsLive(m, t)
<1>1. \A s \in Slot : /\ [s EXCEPT !.st = "live"].st = "live" /\ [s EXCEPT !.st = "live"].ver = s.ver
                      /\ [s EXCEPT !.st = "live"].inc = s.inc
    BY DEF Slot
<1>2. m.fast \in [Objects -> Slot] /\ m.backing \in [Objects -> Slot] /\ m.ver \in [Objects -> Nat]
    BY DEF MemType
<1>3. m1 = [m EXCEPT !.fast = f, !.backing = b] /\ m1 \in MemType
    BY OutputsLiveType DEF OutputsLive
<1>4. \A o \in Objects : f[o] = IF o \in outF THEN [m.fast[o] EXCEPT !.st = "live"] ELSE m.fast[o]
    OBVIOUS
<1>5. \A o \in Objects : b[o] = IF o \in outB THEN [m.backing[o] EXCEPT !.st = "live"] ELSE m.backing[o]
    OBVIOUS
<1> HIDE DEF f, b, m1
<1>6. /\ m1.fast = f /\ m1.backing = b /\ m1.ver = m.ver /\ m1.used = m.used /\ m1.held = m.held
      /\ m1.deferred = m.deferred /\ m1.h2dq = m.h2dq /\ m1.h2din = m.h2din /\ m1.d2hq = m.d2hq
      /\ m1.d2hin = m.d2hin /\ m1.err = m.err
    BY <1>3 DEF MemType
<1>7. ASSUME NEW o \in Objects
      PROVE  /\ f[o].st = IF o \in outF THEN "live" ELSE m.fast[o].st
             /\ f[o].ver = m.fast[o].ver /\ f[o].inc = m.fast[o].inc
             /\ o \notin outF => f[o] = m.fast[o]
  <2>1. m.fast[o] \in Slot
      BY <1>2
  <2>2. CASE o \in outF
    <3>1. f[o] = [m.fast[o] EXCEPT !.st = "live"]
        BY <1>4, <2>2
    <3> QED
        BY <1>1, <2>1, <2>2, <3>1
  <2>3. CASE o \notin outF
      BY <1>4, <2>3
  <2> QED
      BY <2>2, <2>3
<1>8. ASSUME NEW o \in Objects
      PROVE  /\ b[o].st = IF o \in outB THEN "live" ELSE m.backing[o].st
             /\ b[o].ver = m.backing[o].ver /\ (o \notin outB => b[o] = m.backing[o])
  <2>1. m.backing[o] \in Slot
      BY <1>2
  <2>2. CASE o \in outB
    <3>1. b[o] = [m.backing[o] EXCEPT !.st = "live"]
        BY <1>5, <2>2
    <3> QED
        BY <1>1, <2>1, <2>2, <3>1
  <2>3. CASE o \notin outB
      BY <1>5, <2>3
  <2> QED
      BY <2>2, <2>3
<1> DEFINE v == [o \in Objects |-> IF o \in mut THEN m1.ver[o] + 1 ELSE m1.ver[o]]
           g == [o \in Objects |-> IF o \in mut THEN [m1.fast[o] EXCEPT !.ver = m1.ver[o] + 1]
                                   ELSE m1.fast[o]]
           m2 == Mutate(m1, t)
<1>9. \A o \in mut : m1.fast[o].st # "none"
  <2>1. mut \in SUBSET Objects
      BY TaskTypes
  <2> QED
      BY <1>6, <1>7, <2>1
<1>10. m2 = [m1 EXCEPT !.ver = v, !.fast = g] /\ m2 \in MemType
    BY <1>3, <1>6, <1>9, MutateType DEF Mutate
<1>11. \A o \in Objects : g[o] = IF o \in mut THEN [m1.fast[o] EXCEPT !.ver = m1.ver[o] + 1]
                                 ELSE m1.fast[o]
    OBVIOUS
<1>12. \A o \in Objects : v[o] = IF o \in mut THEN m.ver[o] + 1 ELSE m.ver[o]
    BY <1>6
<1> HIDE DEF v, g, m2
<1>13. /\ m2.fast = g /\ m2.ver = v /\ m2.backing = m1.backing /\ m2.used = m1.used
       /\ m2.held = m1.held /\ m2.deferred = m1.deferred /\ m2.h2dq = m1.h2dq
       /\ m2.h2din = m1.h2din /\ m2.d2hq = m1.d2hq /\ m2.d2hin = m1.d2hin /\ m2.err = m1.err
    BY <1>3, <1>10 DEF MemType
<1>14. \A s \in Slot, n \in Nat :
          /\ [s EXCEPT !.ver = n].ver = n /\ [s EXCEPT !.ver = n].st = s.st
          /\ [s EXCEPT !.ver = n].inc = s.inc
    BY DEF Slot
<1>15. f \in [Objects -> Slot]
    BY <1>3, <1>6 DEF MemType
<1>16. ASSUME NEW o \in Objects
       PROVE  /\ g[o].st = f[o].st /\ g[o].inc = f[o].inc
              /\ g[o].ver = IF o \in mut THEN m.ver[o] + 1 ELSE f[o].ver
              /\ o \notin mut => g[o] = f[o]
  <2>1. f[o] \in Slot /\ m.ver[o] + 1 \in Nat
      BY <1>2, <1>15, SMTT(30)
  <2>2. CASE o \in mut
    <3>1. g[o] = [f[o] EXCEPT !.ver = m.ver[o] + 1]
        BY <1>6, <1>11, <2>2
    <3> QED
        BY SMTT(30), <1>14, <2>1, <2>2, <3>1
  <2>3. CASE o \notin mut
      BY <1>6, <1>11, <2>3
  <2> QED
      BY <2>2, <2>3
<1>17. RanAs(m, m2, t)
  <2> SUFFICES ASSUME NEW o \in Objects
               PROVE  /\ m2.fast[o].st = IF o \in outF THEN "live" ELSE m.fast[o].st
                      /\ m2.fast[o].ver = IF o \in mut THEN m.ver[o] + 1 ELSE m.fast[o].ver
                      /\ m2.fast[o].inc = m.fast[o].inc
                      /\ o \notin outF \cup mut => m2.fast[o] = m.fast[o]
                      /\ m2.backing[o].st = IF o \in outB THEN "live" ELSE m.backing[o].st
                      /\ m2.backing[o].ver = m.backing[o].ver
                      /\ o \notin outB => m2.backing[o] = m.backing[o]
                      /\ m2.ver[o] = IF o \in mut THEN m.ver[o] + 1 ELSE m.ver[o]
      BY <1>6, <1>13 DEF RanAs
  <2> HIDE DEF outF, outB, mut
  <2>1. m2.fast[o] = g[o] /\ m2.backing[o] = b[o] /\ m2.ver[o] = v[o]
      BY <1>6, <1>13
  <2> QED
      BY <1>7, <1>8, <1>12, <1>16, <2>1, SMTT(30)
<1> QED
    BY <1>17 DEF m1, m2

\* Tasks are numbered from 1.
LEMMA TaskNumber ==
    ASSUME prog \in Programs, NEW t \in 1 .. prog.n
    PROVE  t # 0
<1>1. prog.n \in Nat
    BY ProgramTypes
<1> QED
    BY <1>1, SMTT(30)

\* What validation and coherence say of task t.
LEMMA TaskFacts ==
    ASSUME prog \in Programs, NEW t \in 1 .. prog.n
    PROVE  /\ CoherentTask(prog, t)
           /\ prog.mutates[t] \in SUBSET prog.inputs[t]
           /\ prog.inputs[t] \cap Produced(prog, t) = {}
           /\ Produced(prog, t) \cap CreatedBefore(prog, t) = {}
           /\ prog.out[t]["fast"] \cap prog.out[t]["backing"] = {}
           /\ NoRepeats(prog.offloads[t]) /\ NoRepeats(prog.prefetches[t])
           /\ prog.releases[t] \cup Range(prog.offloads[t]) \cup Range(prog.prefetches[t])
                \in SUBSET CreatedBefore(prog, t + 1)
           /\ prog.releases[t] \cap (Range(prog.offloads[t]) \cup Range(prog.prefetches[t])) = {}
<1>1. CoherentTask(prog, t)
    BY PlansAssumption DEF Coherent, Tasks
<1>2. ValidProgram(prog) /\ t \in Tasks(prog)
    BY ProgramsAssumption DEF Tasks
<1> QED
    BY <1>1, <1>2 DEF ValidProgram, Produced

\* The objects that directives name are objects.
LEMMA DirectiveTypes ==
    ASSUME prog \in Programs, NEW t \in 1 .. prog.n
    PROVE  /\ prog.releases[t] \in SUBSET Objects
           /\ Range(prog.offloads[t]) \in SUBSET Objects
           /\ Range(prog.prefetches[t]) \in SUBSET Objects
<1>1. prog.offloads[t] \in Seq(Objects) /\ prog.prefetches[t] \in Seq(Objects)
    BY TaskTypes
<1> QED
    BY <1>1, TaskTypes, SMTT(30) DEF Range

\* An object that a task neither uses nor makes is as far behind the plan as before.
LEMMA FollowsOn ==
    ASSUME prog \in Programs, NEW t \in 1 .. prog.n, NEW m, NEW o, NEW r,
           Follows(m, o, r, t - 1), o \notin prog.inputs[t]
    PROVE  Follows(m, o, r, t)
<1>1. ASSUME UsedFirst(o, t - 1) PROVE UsedFirst(o, t)
  <2> SUFFICES ASSUME NEW d \in DirectivesOf(o), d > t
               PROVE  \E u \in UsesOf(o) : t < u /\ u <= d
      BY DEF UsedFirst
  <2>1. prog.n \in Nat /\ d \in Nat /\ t \in Nat
      BY ProgramTypes, SMTT(30) DEF DirectivesOf, Tasks
  <2>2. PICK u \in UsesOf(o) : t - 1 < u /\ u <= d
      BY <1>1, <2>1, SMTT(30) DEF UsedFirst
  <2>3. u \in Nat /\ u # t
      BY <2>1, SMTT(30) DEF UsesOf, Tasks
  <2> QED
      BY SMTT(30), <2>1, <2>2, <2>3
<1> DEFINE j == t - 1
<1>2. UsedFirst(o, j) => UsedFirst(o, t)
    BY <1>1
<1>3. Follows(m, o, r, j)
    OBVIOUS
<1> HIDE DEF j
<1>4. CASE r.fast /\ Fetching(m, o) /\ r.back # "none" /\ (r.settled => UsedFirst(o, j))
    BY ONLY SMTT(30), <1>2, <1>4 DEF Follows
<1>5. CASE ~ (r.fast /\ Fetching(m, o) /\ r.back # "none" /\ (r.settled => UsedFirst(o, j)))
    BY ONLY Zenon, <1>3, <1>5 DEF Follows
<1> QED
    BY <1>4, <1>5

\* The task has run: memory is on the residency the plan predicts before its
\* directives, and the objects these are to move out are in fast memory.
LEMMA RanOnPlan ==
    ASSUME prog \in Programs, NEW t \in 1 .. prog.n, NEW m,
           OnPlan(m, t, prog.plan[t - 1], t - 1),
           \A o \in prog.inputs[t] : m.fast[o].st = "live",
           NEW res, \A o \in Objects : res[o] = Ran(prog, t, o),
           NEW m2, m2 = Mutate(OutputsLive(m, t), t)
    PROVE  /\ OnPlan(m2, 0, res, t)
           /\ \A o \in prog.releases[t] \cup Range(prog.offloads[t]) : Present(m2, o)
           /\ RanAs(m, m2, t)
<1> DEFINE outF == prog.out[t]["fast"]
           outB == prog.out[t]["backing"]
           mut  == prog.mutates[t]
<1>1. /\ m \in MemType /\ m.err = "none" /\ Kempt(m) /\ t # 0
      /\ outF \in SUBSET Objects /\ outB \in SUBSET Objects
      /\ prog.inputs[t] \in SUBSET Objects /\ mut \in SUBSET prog.inputs[t]
      /\ prog.inputs[t] \cap Produced(prog, t) = {} /\ outF \cap outB = {}
      /\ Produced(prog, t) = outF \cup outB
  <2>1. m \in MemType /\ m.err = "none" /\ Kempt(m)
      BY DEF OnPlan, Kempt
  <2>4. t # 0
      BY TaskNumber
  <2>2. /\ outF \in SUBSET Objects /\ outB \in SUBSET Objects
        /\ prog.inputs[t] \in SUBSET Objects
      BY ONLY SMTT(30), prog \in Programs, t \in 1 .. prog.n, TaskTypes
  <2>3. /\ mut \in SUBSET prog.inputs[t] /\ prog.inputs[t] \cap Produced(prog, t) = {}
        /\ outF \cap outB = {}
      BY ONLY Zenon, prog \in Programs, t \in 1 .. prog.n, TaskFacts DEF Produced
  <2> QED
      BY <2>1, <2>2, <2>3, <2>4 DEF Produced
<1>2. InFlight(t) = Produced(prog, t) /\ InFlight(0) = {}
    BY <1>1 DEF InFlight
<1>3. \A o \in Objects : IF o \in Produced(prog, t) THEN Awaited(m, o, t)
                         ELSE Follows(m, o, prog.plan[t - 1][o], t - 1)
    BY <1>2 DEF OnPlan, Accounted
<1>4. \A o \in prog.inputs[t] :
         Present(m, o) /\ Backed(m, o, prog.plan[t - 1][o].back) /\ prog.plan[t - 1][o].fast
    BY <1>1, <1>3 DEF Follows, Fetching, Leaving, Absent
<1>5. \A o \in outF : /\ AtRest(m, o) /\ m.fast[o].st = "reserved"
                      /\ m.fast[o].ver = m.ver[o] /\ m.backing[o].st = "none"
    BY <1>1, <1>3 DEF Awaited
<1>6. \A o \in outB : /\ AtRest(m, o) /\ m.backing[o].st = "reserved"
                      /\ m.backing[o].ver = m.ver[o] /\ m.fast[o].st = "none"
    BY <1>1, <1>3 DEF Awaited
<1>7. RanAs(m, m2, t) /\ m2 \in MemType
  <2>1. mut \cap outF = {} /\ \A o \in mut : m.fast[o].st = "live"
      BY <1>1
  <2>2. RanAs(m, m2, t)
      BY <1>1, <1>5, <1>6, <2>1, RanEffect
  <2>3. m2 \in MemType
      BY <1>1, OutputsLiveType, MutateType
  <2> QED
      BY <2>2, <2>3
<1> HIDE DEF outF, outB, mut
<1>8. Kempt(m2)
  <2>1. \A o \in Objects : (m2.fast[o].st = "none" <=> m.fast[o].st = "none")
                           /\ (m2.backing[o].st = "none" <=> m.backing[o].st = "none")
                           /\ m2.fast[o].inc = m.fast[o].inc
      BY <1>5, <1>6, <1>7 DEF RanAs, outF, outB
  <2>2. Bytes(Held(m2.fast)) = Bytes(Held(m.fast)) /\ Bytes(Held(m2.backing)) = Bytes(Held(m.backing))
      BY <2>1, SameBytes
  <2>3. Balanced(m2)
      BY <1>1, <1>7, <2>2 DEF Kempt, Balanced, RanAs
  <2>4. Owned(m2)
    <3> SUFFICES ASSUME NEW h \in m2.held
                 PROVE  m2.fast[h[1]].st # "none" /\ m2.fast[h[1]].inc = h[2]
        BY DEF Owned
    <3>1. h \in m.held /\ h[1] \in Objects
        BY <1>1, <1>7 DEF RanAs, MemType
    <3> QED
        BY <1>1, <2>1, <3>1 DEF Kempt, Owned
  <2> QED
      BY <1>1, <1>7, <2>3, <2>4 DEF Kempt, RanAs
<1>9. ASSUME NEW o \in Objects
      PROVE  /\ Follows(m2, o, Ran(prog, t, o), t)
             /\ o \in prog.releases[t] \cup Range(prog.offloads[t]) => Present(m2, o)
  <2> DEFINE r == prog.plan[t - 1][o]
             n == Ran(prog, t, o)
  <2>1. AtRest(m2, o) <=> AtRest(m, o)
      BY <1>7 DEF AtRest, RanAs
  <2>2. CASE o \in outF
    <3>1. n.fast /\ n.back = "none"
        BY <1>1, <2>2 DEF Ran, outF
    <3>2. o \notin mut /\ o \notin outB
        BY <1>1, <2>2
    <3>3. Present(m2, o) /\ Backed(m2, o, "none")
        BY SMTT(30), <1>5, <1>7, <2>1, <2>2, <3>2 DEF Present, Backed, RanAs, outF, outB, mut
    <3> QED
        BY <3>1, <3>3 DEF Follows
  <2>3. CASE o \in outB
    <3>1. ~ n.fast /\ n.back = "current"
        BY <1>1, <2>3 DEF Ran, outF, outB
    <3>2. o \notin mut /\ o \notin outF
        BY <1>1, <2>3
    <3>3. Absent(m2, o) /\ Backed(m2, o, "current")
        BY SMTT(30), <1>6, <1>7, <2>1, <2>3, <3>2 DEF Absent, Backed, RanAs, outF, outB, mut
    <3>4. o \notin prog.releases[t] \cup Range(prog.offloads[t])
        BY <3>1, TaskFacts DEF CoherentTask
    <3> QED
        BY <3>1, <3>3, <3>4 DEF Follows
  <2>4. CASE o \in prog.inputs[t]
    <3>1. o \notin outF /\ o \notin outB /\ o \notin Produced(prog, t)
        BY <1>1, <2>4
    <3>2. n.fast /\ n.back = IF o \in mut /\ r.back = "current" THEN "stale" ELSE r.back
        BY <1>4, <2>4, <3>1 DEF Ran, mut
    <3>3. Present(m, o) /\ Backed(m, o, r.back)
        BY <1>4, <2>4
    <3>4. Present(m2, o)
        BY SMTT(30), <1>7, <2>1, <3>1, <3>3 DEF Present, RanAs, outF, outB, mut
    <3>5. Backed(m2, o, n.back)
        BY <1>7, <3>1, <3>2, <3>3 DEF Backed, RanAs, outF, outB, mut
    <3> QED
        BY <3>2, <3>4, <3>5 DEF Follows
  <2>5. CASE o \notin outF /\ o \notin outB /\ o \notin prog.inputs[t]
    <3>1. o \notin mut /\ o \notin Produced(prog, t)
        BY <1>1, <2>5
    <3>2. Untouched(m, m2, o)
        BY <1>7, <2>5, <3>1 DEF Untouched, RanAs, outF, outB, mut
    <3>3. n.fast = r.fast /\ n.back = r.back /\ n.settled = (r.settled \/ FALSE)
        BY <2>5, <3>1 DEF Ran, mut
    <3>4. Follows(m, o, r, t - 1)
        BY <1>3, <3>1
    <3>5. Follows(m2, o, r, t - 1)
      <4>1. Accounted(m, o, 0, r, t - 1)
          BY <1>2, <3>4 DEF Accounted
      <4>2. Accounted(m2, o, 0, r, t - 1)
          BY <3>2, <4>1, UntouchedAccounted
      <4> QED
          BY <1>2, <4>2 DEF Accounted
    <3>6. Follows(m2, o, r, t)
        BY <2>5, <3>5, FollowsOn
    <3>7. Follows(m2, o, n, t)
        BY <3>3, <3>6 DEF Follows
    <3>8. ASSUME o \in prog.releases[t] \cup Range(prog.offloads[t]) PROVE Present(m2, o)
      <4>1. n.fast /\ n.settled
          BY <3>8, TaskFacts DEF CoherentTask
      <4>2. r.fast /\ r.settled
          BY <3>3, <4>1
      <4>3. t \in DirectivesOf(o) /\ t \notin UsesOf(o) /\ t > t - 1
          BY SMTT(30), <2>5, <3>8 DEF DirectivesOf, UsesOf, Tasks
      <4>4. ~ UsedFirst(o, t - 1)
        <5> SUFFICES ASSUME UsedFirst(o, t - 1) PROVE FALSE
            OBVIOUS
        <5>1. PICK u \in UsesOf(o) : t - 1 < u /\ u <= t
            BY <4>3 DEF UsedFirst
        <5>2. u \in Nat
            BY ProgramTypes, SMTT(30) DEF UsesOf, Tasks
        <5> QED
            BY SMTT(30), <4>3, <5>1, <5>2
      <4> HIDE DEF r
      <4> QED
          BY <3>5, <4>2, <4>4 DEF Follows
    <3> QED
        BY <3>7, <3>8
  <2> QED
      BY <2>2, <2>3, <2>4, <2>5
<1>10. OnPlan(m2, 0, res, t)
    BY <1>2, <1>8, <1>9 DEF OnPlan, Accounted
<1>11. \A o \in prog.releases[t] \cup Range(prog.offloads[t]) : Present(m2, o)
    BY <1>9, DirectiveTypes
<1> QED
    BY <1>7, <1>10, <1>11

\* Directives on the objects of R move memory on: every other object stays put.
LEMMA ManyTouched ==
    ASSUME NEW m, NEW m2, NEW res, NEW new, NEW k, NEW R, OnPlan(m, 0, res, k), Kempt(m2),
           \A q \in Objects \ R : Untouched(m, m2, q) /\ new[q] = res[q],
           \A q \in R : Follows(m2, q, new[q], k)
    PROVE  OnPlan(m2, 0, new, k)
<1>1. InFlight(0) = {}
    BY DEF InFlight
<1> SUFFICES ASSUME NEW q \in Objects \ R PROVE Accounted(m2, q, 0, new[q], k)
    BY <1>1 DEF OnPlan, Accounted
<1>2. Accounted(m, q, 0, res[q], k) /\ Untouched(m, m2, q)
    BY DEF OnPlan
<1>3. Accounted(m2, q, 0, res[q], k)
    BY <1>2, UntouchedAccounted
<1> QED
    BY <1>3

\* The backing slots of D are given up.
Freed(m, m2, D) ==
    /\ m2.used = [m.used EXCEPT !["backing"] = m.used["backing"] - Bytes(D)]
    /\ m2.backing = [o \in Objects |-> IF o \in D THEN NoSlot ELSE m.backing[o]]
    /\ m2.fast = m.fast /\ m2.held = m.held /\ m2.ver = m.ver
    /\ m2.deferred = m.deferred /\ m2.h2dq = m.h2dq /\ m2.h2din = m.h2din
    /\ m2.d2hq = m.d2hq /\ m2.d2hin = m.d2hin /\ m2.err = m.err

\* They leave the ledger as they came.
LEMMA FreeEffect ==
    ASSUME prog \in Programs, NEW m, Kempt(m), NEW D \in SUBSET Objects,
           \A o \in D : m.backing[o].st # "none", NEW m2 \in MemType,
           m2 = [Release(m, "backing", Bytes(D)) EXCEPT
                   !.backing = [o \in Objects |-> IF o \in D THEN NoSlot ELSE @[o]]]
    PROVE  Freed(m, m2, D) /\ Kempt(m2)
<1> DEFINE d == [m EXCEPT !.used["backing"] = m.used["backing"] - Bytes(D)]
           b == [o \in Objects |-> IF o \in D THEN NoSlot ELSE m.backing[o]]
<1>1. m \in MemType
    BY DEF Kempt
<1>2. /\ Held(m.backing) \in SUBSET Objects /\ D \in SUBSET Held(m.backing)
      /\ Bytes(D) <= Bytes(Held(m.backing))
      /\ Bytes(Held(m.backing) \ D) = Bytes(Held(m.backing)) - Bytes(D)
  <2>1. Held(m.backing) \in SUBSET Objects /\ D \in SUBSET Held(m.backing)
      BY DEF Held
  <2> QED
      BY <2>1, BytesMonotone
<1>3. Bytes(D) \in Nat /\ Bytes(Held(m.backing)) \in Nat
    BY <1>2, BytesFacts
<1>4. m.used["backing"] = Bytes(Held(m.backing))
    BY DEF Kempt, Balanced
<1>5. Release(m, "backing", Bytes(D)) = d
    BY <1>2, <1>4 DEF Release
<1>6. d \in MemType
    BY <1>1, <1>3, <1>5, ChargeType DEF Locations
<1>7. /\ d.used = [m.used EXCEPT !["backing"] = m.used["backing"] - Bytes(D)]
      /\ d.held = m.held /\ d.fast = m.fast /\ d.backing = m.backing
      /\ d.ver = m.ver /\ d.deferred = m.deferred /\ d.h2dq = m.h2dq /\ d.h2din = m.h2din
      /\ d.d2hq = m.d2hq /\ d.d2hin = m.d2hin /\ d.err = m.err
    BY <1>1 DEF MemType
<1> HIDE DEF d
<1>8. m2 = [d EXCEPT !.backing = b]
    BY <1>5, <1>7
<1> HIDE DEF b
<1>9. Freed(m, m2, D)
  <2>1. /\ m2.held = d.held /\ m2.fast = d.fast /\ m2.used = d.used /\ m2.backing = b
        /\ m2.ver = d.ver /\ m2.deferred = d.deferred /\ m2.h2dq = d.h2dq
        /\ m2.h2din = d.h2din /\ m2.d2hq = d.d2hq /\ m2.d2hin = d.d2hin /\ m2.err = d.err
      BY <1>6, <1>8 DEF MemType
  <2> QED
      BY <1>7, <2>1 DEF Freed, b
<1>10. Balanced(m2)
  <2>1. Held(m2.backing) = Held(m.backing) \ D
      BY <1>9, SMTT(30) DEF Held, Freed, NoSlot
  <2>2. m.used \in [Locations -> Nat] /\ "fast" \in Locations /\ "backing" \in Locations
      BY <1>1 DEF MemType, Locations
  <2>3. m2.used["backing"] = m.used["backing"] - Bytes(D) /\ m2.used["fast"] = m.used["fast"]
      BY <1>9, <2>2, SMTT(30) DEF Freed
  <2>4. m.used["backing"] <= prog.cap["backing"] /\ prog.cap["backing"] \in Nat
      BY ProgramTypes DEF Kempt, Balanced, Locations
  <2>5. m2.used["backing"] <= prog.cap["backing"]
      BY SMTT(30), <1>2, <1>3, <1>4, <2>3, <2>4
  <2> QED
      BY <1>2, <1>4, <1>9, <2>1, <2>3, <2>5 DEF Kempt, Balanced, Freed
<1> QED
    BY <1>9, <1>10, SMTT(30) DEF Kempt, Owned, Freed

\* The residency after a task's release or offload of o, arm by arm.
LEMMA RetiredArms ==
    ASSUME prog \in Programs, NEW t \in 1 .. prog.n, NEW o
    PROVE  /\ o \in prog.releases[t] =>
                /\ ~ Retired(prog, t, o).fast
                /\ Retired(prog, t, o).back = IF Kept(prog, o, t) THEN Ran(prog, t, o).back ELSE "none"
           /\ o \in Range(prog.offloads[t]) =>
                ~ Retired(prog, t, o).fast /\ Retired(prog, t, o).back = "current"
           /\ o \notin prog.releases[t] \cup Range(prog.offloads[t]) =>
                Retired(prog, t, o) = Ran(prog, t, o)
<1>1. prog.releases[t] \cap Range(prog.offloads[t]) = {}
    BY TaskFacts
<1> DEFINE r == Ran(prog, t, o)
<1>2. Retired(prog, t, o) =
        CASE o \in prog.releases[t] ->
               [fast |-> FALSE, settled |-> FALSE, back |-> IF Kept(prog, o, t) THEN r.back ELSE "none"]
          [] o \in Range(prog.offloads[t]) -> [fast |-> FALSE, settled |-> FALSE, back |-> "current"]
          [] OTHER -> r
    BY DEF Retired
<1> HIDE DEF r
<1>3. CASE o \in prog.releases[t]
    BY SMTT(30), <1>1, <1>2, <1>3 DEF r
<1>4. CASE o \in Range(prog.offloads[t])
    BY SMTT(30), <1>1, <1>2, <1>4 DEF r
<1>5. CASE o \notin prog.releases[t] \cup Range(prog.offloads[t])
    BY <1>2, <1>5 DEF r
<1> QED
    BY <1>3, <1>4, <1>5

\* The releases of a task find their objects, and leave what the plan predicts: the
\* backing copy goes too when nothing refers to the object any more.
LEMMA ReleaseOnPlan ==
    ASSUME prog \in Programs, NEW t \in 1 .. prog.n, NEW m, NEW res,
           \A o \in Objects : res[o] = Ran(prog, t, o), OnPlan(m, 0, res, t),
           \A o \in prog.releases[t] \cup Range(prog.offloads[t]) : Present(m, o),
           NEW new, \A o \in Objects : new[o] = IF o \in prog.releases[t] THEN Retired(prog, t, o)
                                                ELSE Ran(prog, t, o),
           NEW m2, m2 = ReleaseDirectives(m, t)
    PROVE  /\ OnPlan(m2, 0, new, t) /\ m2.ver = m.ver
           /\ \A o \in Range(prog.offloads[t]) : Present(m2, o)
<1> DEFINE R    == prog.releases[t]
           dead == {o \in R : DeadEverywhere(m, o, t)}
           d    == DropFast(m, R)
<1>1. /\ Kempt(m) /\ m \in MemType /\ m.err = "none" /\ R \in SUBSET Objects
      /\ Range(prog.offloads[t]) \in SUBSET Objects /\ R \cap Range(prog.offloads[t]) = {}
      /\ InFlight(0) = {}
    BY DirectiveTypes, TaskFacts DEF OnPlan, Kempt, InFlight
<1>2. \A o \in R : m.fast[o].st = "live"
    BY DEF Present
<1>3. Dropped(m, d, R) /\ Kempt(d)
    BY <1>1, <1>2, DropFastEffect
<1>4. m2 \in MemType
    BY <1>1, ReleaseDirectivesType
<1>5. m2 = [Release(d, "backing", Bytes(dead)) EXCEPT
              !.backing = [o \in Objects |-> IF o \in dead THEN NoSlot ELSE @[o]]]
    BY <1>1, <1>2 DEF ReleaseDirectives
<1>6. dead \in SUBSET Objects /\ \A o \in dead : d.backing[o].st # "none"
    BY <1>1, <1>3 DEF DeadEverywhere, Dropped
<1> HIDE DEF d
<1>7. Freed(d, m2, dead) /\ Kempt(m2)
  <2> HIDE DEF dead
  <2> QED
      BY SMTT(30), <1>3, <1>4, <1>5, <1>6, FreeEffect
<1>8. /\ \A o \in R : m2.fast[o].st = "none"
      /\ \A o \in Objects \ R : m2.fast[o] = m.fast[o] /\ m2.backing[o] = m.backing[o]
      /\ \A o \in R \ dead : m2.backing[o] = m.backing[o]
      /\ \A o \in dead : m2.backing[o].st = "none"
      /\ m2.ver = m.ver /\ m2.deferred = m.deferred /\ m2.h2dq = m.h2dq /\ m2.h2din = m.h2din
      /\ m2.d2hq = m.d2hq /\ m2.d2hin = m.d2hin
  <2>1. dead \in SUBSET R
      OBVIOUS
  <2> HIDE DEF dead, R
  <2> QED
      BY SMTT(30), <1>1, <1>3, <1>7, <2>1 DEF Dropped, Freed, NoSlot
<1>9. \A q \in Objects \ R : Untouched(m, m2, q) /\ new[q] = res[q]
    BY <1>8 DEF Untouched
<1>10. ASSUME NEW o \in R PROVE Follows(m2, o, new[o], t)
  <2>1. o \in Objects /\ Present(m, o)
      BY <1>1, <1>10
  <2>2. Follows(m, o, res[o], t)
      BY <1>1, <2>1 DEF OnPlan, Accounted
  <2>3. Backed(m, o, res[o].back)
      BY <2>1, <2>2 DEF Follows, Present, Absent, Fetching, Leaving
  <2>4. AtRest(m2, o)
      BY <1>8, <2>1 DEF AtRest, Present
  <2>5. ~ new[o].fast /\ new[o].back = IF Kept(prog, o, t) THEN res[o].back ELSE "none"
      BY <1>10, <2>1, RetiredArms
  <2>6. o \in dead <=> ~ Kept(prog, o, t) /\ m.backing[o].st = "live"
    <3>1. ReferencedAfter(o, t) <=> \E u \in t + 1 .. prog.n :
             o \in prog.inputs[u] \cup Range(prog.offloads[u]) \cup Range(prog.prefetches[u])
      <4>1. \A u : u \in Tasks(prog) /\ u > t <=> u \in t + 1 .. prog.n
          BY ProgramTypes, SMTT(30) DEF Tasks
      <4> QED
          BY <4>1 DEF ReferencedAfter
    <3> QED
        BY <1>10, <3>1 DEF DeadEverywhere, Kept
  <2>7. m.backing[o].st \in {"none", "live"}
      BY <2>1 DEF Present
  <2>8. CASE o \in dead
    <3>1. new[o].back = "none"
        BY <2>5, <2>6, <2>8
    <3>2. m2.backing[o].st = "none" /\ m2.fast[o].st = "none"
        BY <1>8, <1>10, <2>8
    <3> QED
        BY <2>4, <2>5, <3>1, <3>2 DEF Follows, Absent, Backed
  <2>9. CASE o \notin dead
    <3>1. m2.backing[o] = m.backing[o] /\ m2.fast[o].st = "none" /\ m2.ver[o] = m.ver[o]
        BY <1>8, <1>10, <2>9
    <3>2. CASE Kept(prog, o, t)
        BY <2>3, <2>4, <2>5, <2>7, <3>1, <3>2 DEF Follows, Absent, Backed
    <3>3. CASE ~ Kept(prog, o, t)
      <4>1. m.backing[o].st = "none"
          BY <2>6, <2>7, <2>9, <3>3
      <4> QED
          BY <2>4, <2>5, <3>1, <3>3, <4>1 DEF Follows, Absent, Backed
    <3> QED
        BY <3>2, <3>3
  <2> QED
      BY <2>8, <2>9
<1> HIDE DEF R, dead
<1>11. OnPlan(m2, 0, new, t)
    BY <1>7, <1>9, <1>10, ManyTouched
<1>12. \A o \in Range(prog.offloads[t]) : Present(m2, o)
    BY SMTT(30), <1>1, <1>8 DEF Present, AtRest
<1> QED
    BY <1>8, <1>11, <1>12

\* Its offloads find theirs, and put them on the way out.
LEMMA OffloadOnPlan ==
    ASSUME prog \in Programs, NEW t \in 1 .. prog.n, NEW m, NEW res,
           \A o \in Objects : res[o] = IF o \in prog.releases[t] THEN Retired(prog, t, o)
                                       ELSE Ran(prog, t, o),
           OnPlan(m, 0, res, t), \A o \in Range(prog.offloads[t]) : Present(m, o),
           NEW new, \A o \in Objects : new[o] = Retired(prog, t, o),
           NEW m2, m2 = OffloadDirectives(m, t)
    PROVE  OnPlan(m2, 0, new, t) /\ m2.ver = m.ver
<1> DEFINE s == prog.offloads[t]
           R == Range(s)
           f == [o \in Objects |-> IF o \in R THEN [m.fast[o] EXCEPT !.st = "pending_outbound"]
                                   ELSE m.fast[o]]
           w == m.d2hq \o s
<1>1. /\ Kempt(m) /\ m \in MemType /\ m.err = "none" /\ R \in SUBSET Objects /\ s \in Seq(Objects)
      /\ NoRepeats(s) /\ m.d2hq \in Seq(Objects) /\ NoRepeats(m.d2hq) /\ m.fast \in [Objects -> Slot]
    BY DirectiveTypes, TaskTypes, TaskFacts DEF OnPlan, Kempt, MemType
<1>2. \A o \in R : m.fast[o].st = "live" /\ m.backing[o].st \in {"none", "live"} /\ AtRest(m, o)
    BY DEF Present
<1>3. m2 = [m EXCEPT !.fast = f, !.d2hq = w] /\ m2 \in MemType
    BY <1>1, <1>2, OffloadDirectivesType DEF OffloadDirectives
<1>4. /\ \A o \in R : f[o].st = "pending_outbound" /\ f[o].ver = m.fast[o].ver /\ f[o].inc = m.fast[o].inc
      /\ \A o \in Objects \ R : f[o] = m.fast[o]
  <2>1. \A x \in Slot : LET y == [x EXCEPT !.st = "pending_outbound"]
                        IN y.st = "pending_outbound" /\ y.ver = x.ver /\ y.inc = x.inc
      BY DEF Slot
  <2>2. \A o \in R : f[o] = [m.fast[o] EXCEPT !.st = "pending_outbound"] /\ m.fast[o] \in Slot
      BY <1>1
  <2>3. \A o \in Objects \ R : f[o] = m.fast[o]
      OBVIOUS
  <2> HIDE DEF f, R
  <2>4. ASSUME NEW o \in R
        PROVE  f[o].st = "pending_outbound" /\ f[o].ver = m.fast[o].ver /\ f[o].inc = m.fast[o].inc
    <3>1. f[o] = [m.fast[o] EXCEPT !.st = "pending_outbound"] /\ m.fast[o] \in Slot
        BY <2>2, <2>4
    <3> QED
        BY ONLY SMTT(30), <2>1, <3>1
  <2> QED
      BY <2>3, <2>4
<1>5. NoRepeats(w) /\ \A q : q \in Range(w) <=> q \in Range(m.d2hq) \/ q \in R
  <2>1. Range(m.d2hq) \cap R = {}
      BY <1>2 DEF AtRest
  <2> QED
      BY <1>1, <2>1, ConcatFacts
<1> HIDE DEF f, w, s, R
<1>6. /\ m2.fast = f /\ m2.d2hq = w /\ m2.backing = m.backing /\ m2.ver = m.ver /\ m2.used = m.used
      /\ m2.held = m.held /\ m2.deferred = m.deferred /\ m2.h2dq = m.h2dq /\ m2.h2din = m.h2din
      /\ m2.d2hin = m.d2hin /\ m2.err = m.err
    BY <1>1, <1>3 DEF MemType
<1>7. Kempt(m2)
  <2>1. \A o \in Objects : /\ m2.fast[o].st = "none" <=> m.fast[o].st = "none"
                           /\ m2.fast[o].inc = m.fast[o].inc
      BY SMTT(30), <1>2, <1>4, <1>6
  <2>2. Bytes(Held(m2.fast)) = Bytes(Held(m.fast))
      BY <2>1, SameBytes
  <2>3. Owned(m2)
    <3> SUFFICES ASSUME NEW h \in m2.held
                 PROVE  m2.fast[h[1]].st # "none" /\ m2.fast[h[1]].inc = h[2]
        BY DEF Owned
    <3>1. h \in m.held /\ h[1] \in Objects
        BY SMTT(30), <1>1, <1>6 DEF MemType
    <3> QED
        BY <1>1, <2>1, <3>1 DEF Kempt, Owned
  <2> QED
      BY <1>1, <1>3, <1>5, <1>6, <2>2, <2>3 DEF Kempt, Balanced
<1>8. \A q \in Objects \ R : Untouched(m, m2, q) /\ new[q] = res[q]
  <2>1. \A q \in Objects \ R : Untouched(m, m2, q)
      BY <1>4, <1>5, <1>6 DEF Untouched
  <2>2. \A q \in Objects \ R : new[q] = res[q]
      BY RetiredArms, SMTT(30) DEF R, s
  <2> QED
      BY <2>1, <2>2
<1>9. ASSUME NEW o \in R PROVE Follows(m2, o, new[o], t)
  <2>1. o \in Objects /\ Present(m, o)
      BY <1>1, <1>9 DEF R, s
  <2>2. ~ new[o].fast /\ new[o].back = "current"
      BY SMTT(30), <1>9, <2>1, RetiredArms DEF R, s
  <2>3. Leaving(m2, o) /\ m2.deferred[o] = 0
      BY <1>4, <1>5, <1>6, <1>9, <2>1 DEF Present, AtRest, Leaving
  <2> QED
      BY <2>2, <2>3 DEF Follows
<1> QED
    BY SMTT(30), <1>6, <1>7, <1>8, <1>9, ManyTouched

\* Its prefetches find nothing in fast memory, and a copy in backing memory or one on
\* its way there: those they queue, these they defer.
LEMMA PrefetchOnPlan ==
    ASSUME prog \in Programs, NEW t \in 1 .. prog.n, NEW m, NEW res,
           \A o \in Objects : res[o] = Retired(prog, t, o), OnPlan(m, 0, res, t),
           NEW m2, m2 = PrefetchDirectives(m, t)
    PROVE  OnPlan(m2, 0, prog.plan[t], t) /\ m2.ver = m.ver
<1> DEFINE s == prog.prefetches[t]
           R == Range(s)
           S == {o \in R : ~ OffloadInFlight(m, o)}
           d == [o \in Objects |-> IF o \in R /\ OffloadInFlight(m, o) THEN m.deferred[o] + 1
                                   ELSE m.deferred[o]]
           w == m.h2dq \o Pick(s, S)
<1>1. /\ Kempt(m) /\ m \in MemType /\ m.err = "none" /\ R \in SUBSET Objects /\ s \in Seq(Objects)
      /\ NoRepeats(s) /\ m.h2dq \in Seq(Objects) /\ NoRepeats(m.h2dq) /\ m.deferred \in [Objects -> Nat]
      /\ InFlight(0) = {}
    BY DirectiveTypes, TaskTypes, TaskFacts DEF OnPlan, Kempt, MemType, InFlight
<1>2. ASSUME NEW o \in R
      PROVE  /\ ~ res[o].fast /\ res[o].back = "current"
             /\ \/ Absent(m, o) /\ Backed(m, o, "current") /\ ~ OffloadInFlight(m, o)
                \/ Leaving(m, o) /\ m.deferred[o] = 0 /\ OffloadInFlight(m, o)
  <2>1. o \in Objects
      BY <1>1, <1>2
  <2>2. ~ res[o].fast /\ res[o].back = "current"
    <3>1. CoherentTask(prog, t)
        BY TaskFacts
    <3>2. res[o] = Retired(prog, t, o)
        BY <2>1
    <3> QED
        BY <1>2, <3>1, <3>2 DEF CoherentTask
  <2>3. Follows(m, o, res[o], t)
      BY <1>1, <2>1 DEF OnPlan, Accounted
  <2>4. CASE Absent(m, o) /\ Backed(m, o, "current")
      BY <2>2, <2>4 DEF Absent, Backed, OffloadInFlight
  <2>5. CASE Leaving(m, o) /\ m.deferred[o] = 0
      BY <2>2, <2>5 DEF Leaving, OffloadInFlight
  <2> QED
      BY <2>2, <2>3, <2>4, <2>5 DEF Follows
<1>3. ~ \E o \in R : \/ m.fast[o].st \in {"live", "inbound"}
                     \/ ~ OffloadInFlight(m, o) /\ m.backing[o].st # "live"
  <2> SUFFICES ASSUME NEW o \in R PROVE /\ m.fast[o].st \notin {"live", "inbound"}
                                        /\ OffloadInFlight(m, o) \/ m.backing[o].st = "live"
      OBVIOUS
  <2> QED
      BY <1>2 DEF Absent, Backed, Leaving
<1>4. m2 = [m EXCEPT !.deferred = d, !.h2dq = w] /\ m2 \in MemType
    BY <1>1, <1>3, PrefetchDirectivesType DEF PrefetchDirectives
<1>5. /\ \A o \in Objects \ R : d[o] = m.deferred[o]
      /\ \A o \in R : d[o] = IF OffloadInFlight(m, o) THEN m.deferred[o] + 1 ELSE m.deferred[o]
    BY <1>1
<1>6. NoRepeats(w) /\ \A q : q \in Range(w) <=> q \in Range(m.h2dq) \/ q \in S
  <2>1. Pick(s, S) \in Seq(Objects) /\ Range(Pick(s, S)) = S /\ NoRepeats(Pick(s, S))
    <3>1. R \cap S = S
        OBVIOUS
    <3> HIDE DEF S
    <3> QED
        BY <1>1, <3>1, PickProperties
  <2>2. Range(m.h2dq) \cap S = {}
      BY <1>2 DEF Absent, AtRest
  <2> HIDE DEF S
  <2> QED
      BY <1>1, <2>1, <2>2, ConcatFacts
<1>7. \A q : q \in S <=> q \in R /\ ~ OffloadInFlight(m, q)
    OBVIOUS
<1> HIDE DEF d, w, S, R
<1>8. /\ m2.fast = m.fast /\ m2.d2hq = m.d2hq /\ m2.backing = m.backing /\ m2.ver = m.ver
      /\ m2.used = m.used /\ m2.held = m.held /\ m2.deferred = d /\ m2.h2dq = w
      /\ m2.h2din = m.h2din /\ m2.d2hin = m.d2hin /\ m2.err = m.err
    BY <1>1, <1>4 DEF MemType
<1>9. Kempt(m2)
    BY <1>1, <1>4, <1>6, <1>8 DEF Kempt, Balanced, Owned
<1>10. \A q \in Objects : prog.plan[t][q] = Prefetched(prog, t, q)
    BY TaskFacts DEF CoherentTask
<1>11. \A q \in Objects \ R : Untouched(m, m2, q) /\ prog.plan[t][q] = res[q]
  <2>1. \A q \in Objects \ R : Untouched(m, m2, q)
      BY <1>5, <1>6, <1>7, <1>8 DEF Untouched
  <2>2. \A q \in Objects \ R : prog.plan[t][q] = res[q]
      BY <1>10 DEF Prefetched, R
  <2> QED
      BY <2>1, <2>2
<1>12. ASSUME NEW o \in R PROVE Follows(m2, o, prog.plan[t][o], t)
  <2>1. o \in Objects
      BY <1>1, <1>12
  <2>2. /\ prog.plan[t][o].fast /\ ~ prog.plan[t][o].settled /\ prog.plan[t][o].back = "current"
    <3>1. prog.plan[t][o] = [fast |-> TRUE, settled |-> FALSE, back |-> Retired(prog, t, o).back]
        BY <1>10, <1>12, <2>1 DEF Prefetched, R
    <3> QED
        BY SMTT(30), <1>2, <1>12, <2>1, <3>1
  <2>3. CASE Absent(m, o) /\ Backed(m, o, "current") /\ ~ OffloadInFlight(m, o)
    <3>1. o \in Range(m2.h2dq) /\ m2.deferred[o] = m.deferred[o]
        BY <1>5, <1>6, <1>7, <1>8, <1>12, <2>3
    <3>2. Fetching(m2, o)
        BY <1>8, <2>3, <3>1 DEF Fetching, Absent, AtRest, Backed
    <3> QED
        BY <2>2, <3>2 DEF Follows
  <2>4. CASE Leaving(m, o) /\ m.deferred[o] = 0 /\ OffloadInFlight(m, o)
    <3>1. (o \in Range(m2.h2dq) <=> o \in Range(m.h2dq)) /\ m2.deferred[o] = 1
        BY SMTT(30), <1>5, <1>6, <1>7, <1>8, <1>12, <2>4
    <3>2. Leaving(m2, o)
        BY <1>8, <2>4, <3>1 DEF Leaving
    <3> QED
        BY <2>2, <3>1, <3>2 DEF Follows
  <2> QED
      BY <1>2, <1>12, <2>3, <2>4
<1> QED
    BY <1>8, <1>9, <1>11, <1>12, ManyTouched

\* The retirement of task t, with the restarts its handler makes, takes memory from the
\* residency planned before the task to the one planned after it.
LEMMA TaskDoneOnPlan ==
    ASSUME prog \in Programs, NEW t \in 1 .. prog.n, NEW m,
           OnPlan(m, t, prog.plan[t - 1], t - 1),
           \A o \in prog.inputs[t] : m.fast[o].st = "live",
           NEW m2, m2 = OnTaskDone(m, t)
    PROVE  /\ OnPlan(m2, 0, prog.plan[t], t) /\ (Ample => LanesBusy(m2))
           /\ \A o \in Objects : m2.ver[o] = IF o \in prog.mutates[t] THEN m.ver[o] + 1 ELSE m.ver[o]
<1> DEFINE r1 == [o \in Objects |-> Ran(prog, t, o)]
           r2 == [o \in Objects |-> IF o \in prog.releases[t] THEN Retired(prog, t, o)
                                    ELSE Ran(prog, t, o)]
           r3 == [o \in Objects |-> Retired(prog, t, o)]
           a1 == Mutate(OutputsLive(m, t), t)
           a2 == ReleaseDirectives(a1, t)
           a3 == OffloadDirectives(a2, t)
           a4 == PrefetchDirectives(a3, t)
           a5 == H2DTryStart(a4, FALSE)
<1>1. m2 = D2HTryStart(a5)
    BY DEF OnTaskDone
<1>2. \A o \in Objects : r1[o] = Ran(prog, t, o)
    OBVIOUS
<1>3. \A o \in Objects : r2[o] = IF o \in prog.releases[t] THEN Retired(prog, t, o)
                                 ELSE Ran(prog, t, o)
    OBVIOUS
<1>4. \A o \in Objects : r3[o] = Retired(prog, t, o)
    OBVIOUS
<1> HIDE DEF r1, r2, r3
<1>5. /\ OnPlan(a1, 0, r1, t) /\ RanAs(m, a1, t)
      /\ \A o \in prog.releases[t] \cup Range(prog.offloads[t]) : Present(a1, o)
    BY <1>2, RanOnPlan
<1> HIDE DEF a1
<1>6. /\ OnPlan(a2, 0, r2, t) /\ a2.ver = a1.ver
      /\ \A o \in Range(prog.offloads[t]) : Present(a2, o)
    BY SMTT(30), <1>2, <1>3, <1>5, ReleaseOnPlan
<1> HIDE DEF a2
<1>7. OnPlan(a3, 0, r3, t) /\ a3.ver = a2.ver
    BY SMTT(30), <1>3, <1>4, <1>6, OffloadOnPlan
<1> HIDE DEF a3
<1>8. OnPlan(a4, 0, prog.plan[t], t) /\ a4.ver = a3.ver
    BY SMTT(30), <1>4, <1>7, PrefetchOnPlan
<1> DEFINE p == prog.plan[t]
<1>9. OnPlan(a4, 0, p, t)
    BY <1>8
<1> HIDE DEF a4, p
<1>10. /\ OnPlan(a5, 0, p, t) /\ LiveKept(a4, a5)
       /\ a5.d2hq = a4.d2hq /\ a5.d2hin = a4.d2hin
       /\ Ample /\ a5.h2din = Nil => a5.h2dq = <<>>
    BY ONLY prog \in Programs, <1>9, FALSE \in BOOLEAN, H2DTryStartOnPlan, ZenonT(40)
<1> HIDE DEF a5
<1>11. OnPlan(a5, 0, p, t)
    BY <1>10
<1>12. /\ OnPlan(m2, 0, p, t) /\ LiveKept(a5, m2)
       /\ m2.h2dq = a5.h2dq /\ m2.h2din = a5.h2din
       /\ Ample /\ m2.d2hin = Nil => m2.d2hq = <<>>
    BY ONLY prog \in Programs, <1>1, <1>11, D2HTryStartOnPlan, ZenonT(40)
<1>13. m2.ver = a1.ver
    BY <1>6, <1>7, <1>8, <1>10, <1>12 DEF LiveKept
<1>14. Ample => LanesBusy(m2)
    BY <1>10, <1>12 DEF LanesBusy
<1>15. \A o \in Objects : m2.ver[o] = IF o \in prog.mutates[t] THEN m.ver[o] + 1 ELSE m.ver[o]
    BY <1>5, <1>13 DEF RanAs
<1> QED
    BY <1>12, <1>14, <1>15 DEF p
=============================================================================
