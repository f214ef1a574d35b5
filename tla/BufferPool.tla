------------------------------ MODULE BufferPool ------------------------------
(***************************************************************************)
(* The pool of fast buffers under its four regimes (slab, recording,       *)
(* placed, vmm) across the runs of a session, with the poison-on-free      *)
(* writes the engine queues on the compute stream.  The engine is present  *)
(* as what it asks of the pool: objects are born as task outputs or as     *)
(* fetched copies when the ledger admits them, and die in any order.       *)
(***************************************************************************)
EXTENDS Extents, VmmArena, TLC

CONSTANTS
    Tags,        \* object ids
    SizeOf,      \* bytes of each object
    Regimes,     \* regimes a session may start in
    Births,      \* births in one run
    Runs,        \* runs of a session
    Physical     \* device bytes a placement may extend over: the sizes of device

VARIABLES
    regime,      \* "slab" | "record" | "placed" | "vmm"
    poisons,     \* Engine.poison_on_free
    pool,        \* the BufferPool
    live,        \* buffer of each object, NoBuf when it has none
    stream,      \* poison writes queued on the compute stream, oldest first
    events,      \* guard events recorded so far
    placedAt,    \* offset of each recorded instance
    recorder,    \* PlacementRecorder: ordinal and instances
    births,      \* births in this run
    run,         \* runs begun
    status       \* "running" | "failed" | "idle" | "raised"

poolVars == <<regime, poisons, pool, live, stream, events, placedAt, recorder, births, run, status>>

NoBuf == [space |-> "none"]

\* A buffer: which memory, which addresses of it, its guard events, the slot's
\* handle (vmm), what the object is here as, and the instance it realises.
Buf(space, lo, hi, n, handle) ==
    [space |-> space, lo |-> lo, hi |-> hi, size |-> n, handle |-> handle,
     guards |-> {}, awaited |-> {}, use |-> "output", after |-> 0, key |-> <<>>]

\* Guard events the device has not reached.
Busy == {stream[i].ev : i \in DOMAIN stream}

Pooled(P) == UNION {Range(P.free[n]) : n \in Sizes}

EmptyPool(r) ==
    [slab |-> IF r = "slab" THEN {Extent(0, SlabBytes(Budget))} ELSE {},
     over |-> IF r = "slab" THEN {Extent(0, Aligned(Budget))} ELSE {},
     vendor |-> 0,
     free |-> [n \in Sizes |-> <<>>],
     incs |-> [t \in Tags |-> 0],
     ranges |-> {},
     kept |-> {},
     arena |-> NewArena]

(***************************************************************************)
(* The dynamic path: free lists, the slab, the flush, the overflow arena   *)
(* and the vendor allocator.                                               *)
(***************************************************************************)
\* Fault seeded for PoisonOrdered: the flush ignores pending guards.
FlushableEvenGuarded(b, busy) == b.space \in {"slab", "over"}

Flushable(b, busy) == b.space \in {"slab", "over"} /\ b.guards \cap busy = {}

\* Every pooled buffer that may go returns to the allocator it came from.
Flush(P, busy) ==
    LET gone == {b \in Pooled(P) : Flushable(b, busy)}
        Back(space, holes) ==
            FoldSet(LAMBDA b, H : Coalesce(H, Extent(b.lo, b.lo + Aligned(b.size))), holes,
                    {b \in gone : b.space = space})
    IN  [P EXCEPT !.free = [n \in Sizes |-> SelectSeq(P.free[n], LAMBDA b : b \notin gone)],
                  !.slab = Back("slab", P.slab), !.over = Back("over", P.over)]

\* n bytes of a slab's or the overflow arena's best hole.
CarveSlab(P, n) ==
    LET h == BestFit(P.slab, Aligned(n)) IN
    [pool |-> [P EXCEPT !.slab = CutFrom(P.slab, h, Aligned(n))],
     buf  |-> Buf("slab", h.lo, h.lo + Aligned(n), n, 0)]

CarveOver(P, n) ==
    LET h == BestFit(P.over, Aligned(n)) IN
    [pool |-> [P EXCEPT !.over = CutFrom(P.over, h, Aligned(n))],
     buf  |-> Buf("over", h.lo, h.lo + Aligned(n), n, 0)]

VendorAlloc(P, n) ==
    [pool |-> [P EXCEPT !.vendor = @ + 1], buf |-> Buf("vendor", P.vendor, P.vendor + 1, n, 0)]

Fits(holes, n) == Fitting(holes, Aligned(n)) # {}

Carve(P, n, busy) ==
    LET Q == Flush(P, busy) IN
    CASE Fits(P.slab, n) -> CarveSlab(P, n)
      [] ~ Fits(P.slab, n) /\ Fits(Q.slab, n) -> CarveSlab(Q, n)
      [] ~ Fits(P.slab, n) /\ ~ Fits(Q.slab, n) /\ Fits(Q.over, n) -> CarveOver(Q, n)
      [] OTHER -> VendorAlloc(Q, n)

GetDynamic(r, P, n, busy) ==
    CASE P.free[n] # <<>> -> [pool |-> [P EXCEPT !.free[n] = Front(@)], buf |-> Last(P.free[n])]
      [] P.free[n] = <<>> /\ r = "slab" -> Carve(P, n, busy)
      [] OTHER -> VendorAlloc(P, n)

(***************************************************************************)
(* Static placement.                                                       *)
(***************************************************************************)
NextKey(P, t) == <<t, P.incs[t]>>

Planned(P, t) == NextKey(P, t) \in DOMAIN placedAt

\* Assigned mode refuses an offset while an overlapping instance is live.
CanGet(P, t) ==
    regime = "placed" /\ Planned(P, t) =>
        LET lo == placedAt[NextKey(P, t)] IN
        \A r \in P.ranges : Disjoint(r, Extent(lo, lo + SizeOf[t]))

Before(d, e) == d.lo < e.lo \/ (d.lo = e.lo /\ d.hi < e.hi)

\* Lifetimes a and b of the recorded stream overlap.
Conflict(a, b) == ~ (b.death <= a.birth \/ a.death <= b.birth)

\* Fault seeded for MemoryPartitioned: a gap that holds the instance unaligned
\* will do.
SweepTight(rec, placed) ==
    LET conflicts == SetToSortSeq({Extent(p.lo, p.hi) : p \in {q \in placed : Conflict(rec, q.rec)}}, Before)
        Past(acc, e) == IF acc.found \/ acc.at < e.lo THEN [acc EXCEPT !.found = TRUE]
                        ELSE [acc EXCEPT !.at = Max({@, e.hi})]
    IN  FoldLeft(Past, [at |-> 0, found |-> FALSE], conflicts).at

\* The candidate moves up past the placed instances rec conflicts with, in order
\* of address, until it fits below the next one.
Sweep(rec, placed) ==
    LET conflicts == SetToSortSeq({Extent(p.lo, p.hi) : p \in {q \in placed : Conflict(rec, q.rec)}}, Before)
        Past(acc, e) == IF acc.found \/ acc.at + Aligned(rec.size) <= e.lo THEN [acc EXCEPT !.found = TRUE]
                        ELSE [acc EXCEPT !.at = Max({@, e.hi})]
    IN  FoldLeft(Past, [at |-> 0, found |-> FALSE], conflicts).at

\* Instances placed one after the other in the given order.
Pack(order) ==
    FoldLeft(LAMBDA placed, rec :
               LET lo == Sweep(rec, placed) IN
               placed \cup {[rec |-> rec, lo |-> lo, hi |-> lo + Aligned(rec.size)]},
             {}, order)

PackedExtent(placed) == Max({0} \cup {p.hi : p \in placed})

\* The three deterministic orders; the restarts may improve on them.
BySize(a, b) == a.size > b.size \/ (a.size = b.size /\ a.birth < b.birth)

ByArea(a, b) ==
    LET area(r) == (r.death - r.birth) * r.size IN
    area(a) > area(b) \/ (area(a) = area(b) /\ a.birth < b.birth)

ByBirth(a, b) == a.birth < b.birth

Orders(insts) ==
    {SetToSortSeq(insts, BySize), SetToSortSeq(insts, ByArea), SetToSortSeq(insts, ByBirth)}

\* Packings compute_placement may settle on.
Placements(insts) ==
    LET best == Min({PackedExtent(Pack(o)) : o \in Orders(insts)}) IN
    {q \in {Pack(o) : o \in SetToSeqs(insts)} : PackedExtent(q) <= best}

OffsetsOf(placed) == [k \in {p.rec.key : p \in placed} |->
                        (CHOOSE p \in placed : p.rec.key = k).lo]

\* Guards of earlier tenants of the range re-attach; completed ones are dropped.
GetPlaced(P, t, busy) ==
    LET k  == NextKey(P, t)
        lo == placedAt[k]
        e  == Extent(lo, lo + SizeOf[t])
        pending == {g \in P.kept : g.ev \in busy}
    IN  [pool |-> [P EXCEPT !.incs[t] = @ + 1, !.ranges = @ \cup {[key |-> k] @@ e},
                            !.kept = pending],
         buf  |-> [Buf("placed", e.lo, e.hi, SizeOf[t], 0) EXCEPT
                     !.key = k, !.guards = {g.ev : g \in {h \in pending : ~ Disjoint(h, e)}}]]

PutPlaced(P, b, busy) ==
    [P EXCEPT !.ranges = {r \in @ : r.key # b.key},
              !.kept = @ \cup {[ev |-> g, lo |-> b.lo, hi |-> b.hi] : g \in b.guards \cap busy}]

(***************************************************************************)
(* get, get_escaped and put.                                               *)
(***************************************************************************)
GetVmm(P, n, busy) ==
    LET got == ArenaGet(P.arena, n, busy) IN
    [pool |-> [P EXCEPT !.arena = got.arena],
     buf  |-> IF got.slot.handle = 0 THEN NoBuf
              ELSE Buf("vmm", got.slot.va, got.slot.va + Span(n), n, got.slot.handle)]

Get(P, t, busy) ==
    CASE regime = "vmm" -> GetVmm(P, SizeOf[t], busy)
      [] regime = "record" ->
            LET got == GetDynamic(regime, [P EXCEPT !.incs[t] = @ + 1], SizeOf[t], busy)
            IN  [got EXCEPT !.buf.key = NextKey(P, t)]
      [] regime = "placed" /\ Planned(P, t) -> GetPlaced(P, t, busy)
      [] OTHER -> GetDynamic(regime, P, SizeOf[t], busy)

GetEscaped(P, t, busy) ==
    GetDynamic(regime, [P EXCEPT !.incs[t] = @ + 1], SizeOf[t], busy)

\* Probing a guard event that is really a tuple of events is an error.
Probes(b) == b.space = "placed" /\ Cardinality(b.guards) > 1

Put(P, b, busy) ==
    CASE b.space = "vmm" ->
            [P EXCEPT !.arena = ArenaPut(@, b.size, [va |-> b.lo, handle |-> b.handle],
                                         b.guards, busy)]
      [] b.space = "placed" -> PutPlaced(P, b, busy)
      [] OTHER -> [P EXCEPT !.free[b.size] = Append(@, [b EXCEPT !.awaited = {}, !.use = "output", !.after = 0])]

RecordGet(rec, k, n) ==
    [ordinal |-> rec.ordinal + 1,
     insts |-> rec.insts \cup {[key |-> k, size |-> n, birth |-> rec.ordinal + 1, death |-> 1000]}]

RecordPut(rec, k) ==
    [ordinal |-> rec.ordinal + 1,
     insts |-> {IF i.key = k THEN [i EXCEPT !.death = rec.ordinal + 1] ELSE i : i \in rec.insts}]

(***************************************************************************)
(* What the engine does with the pool.                                     *)
(***************************************************************************)
LiveTags == {t \in Tags : live[t] # NoBuf}

LedgerUsed == MapThenSumSet(LAMBDA t : SizeOf[t], LiveTags)

Admitted(t) ==
    /\ status = "running"
    /\ live[t] = NoBuf
    /\ births < Births
    /\ LedgerUsed + SizeOf[t] <= Budget

Recorded(t) ==
    IF regime = "record" THEN RecordGet(recorder, NextKey(pool, t), SizeOf[t]) ELSE recorder

\* The object is a task's output: the task runs on the compute stream, behind
\* every poison write queued so far, and the buffer keeps its guards.
Born(t, got) ==
    /\ live' = [live EXCEPT ![t] = IF got.buf = NoBuf THEN NoBuf
                                   ELSE [got.buf EXCEPT !.after = events]]
    /\ UNCHANGED <<stream, events>>

\* The object is copied in on another stream, which first waits for the guards.
Fetched(t, got) ==
    /\ live' = [live EXCEPT ![t] = IF got.buf = NoBuf THEN NoBuf
                                   ELSE [got.buf EXCEPT !.awaited = got.buf.guards,
                                                        !.guards = {}, !.use = "copy",
                                                        !.after = Max({0} \cup got.buf.guards)]]
    /\ UNCHANGED <<stream, events>>

Obtain(t, got) ==
    /\ pool' = got.pool
    /\ births' = births + 1
    /\ recorder' = Recorded(t)
    /\ status' = IF got.buf = NoBuf THEN "failed" ELSE status
    /\ UNCHANGED <<regime, poisons, placedAt, run>>

ReserveOutput(t) ==
    /\ Admitted(t) /\ CanGet(pool, t)
    /\ \E got \in {Get(pool, t, Busy)} : Obtain(t, got) /\ Born(t, got)

StartH2D(t) ==
    /\ Admitted(t) /\ CanGet(pool, t)
    /\ \E got \in {Get(pool, t, Busy)} : Obtain(t, got) /\ Fetched(t, got)

\* The quiescence valve serves a blocked instance dynamically.
EscapeOutput(t) ==
    /\ Admitted(t) /\ ~ CanGet(pool, t)
    /\ \E got \in {GetEscaped(pool, t, Busy)} : Obtain(t, got) /\ Born(t, got)

EscapeH2D(t) ==
    /\ Admitted(t) /\ ~ CanGet(pool, t)
    /\ \E got \in {GetEscaped(pool, t, Busy)} : Obtain(t, got) /\ Fetched(t, got)

\* A release, an eviction or a completed offload, once the task or the copy
\* that filled the buffer is done: poison, then put.
Drop(t) ==
    /\ status = "running"
    /\ live[t] # NoBuf
    /\ \A ev \in Busy : ev > live[t].after
    /\ LET write == [ev |-> events + 1, space |-> live[t].space,
                     lo |-> live[t].lo, hi |-> live[t].hi]
           b == IF poisons THEN [live[t] EXCEPT !.guards = {events + 1}] ELSE live[t]
           busy == IF poisons THEN Busy \cup {events + 1} ELSE Busy
       IN  /\ stream' = IF poisons THEN Append(stream, write) ELSE stream
           /\ events' = IF poisons THEN events + 1 ELSE events
           /\ pool' = Put(pool, b, busy)
           /\ recorder' = IF regime = "record" THEN RecordPut(recorder, b.key) ELSE recorder
    /\ live' = [live EXCEPT ![t] = NoBuf]
    /\ UNCHANGED <<regime, poisons, placedAt, births, run, status>>

\* The device performs the oldest queued poison write.
PoisonLands ==
    /\ stream # <<>>
    /\ stream' = Tail(stream)
    /\ UNCHANGED <<regime, poisons, pool, live, events, placedAt, recorder, births, run, status>>

\* The run ends or has failed: the device is synchronised, then every held
\* buffer returns.
EndRun ==
    /\ status \in {"running", "failed"}
    /\ stream' = <<>>
    /\ IF \E t \in LiveTags : Probes(live[t])
       THEN /\ status' = "raised"
            /\ UNCHANGED <<pool, live, recorder>>
       ELSE /\ status' = "idle"
            /\ live' = [t \in Tags |-> NoBuf]
            /\ LET order == SetToSeq(LiveTags) IN
               /\ pool' = FoldLeft(LAMBDA P, t : Put(P, live[t], {}), pool, order)
               /\ recorder' = IF regime = "record"
                              THEN FoldLeft(LAMBDA R, t : RecordPut(R, live[t].key), recorder, order)
                              ELSE recorder
    /\ UNCHANGED <<regime, poisons, events, placedAt, births, run>>

\* The next execute() on the session restarts the incarnation counters.
NextRun ==
    /\ status = "idle" /\ regime # "record" /\ run < Runs
    /\ run' = run + 1
    /\ status' = "running"
    /\ pool' = [pool EXCEPT !.incs = [t \in Tags |-> 0], !.ranges = {}]
    /\ births' = 0
    /\ UNCHANGED <<regime, poisons, live, stream, events, placedAt, recorder>>

\* An instance asked for in another size than the recorded one is refused.
ShapeChanges(t) ==
    /\ Admitted(t) /\ CanGet(pool, t)
    /\ regime = "placed" /\ Planned(pool, t)
    /\ status' = "failed"
    /\ UNCHANGED <<regime, poisons, pool, live, stream, events, placedAt, recorder, births, run>>

\* The recorded dry run does not fit the device: no session follows (PlacementError).
PlacementFails ==
    /\ status = "idle" /\ regime = "record"
    /\ \E q \in Placements(recorder.insts), room \in Physical : PackedExtent(q) > room
    /\ status' = "raised"
    /\ UNCHANGED <<regime, poisons, pool, live, stream, events, placedAt, recorder, births, run>>

\* The recorded dry run becomes a placement, and a session that follows it.
PlaceRecorded ==
    /\ status = "idle" /\ regime = "record"
    /\ \E q \in Placements(recorder.insts), room \in Physical :
         PackedExtent(q) <= room /\ placedAt' = OffsetsOf(q)
    /\ poisons' \in BOOLEAN
    /\ births' = 0
    /\ regime' = "placed"
    /\ pool' = EmptyPool("placed")
    /\ run' = run + 1
    /\ status' = "running"
    /\ UNCHANGED <<live, stream, events, recorder>>

PoolInit ==
    /\ regime \in Regimes
    /\ poisons \in BOOLEAN
    /\ regime = "record" => ~ poisons
    /\ \E n \in 0 .. 1 :
         /\ regime # "vmm" => n = 0
         /\ pool = [EmptyPool(regime) EXCEPT !.arena = Prewarm(@, [m \in Sizes |-> n])]
    /\ live = [t \in Tags |-> NoBuf]
    /\ stream = <<>>
    /\ events = 0
    /\ placedAt = <<>>
    /\ recorder = [ordinal |-> 0, insts |-> {}]
    /\ births = 0
    /\ run = 1
    /\ status = "running"

PoolNext ==
    \/ \E t \in Tags : \/ ReserveOutput(t) \/ StartH2D(t)
                       \/ EscapeOutput(t) \/ EscapeH2D(t) \/ Drop(t) \/ ShapeChanges(t)
    \/ PoisonLands
    \/ EndRun
    \/ NextRun
    \/ PlacementFails
    \/ PlaceRecorded

PoolSpec == PoolInit /\ [][PoolNext]_poolVars

-----------------------------------------------------------------------------

\* Every buffer the pool knows of, live or pooled, with who holds it.
Holdings == {<<t, live[t]>> : t \in LiveTags} \cup
            UNION {{<<n, i, pool.free[n][i]>> : i \in DOMAIN pool.free[n]} : n \in Sizes}

Held(space) == {Extent(b.lo, b.hi) : b \in {c \in Pooled(pool) \cup {live[t] : t \in LiveTags} :
                                             c.space = space}}

\* Instances whose recorded lifetimes overlap have addresses of their own
PackedApart(i, j) ==
    i # j /\ i.birth < j.death /\ j.birth < i.death =>
        \/ placedAt[i.key] + Aligned(i.size) <= placedAt[j.key]
        \/ placedAt[j.key] + Aligned(j.size) <= placedAt[i.key]

\* No byte of fast memory has two owners and none is lost: whatever births,
\* deaths, reuses, flushes and overflows have happened (BufferPool.get, put,
\* _carve), no two buffers in use or pooled overlap, and the holes of the slab
\* and of the overflow arena are exactly what those buffers leave, coalesced;
\* and a packing never puts instances alive together at one address, whichever
\* order of instances compute_placement settled on.
MemoryPartitioned ==
    /\ \A x, y \in Holdings :
         LET b == x[Len(x)]  c == y[Len(y)] IN
         x # y /\ b.space = c.space => Disjoint(b, c)
    /\ regime = "slab" => /\ Partition(pool.slab, Held("slab"), SlabBytes(Budget))
                          /\ Partition(pool.over, Held("over"), Aligned(Budget))
    /\ regime = "placed" => \A i, j \in recorder.insts : PackedApart(i, j)

\* A poison write never hits a new tenant: a copy into a buffer has waited for
\* every queued poison write over its addresses, through free lists, flushes,
\* placed offsets and escapes (the guard events of pool.py and transfers.py);
\* and the virtual range such a write goes to stays mapped until it lands.
PoisonOrdered ==
    \A i \in DOMAIN stream :
        /\ \A t \in LiveTags :
             live[t].use = "copy" /\ live[t].space = stream[i].space /\ ~ Disjoint(live[t], stream[i])
                => \E g \in live[t].awaited : stream[i].ev <= g
        /\ stream[i].space = "vmm" =>
             \E j \in DOMAIN pool.arena.deferred : pool.arena.deferred[j].va = stream[i].lo

SpanSum(f) == MapThenSumSet(LAMBDA s : s * Len(f[s]), Spans)

DeferredBytes == FoldLeft(LAMBDA n, d : n + d.span, 0, pool.arena.deferred)

\* The arena's counters are exact and its budget holds: created bytes are the
\* live, parked, cached and deferred ones and never exceed the pool, and every
\* handle is in exactly one of those places (VmmArena's reflow and reclaim).
ArenaExact ==
    regime = "vmm" =>
        LET A == pool.arena
            slots == UNION {Range(A.parked[s]) : s \in Spans}
            handles == {live[t].handle : t \in LiveTags} \cup {p.handle : p \in slots}
                       \cup UNION {Range(A.free[s]) : s \in Spans}
                       \cup {A.deferred[i].handle : i \in DOMAIN A.deferred}
        IN  /\ A.used = MapThenSumSet(LAMBDA t : Span(SizeOf[t]), LiveTags)
            /\ A.freeBytes = SpanSum(A.parked) + SpanSum(A.free)
            /\ A.created = A.used + A.freeBytes + DeferredBytes
            /\ A.created <= A.pool
            /\ Cardinality(handles) = Cardinality(LiveTags) + Len(A.deferred)
                 + MapThenSumSet(LAMBDA s : Len(A.parked[s]) + Len(A.free[s]), Spans)

=============================================================================
