------------------------------ MODULE VmmArena ------------------------------
(***************************************************************************)
(* The VMM arena: exact-size physical handles behind virtual ranges, as    *)
(* operators on one record.  A released slot stays mapped ("parked") and   *)
(* is adopted by the next birth of its span; handles without a mapping are *)
(* cached by span; a release whose guard is pending is deferred.           *)
(* `busy' is the set of guard events the device has not reached yet.       *)
(***************************************************************************)
EXTENDS Integers, Sequences, SequencesExt, FiniteSetsExt

CONSTANTS Sizes, Budget

MiB == 1048576

Granule == 2 * MiB

\* A request occupies whole granules.
Span(n) == ((n + Granule - 1) \div Granule) * Granule

Spans == {Granule} \cup {Span(n) : n \in Sizes}

\* The part of the 512 MiB allowance above the budget the instances can use.
HeadroomBytes == 2 * MiB

EmptyArena ==
    [free |-> [s \in Spans |-> <<>>], parked |-> [s \in Spans |-> <<>>],
     vas |-> [s \in Spans |-> <<>>], deferred |-> <<>>, freeBytes |-> 0, created |-> 0,
     used |-> 0, cursor |-> 0, handles |-> 0, pool |-> Span(Budget + HeadroomBytes)]

\* Spans that have a cached handle, and spans that have a parked slot.
Cached(A) == {s \in Spans : A.free[s] # <<>>}

Parked(A) == {s \in Spans : A.parked[s] # <<>>}

ReleaseHandle(A, s, h) ==
    [A EXCEPT !.free[s] = Append(@, h), !.freeBytes = @ + s]

NewHandle(A, s) ==
    [A EXCEPT !.created = @ + s, !.handles = @ + 1]

\* The first mapping is paid for at once: a granule's handle is made, mapped,
\* unmapped and cached.
NewArena == ReleaseHandle(NewHandle(EmptyArena, Granule), Granule, 1)

\* Fault seeded for ArenaExact: an evicted slot is unmapped but stays counted.
EvictUncounted(A) ==
    LET s == Min(Parked(A)) IN
    [A EXCEPT !.parked[s] = Tail(@), !.vas[s] = Append(@, Head(A.parked[s]).va),
              !.created = @ - s]

\* The oldest parked slot of the smallest span is unmapped, its handle destroyed.
EvictParked(A) ==
    LET s == Min(Parked(A)) IN
    [A EXCEPT !.parked[s] = Tail(@), !.vas[s] = Append(@, Head(A.parked[s]).va),
              !.freeBytes = @ - s, !.created = @ - s]

DestroyCached(A) ==
    LET s == Min(Cached(A)) IN
    [A EXCEPT !.free[s] = Front(@), !.freeBytes = @ - s, !.created = @ - s]

\* Deferred releases whose guard has completed become cached handles.
DrainReclaim(A, busy) ==
    LET Reclaim(B, d) ==
            IF d.ev \in busy THEN [B EXCEPT !.deferred = Append(@, d)]
            ELSE ReleaseHandle([B EXCEPT !.vas[d.span] = Append(@, d.va)], d.span, d.handle)
    IN  FoldLeft(Reclaim, [A EXCEPT !.deferred = <<>>], A.deferred)

TakeCached(A, s) ==
    [arena |-> [A EXCEPT !.free[s] = Front(@), !.freeBytes = @ - s], handle |-> Last(A.free[s])]

\* Cached handles and then parked slots give way until a new handle fits;
\* handle 0: nothing is left to release (VmmError).
RECURSIVE Reflow(_, _)
Reflow(A, s) ==
    CASE A.created + s <= A.pool -> [arena |-> NewHandle(A, s), handle |-> A.handles + 1]
      [] A.created + s > A.pool /\ Cached(A) # {} -> Reflow(DestroyCached(A), s)
      [] A.created + s > A.pool /\ Cached(A) = {} /\ Parked(A) # {} -> Reflow(EvictParked(A), s)
      [] OTHER -> [arena |-> A, handle |-> 0]

ObtainHandle(A, s, busy) ==
    LET B == IF A.created + s > A.pool THEN DrainReclaim(A, busy) ELSE A IN
    CASE s \in Cached(A) -> TakeCached(A, s)
      [] s \notin Cached(A) /\ s \in Cached(B) -> TakeCached(B, s)
      [] OTHER -> Reflow(B, s)

\* A virtual range of span s: a recycled one, or fresh addresses.
ReserveVa(A, s) ==
    IF A.vas[s] # <<>> THEN [arena |-> [A EXCEPT !.vas[s] = Front(@)], va |-> Last(A.vas[s])]
    ELSE [arena |-> [A EXCEPT !.cursor = @ + s], va |-> A.cursor]

\* The arena after a birth of n bytes, with the slot it got (handle 0: none).
ArenaGet(A, n, busy) ==
    LET s == Span(n) IN
    IF s \in Parked(A)
    THEN [arena |-> [A EXCEPT !.parked[s] = Front(@), !.freeBytes = @ - s, !.used = @ + s],
          slot |-> Last(A.parked[s])]
    ELSE LET got == ObtainHandle(A, s, busy)
             at  == ReserveVa(got.arena, s)
         IN  IF got.handle = 0 THEN [arena |-> got.arena, slot |-> [va |-> 0, handle |-> 0]]
             ELSE [arena |-> [at.arena EXCEPT !.used = @ + s],
                   slot |-> [va |-> at.va, handle |-> got.handle]]

\* A release: parked, or deferred while its guard is pending.
ArenaPut(A, n, slot, guards, busy) ==
    LET s == Span(n)
        B == [A EXCEPT !.used = @ - s]
    IN  IF guards \cap busy # {}
        THEN [B EXCEPT !.deferred =
                Append(@, [va |-> slot.va, span |-> s, handle |-> slot.handle,
                           ev |-> CHOOSE g \in guards : TRUE])]
        ELSE [B EXCEPT !.parked[s] = Append(@, slot), !.freeBytes = @ + s]

\* Round-robin over the sizes in demand, largest span first, while they fit.
RECURSIVE Prewarm(_, _)
Prewarm(A, demand) ==
    LET Seed(B, n) == IF demand[n] > 0 /\ B.created + Span(n) <= B.pool
                      THEN ReleaseHandle(NewHandle(B, Span(n)), Span(n), B.handles + 1)
                      ELSE B
        C == FoldLeft(Seed, A, SetToSortSeq(Sizes, LAMBDA m, n : m > n))
    IN  IF C = A THEN A ELSE Prewarm(C, [n \in Sizes |-> demand[n] - 1])

=============================================================================
