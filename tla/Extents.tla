------------------------------- MODULE Extents -------------------------------
(***************************************************************************)
(* The two sub-allocators of the runtime as operators on the set of holes  *)
(* of one address range: the best-fit slab behind fast buffers and the     *)
(* first-fit slab behind the service's resident objects.  A hole or a      *)
(* carved extent is [lo, hi): the sorted lists of the code are a set, the  *)
(* address order being recovered from lo.                                  *)
(***************************************************************************)
EXTENDS Integers, FiniteSets

Extent(lo, hi) == [lo |-> lo, hi |-> hi]

Length(e) == e.hi - e.lo

\* Both allocators round a request up to whole 512-byte units.
Aligned(n) == ((n + 511) \div 512) * 512

\* The budget padded by one eighth; the 2 GiB ceiling of the pad is far above
\* every budget the runs use.
SlabBytes(budget) == Aligned(budget + budget \div 8)

Fitting(holes, n) == {h \in holes : Length(h) >= n}

\* The smallest hole that fits, the lowest of equals.
BestFit(holes, n) ==
    CHOOSE h \in Fitting(holes, n) :
        \A g \in Fitting(holes, n) :
            Length(h) < Length(g) \/ (Length(h) = Length(g) /\ h.lo <= g.lo)

\* The lowest hole that fits.
FirstFit(holes, n) ==
    CHOOSE h \in Fitting(holes, n) : \A g \in Fitting(holes, n) : h.lo <= g.lo

\* n bytes are carved from the front of hole h; a remainder stays a hole.
CutFrom(holes, h, n) ==
    (holes \ {h}) \cup {e \in {Extent(h.lo + n, h.hi)} : e.lo < e.hi}

\* An extent returns: it joins the hole that starts where it ends and the one
\* that ends where it starts.
Coalesce(holes, e) ==
    LET next == {h \in holes : h.lo = e.hi}
        prev == {h \in holes : h.hi = e.lo}
        hi == IF next = {} THEN e.hi ELSE (CHOOSE h \in next : TRUE).hi
        lo == IF prev = {} THEN e.lo ELSE (CHOOSE h \in prev : TRUE).lo
    IN  (holes \ (next \cup prev)) \cup {Extent(lo, hi)}

Disjoint(d, e) == d.hi <= e.lo \/ e.hi <= d.lo

(***************************************************************************)
(* What an allocator has to keep: holes and carved extents are non-empty,  *)
(* lie in the range, never overlap, cover it, and no two holes touch.      *)
(***************************************************************************)
WithinRange(E, bytes) ==
    \A e \in E : e \in [lo : Nat, hi : Nat] /\ e.lo < e.hi /\ e.hi <= bytes

PairwiseDisjoint(E) == \A d, e \in E : d # e => Disjoint(d, e)

Covers(E, bytes) ==
    /\ bytes > 0 => \E e \in E : e.lo = 0
    /\ \A e \in E : e.hi < bytes => \E d \in E : d.lo = e.hi

Coalesced(holes) == \A d, e \in holes : d.hi # e.lo

Partition(holes, carved, bytes) ==
    /\ WithinRange(holes \cup carved, bytes)
    /\ holes \cap carved = {}
    /\ PairwiseDisjoint(holes \cup carved)
    /\ Coalesced(holes)
    /\ Covers(holes \cup carved, bytes)

=============================================================================
