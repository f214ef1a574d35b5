--------------------------- MODULE AlgorithmProofs ---------------------------
(***************************************************************************)
(* Two algorithms the runtime and the planner rest on.                     *)
(*                                                                         *)
(* The allocators: for every range, every set of holes and every request,  *)
(* carving and returning extents keep the range partitioned.               *)
(*                                                                         *)
(* The choice of activations to recompute: whatever the simulator makes of *)
(* a plan and wherever the time budget cuts the search, it returns the     *)
(* best plan it has evaluated.  The loop accepts a trial against the plan  *)
(* it was made from, not against the best; that rejecting one never loses  *)
(* the best rests on that plan having been evaluated itself.               *)
(***************************************************************************)
EXTENDS Extents, RecomputePlan, FiniteSetTheorems, TLAPS

-----------------------------------------------------------------------------
(***************************************************************************)
(* The allocators.                                                         *)
(***************************************************************************)

\* Carving a block out of a hole (alloc) leaves holes that keep every other byte.
LEMMA CutPartition ==
    ASSUME NEW bytes \in Nat, NEW holes, NEW carved,
           Partition(holes, carved, bytes),
           NEW n \in Nat, n > 0,
           NEW h \in holes, Length(h) >= n
    PROVE  Partition(CutFrom(holes, h, n), carved \cup {Extent(h.lo, h.lo + n)}, bytes)
<1> DEFINE got == Extent(h.lo, h.lo + n)
           rest == Extent(h.lo + n, h.hi)
           H == CutFrom(holes, h, n)
           C == carved \cup {got}
<1>1. /\ h \in [lo : Nat, hi : Nat] /\ h.lo < h.hi /\ h.hi <= bytes /\ h.lo + n <= h.hi
      /\ got \in [lo : Nat, hi : Nat] /\ got.lo = h.lo /\ got.hi = h.lo + n
      /\ rest \in [lo : Nat, hi : Nat] /\ rest.lo = h.lo + n /\ rest.hi = h.hi
      BY DEF Partition, WithinRange, Length, Extent
<1>2. H \cup C \subseteq ((holes \cup carved) \ {h}) \cup {got} \cup {e \in {rest} : e.lo < e.hi} \cup carved
      BY Zenon DEF CutFrom
<1>3. h \notin carved
      BY Zenon DEF Partition
<1>4. \A e \in (holes \cup carved) \ {h} :
        e \in [lo : Nat, hi : Nat] /\ e.lo < e.hi /\ e.hi <= bytes /\ Disjoint(e, h)
      BY Zenon, <1>1 DEF Partition, WithinRange, PairwiseDisjoint
<1>5. \A e \in H \cup C : \/ e \in (holes \cup carved) \ {h}
                          \/ e = got
                          \/ e = rest /\ rest.lo < rest.hi
      BY Zenon, <1>2, <1>3 DEF CutFrom
<1>6. WithinRange(H \cup C, bytes)
      BY SMTT(30), <1>1, <1>4, <1>5 DEF WithinRange
<1>7. PairwiseDisjoint(H \cup C)
  <2> SUFFICES ASSUME NEW d \in H \cup C, NEW e \in H \cup C, d # e
               PROVE  Disjoint(d, e)
      BY Zenon DEF PairwiseDisjoint
  <2>1. CASE d \in (holes \cup carved) \ {h} /\ e \in (holes \cup carved) \ {h}
      BY Zenon, <2>1 DEF Partition, PairwiseDisjoint
  <2>2. CASE d \in (holes \cup carved) \ {h} /\ e \in {got, rest}
      BY SMTT(30), <2>2, <1>1, <1>4 DEF Disjoint
  <2>3. CASE e \in (holes \cup carved) \ {h} /\ d \in {got, rest}
      BY SMTT(30), <2>3, <1>1, <1>4 DEF Disjoint
  <2>4. CASE d \in {got, rest} /\ e \in {got, rest}
      BY SMTT(30), <2>4, <1>1 DEF Disjoint
  <2> QED BY Zenon, <1>5, <2>1, <2>2, <2>3, <2>4
<1>8. H \cap C = {}
  <2> SUFFICES ASSUME NEW e \in H, e \in C PROVE FALSE
      BY Zenon
  <2>1. CASE e \in holes \ {h} /\ e \in carved
      BY Zenon, <2>1 DEF Partition
  <2>2. CASE e \in holes \ {h} /\ e = got
      BY SMTT(30), <2>2, <1>1, <1>4 DEF Disjoint
  <2>3. CASE e = rest /\ e.lo < e.hi /\ e \in carved
      BY SMTT(30), <2>3, <1>1, <1>3, <1>4 DEF Disjoint
  <2>4. CASE e = rest /\ e = got
      BY <2>4, <1>1
  <2> QED BY Zenon, <2>1, <2>2, <2>3, <2>4 DEF CutFrom
<1>9. Coalesced(H)
  <2> SUFFICES ASSUME NEW d \in H, NEW e \in H PROVE d.hi # e.lo
      BY Zenon DEF Coalesced
  <2>1. \A g \in H : g \in holes \ {h} \/ (g = rest /\ rest.lo < rest.hi)
      BY Zenon DEF CutFrom
  <2>2. \A g \in holes \ {h} : g.hi # h.lo /\ h.hi # g.lo /\ Disjoint(g, h) /\ g.lo < g.hi
                               /\ g \in [lo : Nat, hi : Nat]
      BY Zenon, <1>4 DEF Partition, Coalesced
  <2>3. CASE d \in holes \ {h} /\ e \in holes \ {h}
      BY Zenon, <2>3 DEF Partition, Coalesced
  <2>4. CASE d \in holes \ {h} /\ e = rest
      BY SMTT(30), <2>4, <2>2, <1>1 DEF Disjoint
  <2>5. CASE d = rest /\ e \in holes \ {h}
      BY Zenon, <2>5, <2>2, <1>1 DEF Disjoint
  <2>6. CASE d = rest /\ e = rest /\ rest.lo < rest.hi
      BY SMTT(30), <2>6, <1>1
  <2> QED BY Zenon, <2>1, <2>3, <2>4, <2>5, <2>6
<1>10. Covers(H \cup C, bytes)
  <2>1. \A g \in (holes \cup carved) \ {h} : g \in H \cup C
      BY Zenon DEF CutFrom
  <2>2. \A g \in holes \cup carved : \E f \in H \cup C : f.lo = g.lo
      BY Zenon, <1>1, <2>1
  <2>3. bytes > 0 => \E g \in H \cup C : g.lo = 0
      BY Zenon, <2>2 DEF Partition, Covers
  <2>4. \A g \in holes \cup carved : g.hi < bytes => \E f \in H \cup C : f.lo = g.hi
      BY Zenon, <2>2 DEF Partition, Covers
  <2>5. got.hi < bytes => \E f \in H \cup C : f.lo = got.hi
    <3>1. CASE rest.lo < rest.hi
      <4>1. rest \in H
          BY Zenon, <3>1 DEF CutFrom
      <4> QED BY Zenon, <4>1, <1>1
    <3>2. CASE ~ rest.lo < rest.hi
        BY SMTT(30), <3>2, <1>1, <2>4
    <3> QED BY Zenon, <3>1, <3>2
  <2> QED BY SMTT(30), <1>1, <1>5, <2>3, <2>4, <2>5 DEF Covers
<1> QED BY Zenon, <1>6, <1>7, <1>8, <1>9, <1>10 DEF Partition

\* Best fit and first fit choose among the holes that fit.
LEMMA FitChosen ==
    ASSUME NEW holes, NEW n, NEW h \in Fitting(holes, n)
    PROVE  h \in holes /\ Length(h) >= n
BY Zenon DEF Fitting

\* A freed block and its neighbouring holes join (free) without losing or doubling a byte.
LEMMA CoalescePartition ==
    ASSUME NEW bytes \in Nat, NEW holes, NEW carved,
           Partition(holes, carved, bytes),
           NEW e \in carved
    PROVE  Partition(Coalesce(holes, e), carved \ {e}, bytes)
<1> DEFINE next == {h \in holes : h.lo = e.hi}
           prev == {h \in holes : h.hi = e.lo}
           hi == IF next = {} THEN e.hi ELSE (CHOOSE h \in next : TRUE).hi
           lo == IF prev = {} THEN e.lo ELSE (CHOOSE h \in prev : TRUE).lo
           joined == Extent(lo, hi)
           H == Coalesce(holes, e)
           C == carved \ {e}
           All == holes \cup carved
<1>1. \A g \in All : g \in [lo : Nat, hi : Nat] /\ g.lo < g.hi /\ g.hi <= bytes
      BY Zenon DEF Partition, WithinRange
<1>2. \A f, g \in All : f # g => Disjoint(f, g)
      BY Zenon DEF Partition, PairwiseDisjoint
<1>3. H = (holes \ (next \cup prev)) \cup {joined}
      BY Zenon DEF Coalesce
<1>4. \A f, g \in holes : f.hi # g.lo
      BY Zenon DEF Partition, Coalesced
<1>5. e \notin holes
      BY Zenon DEF Partition
<1>6. \A f, g \in next : f = g
      BY <1>1, <1>2 DEF Disjoint
<1>7. \A f, g \in prev : f = g
      BY SMTT(30), <1>1, <1>2 DEF Disjoint
<1>8. /\ hi \in Nat /\ e.hi <= hi /\ hi <= bytes
      /\ next = {} => hi = e.hi
      /\ \A g \in next : g.hi = hi /\ e.hi < hi
  <2>1. CASE next = {}
      BY SMTT(30), <2>1, <1>1
  <2>2. CASE next # {}
    <3>1. PICK g \in next : TRUE
        BY Zenon, <2>2
    <3>2. (CHOOSE h \in next : TRUE) \in next
        BY Zenon, <3>1
    <3> QED BY SMTT(30), <2>2, <3>2, <1>1, <1>6
  <2> QED BY Zenon, <2>1, <2>2
<1>9. /\ lo \in Nat /\ lo <= e.lo
      /\ prev = {} => lo = e.lo
      /\ \A g \in prev : g.lo = lo /\ lo < e.lo
  <2>1. CASE prev = {}
      BY SMTT(30), <2>1, <1>1
  <2>2. CASE prev # {}
    <3>1. PICK g \in prev : TRUE
        BY Zenon, <2>2
    <3>2. (CHOOSE h \in prev : TRUE) \in prev
        BY Zenon, <3>1
    <3> QED BY SMTT(30), <2>2, <3>2, <1>1, <1>7
  <2> QED BY Zenon, <2>1, <2>2
<1> HIDE DEF hi, lo
<1>10. joined \in [lo : Nat, hi : Nat] /\ joined.lo = lo /\ joined.hi = hi /\ lo < hi
      BY SMTT(30), <1>1, <1>8, <1>9 DEF Extent
<1>11. \A g \in All \ (next \cup prev \cup {e}) : Disjoint(g, joined)
  <2> SUFFICES ASSUME NEW g \in All \ (next \cup prev \cup {e}) PROVE Disjoint(g, joined)
      BY Zenon
  <2>1. Disjoint(g, e) /\ g.lo < g.hi /\ g \in [lo : Nat, hi : Nat]
      BY Zenon, <1>1, <1>2
  <2>2. g.lo >= e.hi => g.lo >= hi
    <3>1. CASE next = {}
        BY Zenon, <3>1, <1>8
    <3>2. CASE next # {}
      <4>1. PICK f \in next : TRUE
          BY Zenon, <3>2
      <4>2. Disjoint(g, f) /\ f.lo = e.hi /\ f.hi = hi /\ f \in [lo : Nat, hi : Nat]
          BY Zenon, <4>1, <1>1, <1>2, <1>8
      <4> QED BY SMTT(30), <4>2, <2>1, <1>1 DEF Disjoint
    <3> QED BY Zenon, <3>1, <3>2
  <2>3. g.hi <= e.lo => g.hi <= lo
    <3>1. CASE prev = {}
        BY Zenon, <3>1, <1>9
    <3>2. CASE prev # {}
      <4>1. PICK f \in prev : TRUE
          BY Zenon, <3>2
      <4>2. Disjoint(g, f) /\ f.hi = e.lo /\ f.lo = lo /\ f \in [lo : Nat, hi : Nat]
          BY Zenon, <4>1, <1>1, <1>2, <1>9
      <4> QED BY SMTT(30), <4>2, <2>1, <1>1 DEF Disjoint
    <3> QED BY Zenon, <3>1, <3>2
  <2> QED BY Zenon, <2>1, <2>2, <2>3, <1>10 DEF Disjoint
<1>12. \A g \in H \cup C : g = joined \/ g \in All \ (next \cup prev \cup {e})
  <2>1. \A g \in carved : g \notin next \cup prev
      BY Zenon DEF Partition
  <2> QED BY Zenon, <1>3, <1>5, <2>1
<1>13. WithinRange(H \cup C, bytes)
      BY Zenon, <1>1, <1>8, <1>10, <1>12 DEF WithinRange
<1>14. PairwiseDisjoint(H \cup C)
  <2> SUFFICES ASSUME NEW f \in H \cup C, NEW g \in H \cup C, f # g PROVE Disjoint(f, g)
      BY Zenon DEF PairwiseDisjoint
  <2>1. Disjoint(f, g) <=> Disjoint(g, f)
      BY Zenon DEF Disjoint
  <2> QED BY Zenon, <1>2, <1>11, <1>12, <2>1
<1>15. H \cap C = {}
  <2>1. joined \notin C
      <3> SUFFICES ASSUME joined \in C PROVE FALSE
          BY Zenon
      <3>1. joined \in All \ (next \cup prev \cup {e})
          BY Zenon DEF Partition
      <3>2. Disjoint(joined, joined)
          BY Zenon, <3>1, <1>11
      <3> QED BY SMTT(30), <3>2, <1>10 DEF Disjoint
  <2> QED BY Zenon, <1>3, <2>1 DEF Partition
<1>16. Coalesced(H)
  <2> SUFFICES ASSUME NEW f \in H, NEW g \in H PROVE f.hi # g.lo
      BY Zenon DEF Coalesced
  <2>1. \A k \in H : k = joined \/ k \in holes \ (next \cup prev)
      BY Zenon, <1>3
  <2>2. \A k \in holes \ (next \cup prev) : k.lo # hi
    <3>1. CASE next = {}
        BY Zenon, <3>1, <1>8
    <3>2. CASE next # {}
        BY Zenon, <3>2, <1>8, <1>4
    <3> QED BY Zenon, <3>1, <3>2
  <2>3. \A k \in holes \ (next \cup prev) : k.hi # lo
    <3>1. CASE prev = {}
        BY Zenon, <3>1, <1>9
    <3>2. CASE prev # {}
        BY Zenon, <3>2, <1>9, <1>4
    <3> QED BY Zenon, <3>1, <3>2
  <2> QED BY SMTT(30), <2>1, <2>2, <2>3, <1>4, <1>10
<1>17. Covers(H \cup C, bytes)
  <2>1. \A g \in All \ (next \cup prev \cup {e}) : g \in H \cup C
      BY Zenon, <1>3
  <2>2. joined \in H
      BY Zenon, <1>3
  <2>3. ASSUME NEW g \in All, g \notin next, g # e \/ prev = {}
        PROVE  \E f \in H \cup C : f.lo = g.lo
    <3>1. CASE g \in prev
        BY Zenon, <3>1, <2>2, <1>9, <1>10
    <3>2. CASE g = e
        BY Zenon, <3>2, <2>2, <2>3, <1>9, <1>10
    <3>3. CASE g \notin prev /\ g # e
        BY Zenon, <3>3, <2>1, <2>3
    <3> QED BY Zenon, <3>1, <3>2, <3>3
  <2>4. bytes > 0 => \E g \in H \cup C : g.lo = 0
    <3> SUFFICES ASSUME bytes > 0 PROVE \E g \in H \cup C : g.lo = 0
        BY Zenon
    <3>1. PICK g \in All : g.lo = 0
        BY Zenon DEF Partition, Covers
    <3>2. g \notin next
        BY SMTT(30), <3>1, <1>1
    <3>3. g = e => prev = {}
        BY SMTT(30), <3>1, <1>1
    <3> QED BY Zenon, <3>1, <3>2, <3>3, <2>3
  <2>5. ASSUME NEW g \in All \ (next \cup prev \cup {e}), g.hi < bytes
        PROVE  \E f \in H \cup C : f.lo = g.hi
    <3>1. PICK d \in All : d.lo = g.hi
        BY Zenon, <2>5 DEF Partition, Covers
    <3>2. d \notin next
      <4> SUFFICES ASSUME d \in next PROVE FALSE
          BY Zenon
      <4>1. g.hi = e.hi
          BY Zenon, <3>1
      <4> QED BY SMTT(30), <4>1, <1>1, <1>2 DEF Disjoint
    <3>3. d = e => prev = {}
      <4> SUFFICES ASSUME d = e, NEW f \in prev PROVE FALSE
          BY Zenon
      <4>1. f.hi = g.hi /\ f # g
          BY Zenon, <3>1
      <4> QED BY SMTT(30), <4>1, <1>1, <1>2 DEF Disjoint
    <3> QED BY Zenon, <3>1, <3>2, <3>3, <2>3
  <2>6. ASSUME hi < bytes PROVE \E f \in H \cup C : f.lo = hi
    <3>1. CASE next = {}
      <4>1. PICK d \in All : d.lo = e.hi
          BY Zenon, <2>6, <3>1, <1>8 DEF Partition, Covers
      <4> QED BY SMTT(30), <4>1, <3>1, <2>3, <1>1, <1>8
    <3>2. CASE next # {}
      <4>1. PICK f \in next : f.hi = hi
          BY Zenon, <3>2, <1>8
      <4>2. PICK d \in All : d.lo = hi
          BY Zenon, <2>6, <4>1 DEF Partition, Covers
      <4>3. d \notin next /\ d # e
          BY SMTT(30), <4>1, <4>2, <1>1, <1>8
      <4> QED BY Zenon, <4>2, <4>3, <2>3
    <3> QED BY Zenon, <3>1, <3>2
  <2> QED BY Zenon, <1>10, <1>12, <2>4, <2>5, <2>6 DEF Covers
<1> QED BY Zenon, <1>13, <1>14, <1>15, <1>16, <1>17 DEF Partition

-----------------------------------------------------------------------------
(***************************************************************************)
(* The search.                                                             *)
(***************************************************************************)
IsSearch(s) ==
    s = [at |-> s.at, best |-> s.best, current |-> s.current, iter |-> s.iter,
         candidates |-> s.candidates, batch |-> s.batch, evaluated |-> s.evaluated]

\* The first choices: what has been evaluated before each step of the search.
FirstChoices(at) ==
    CASE at = "baseline" -> {}
      [] at = "seed_all" -> {AllSaved}
      [] at = "seed_half" -> {AllSaved, SeedAll}
      [] OTHER -> {AllSaved, SeedAll, SeedHalf}

\* best is the fastest of the feasible plans evaluated, or <<>> if there are none.
Fastest(best, evaluated) ==
    \/ best = <<>> /\ \A plan \in evaluated : ~ Feasible(plan)
    \/ \E p \in evaluated :
         /\ best = <<p>> /\ Feasible(p)
         /\ \A plan \in evaluated : Feasible(plan) => makespan[p] <= makespan[plan]

\* The inductive invariant.
SearchInv ==
    /\ makespan \in [Plans -> Nat]
    /\ IsSearch(search)
    /\ search.evaluated \subseteq Plans
    /\ FirstChoices(search.at) \subseteq search.evaluated
    /\ Fastest(search.best, search.evaluated)
    /\ search.current = <<>> \/ \E p \in search.evaluated : Feasible(p) /\ search.current = <<p>>
    /\ search.at \in {"iterate", "trial"} => search.current # <<>>
    /\ search.at \in {"iterate", "trial", "done"} => search.best # <<>>
    /\ search.at = "failed" => search.best = <<>>
    /\ search.batch \in Nat
    /\ search.at = "trial" =>
         \A n \in 1 .. search.batch : /\ search.candidates[n] \in ObjectSet
                                      /\ search.current[1][search.candidates[n]] < MaxLevel

\* The plans the search begins with are plans.
LEMMA FirstArePlans == AllSaved \in Plans /\ SeedAll \in Plans /\ SeedHalf \in Plans
    BY TableAssumption DEF AllSaved, SeedAll, SeedHalf, Plans

\* There are finitely many activations.
LEMMA ObjectsFinite == IsFiniteSet(ObjectSet)
<1>1. Len(Objects) \in Nat /\ DOMAIN Objects = 1 .. Len(Objects)
    BY TableAssumption
<1> DEFINE g == [n \in 1 .. Len(Objects) |-> Objects[n]]
<1>2. g \in Surjection(1 .. Len(Objects), ObjectSet)
    BY Zenon, <1>1 DEF Surjection, ObjectSet
<1>3. IsFiniteSet(1 .. Len(Objects))
    BY <1>1, FS_Interval
<1> HIDE DEF g
<1> QED
    BY Zenon, <1>2, <1>3, FS_Surjection

\* A plan that was not refused takes the place of best when it is faster.
LEMMA FastestWith ==
    ASSUME makespan \in [Plans -> Nat], NEW E, E \subseteq Plans, NEW b, Fastest(b, E),
           NEW plan \in Plans, NEW b2,
           \/ Feasible(plan) /\ (b = <<>> \/ makespan[plan] < makespan[b[1]]) /\ b2 = <<plan>>
           \/ b2 = b /\ (~ Feasible(plan) \/ (b # <<>> /\ makespan[b[1]] <= makespan[plan]))
    PROVE  Fastest(b2, E \cup {plan})
<1>1. \A p \in E \cup {plan} : makespan[p] \in Nat
    BY Zenon
<1>2. CASE b = <<>>
  <2>1. \A p \in E : ~ Feasible(p)
      BY Zenon, <1>2 DEF Fastest
  <2>2. CASE Feasible(plan)
      BY SMTT(30), <1>1, <1>2, <2>1, <2>2 DEF Fastest
  <2>3. CASE ~ Feasible(plan)
      BY Zenon, <1>2, <2>1, <2>3 DEF Fastest
  <2> QED
      BY Zenon, <2>2, <2>3
<1>3. CASE b # <<>>
  <2>1. PICK p \in E : /\ b = <<p>> /\ Feasible(p)
                       /\ \A q \in E : Feasible(q) => makespan[p] <= makespan[q]
      BY Zenon, <1>3 DEF Fastest
  <2>2. b[1] = p
      BY Zenon, <2>1
  <2>3. CASE Feasible(plan) /\ makespan[plan] < makespan[p] /\ b2 = <<plan>>
    <3>1. \A q \in E \cup {plan} : Feasible(q) => makespan[plan] <= makespan[q]
        BY SMTT(30), <1>1, <2>1, <2>3
    <3> QED
        BY Zenon, <2>3, <3>1 DEF Fastest
  <2>4. CASE b2 = b /\ (~ Feasible(plan) \/ makespan[p] <= makespan[plan])
    <3>1. \A q \in E \cup {plan} : Feasible(q) => makespan[p] <= makespan[q]
        BY Zenon, <2>1, <2>4
    <3> QED
        BY Zenon, <2>1, <2>4, <3>1 DEF Fastest
  <2> QED
      BY Zenon, <1>3, <2>2, <2>3, <2>4
<1> QED
    BY Zenon, <1>2, <1>3

\* The next level of every object of the batch exists.
LEMMA TrialIsPlan ==
    ASSUME SearchInv, search.at = "trial"
    PROVE  Trial \in Plans
<1>1. PICK p \in Plans : search.current = <<p>>
    BY Zenon DEF SearchInv
<1>2. p \in [ObjectSet -> 0 .. MaxLevel] /\ search.current[1] = p /\ MaxLevel \in Nat
    BY SMTT(30), <1>1, TableAssumption DEF Plans
<1>3. ASSUME NEW o \in ObjectSet
      PROVE  (p[o] + IF \E n \in 1 .. search.batch : search.candidates[n] = o THEN 1 ELSE 0)
                 \in 0 .. MaxLevel
  <2>1. p[o] \in 0 .. MaxLevel
      BY Zenon, <1>2
  <2>2. (\E n \in 1 .. search.batch : search.candidates[n] = o) => p[o] < MaxLevel
      BY Zenon, <1>2 DEF SearchInv
  <2> QED
      BY SMTT(30), <1>2, <2>1, <2>2
<1> QED
    BY Zenon, <1>2, <1>3 DEF Trial, Plans

\* The plan the loop refines is no faster than best.
LEMMA BestLeadsCurrent ==
    ASSUME SearchInv, search.at = "trial"
    PROVE  makespan[search.best[1]] <= makespan[search.current[1]]
<1>1. PICK p \in search.evaluated : Feasible(p) /\ search.current = <<p>>
    BY Zenon DEF SearchInv
<1>2. PICK b \in search.evaluated :
        /\ search.best = <<b>>
        /\ \A plan \in search.evaluated : Feasible(plan) => makespan[b] <= makespan[plan]
    BY Zenon DEF SearchInv, Fastest
<1>3. search.current[1] = p /\ search.best[1] = b
    BY SMTT(30), <1>1, <1>2
<1> QED
    BY Zenon, <1>1, <1>2, <1>3

\* Evaluating one of the first plans: it becomes the best if it is faster.
LEMMA SeedKeeps ==
    ASSUME SearchInv, NEW plan \in Plans, NEW at, NEW then, Seed(at, plan, then), makespan' = makespan,
           then \notin {"iterate", "trial", "done", "failed"},
           FirstChoices(then) \subseteq FirstChoices(at) \cup {plan}
    PROVE  SearchInv'
<1> DEFINE E == search.evaluated
<1>1. /\ search.at = at /\ IsSearch(search)
      /\ search' = [search EXCEPT !.at = then, !.evaluated = E \cup {plan}, !.best = Seeded(plan)]
    BY Zenon DEF Seed, SearchInv
<1>2. /\ search'.at = then /\ search'.evaluated = E \cup {plan} /\ search'.best = Seeded(plan)
      /\ search'.current = search.current /\ search'.batch = search.batch /\ IsSearch(search')
    BY Zenon, <1>1 DEF IsSearch
<1>3. Fastest(Seeded(plan), E \cup {plan})
  <2>1. \/ Feasible(plan) /\ Better(plan) /\ Seeded(plan) = <<plan>>
        \/ Seeded(plan) = search.best /\ (~ Feasible(plan) \/ ~ Better(plan))
      BY Zenon DEF Seeded
  <2>2. ~ Better(plan) => search.best # <<>> /\ makespan[search.best[1]] <= makespan[plan]
    <3>1. CASE search.best = <<>>
        BY Zenon, <3>1 DEF Better
    <3>2. CASE search.best # <<>>
      <4>1. PICK p \in E : search.best = <<p>>
          BY Zenon, <3>2 DEF SearchInv, Fastest
      <4>2. makespan[search.best[1]] \in Nat /\ makespan[plan] \in Nat
          BY SMTT(30), <4>1 DEF SearchInv
      <4> QED
          BY SMTT(30), <3>2, <4>2 DEF Better
    <3> QED
        BY Zenon, <3>1, <3>2
  <2> QED
      BY Zenon, <2>1, <2>2, FastestWith DEF SearchInv, Better
<1>4. Fastest(search.best, search.evaluated)'
    BY Zenon, <1>2, <1>3 DEF Fastest, Feasible
<1>5. FirstChoices(search'.at) \subseteq search'.evaluated
    BY Zenon, <1>1, <1>2 DEF SearchInv
<1>6. search'.current = <<>> \/ \E p \in search'.evaluated : Feasible(p)' /\ search'.current = <<p>>
    BY Zenon, <1>2 DEF SearchInv, Feasible
<1>7. (FirstChoices(search.at) \subseteq search.evaluated)'
    BY Zenon, <1>5 DEF FirstChoices, AllSaved, SeedAll, SeedHalf
<1>8. search'.evaluated \subseteq Plans /\ makespan' \in [Plans -> Nat] /\ search'.batch \in Nat
    BY Zenon, <1>2 DEF SearchInv
<1> QED
    BY Zenon, <1>2, <1>4, <1>6, <1>7, <1>8 DEF SearchInv, IsSearch, Plans, ObjectSet

\* Trying a batch: a faster trial is refined further, and best is kept ahead of both.
LEMMA TrialKeeps ==
    ASSUME SearchInv, TryAccepted \/ TryRejected, makespan' = makespan
    PROVE  SearchInv'
<1> DEFINE E == search.evaluated
           T == Trial
<1>1. search.at = "trial" /\ IsSearch(search) /\ makespan \in [Plans -> Nat] /\ T \in Plans
    BY Zenon, TrialIsPlan DEF TryAccepted, TryRejected, SearchInv
<1>2. /\ E \subseteq Plans /\ FirstChoices("done") \subseteq E /\ search.best # <<>>
      /\ search.current # <<>> /\ makespan[search.best[1]] <= makespan[search.current[1]]
      /\ Fastest(search.best, E)
    BY Zenon, <1>1, BestLeadsCurrent DEF SearchInv, FirstChoices
<1>3. PICK c \in E : Feasible(c) /\ search.current = <<c>>
    BY Zenon, <1>2 DEF SearchInv
<1>4. PICK b \in E : search.best = <<b>>
    BY Zenon, <1>2 DEF Fastest
<1>5. /\ makespan[b] \in Nat /\ makespan[c] \in Nat /\ makespan[T] \in Nat
      /\ search.current[1] = c /\ search.best[1] = b /\ makespan[b] <= makespan[c]
    BY SMTT(30), <1>1, <1>2, <1>3, <1>4
<1> HIDE DEF T
<1>6. CASE TryAccepted
  <2> DEFINE b2 == IF Better(T) THEN <<T>> ELSE search.best
  <2>1. /\ Feasible(T)
        /\ search' = [search EXCEPT !.evaluated = E \cup {T}, !.current = <<T>>,
                                    !.best = b2, !.at = AfterAccept]
      BY Zenon, <1>6 DEF TryAccepted, T
  <2>2. /\ search'.at = AfterAccept /\ search'.evaluated = E \cup {T} /\ search'.best = b2
        /\ search'.current = <<T>> /\ search'.batch = search.batch /\ IsSearch(search')
      BY Zenon, <1>1, <2>1 DEF IsSearch
  <2>3. Fastest(b2, E \cup {T}) /\ b2 # <<>>
      BY <1>1, <1>2, <1>4, <1>5, <2>1, FastestWith DEF Better
  <2> HIDE DEF b2
  <2>4. Fastest(search.best, search.evaluated)'
      BY Zenon, <2>2, <2>3 DEF Fastest, Feasible
  <2>5. \E p \in search'.evaluated : Feasible(p)' /\ search'.current = <<p>>
      BY Zenon, <2>1, <2>2 DEF Feasible
  <2>6. search'.at \in {"iterate", "done"} /\ search'.current # <<>>
      BY <2>2 DEF AfterAccept
  <2>7. (FirstChoices(search.at) \subseteq search.evaluated)'
      BY Zenon, <1>2, <2>2, <2>6 DEF FirstChoices, AllSaved, SeedAll, SeedHalf
  <2>8. search'.evaluated \subseteq Plans /\ search'.best # <<>>
      BY Zenon, <1>1, <1>2, <2>2, <2>3
  <2>9. search'.batch \in Nat
      BY Zenon, <2>2 DEF SearchInv
  <2> QED
      BY Zenon, <1>1, <2>2, <2>4, <2>5, <2>6, <2>7, <2>8, <2>9 DEF SearchInv, IsSearch, Plans, ObjectSet
<1>7. CASE TryRejected
  <2>1. /\ ~ (Feasible(T) /\ makespan[T] < makespan[c])
        /\ search' = [search EXCEPT !.evaluated = E \cup {T}, !.batch = search.batch \div 2,
                                    !.at = IF search.batch \div 2 = 0 THEN "done" ELSE "trial"]
      BY Zenon, <1>5, <1>7 DEF TryRejected, T
  <2>2. /\ search'.at \in {"trial", "done"} /\ search'.evaluated = E \cup {T}
        /\ search'.best = search.best /\ search'.current = search.current
        /\ search'.candidates = search.candidates /\ search'.batch = search.batch \div 2
        /\ IsSearch(search')
      BY Zenon, <1>1, <2>1 DEF IsSearch
  <2>3. Fastest(search.best, E \cup {T})
    <3>1. ~ Feasible(T) \/ makespan[search.best[1]] <= makespan[T]
        BY <1>5, <2>1
    <3> QED
        BY Zenon, <1>1, <1>2, <3>1, FastestWith
  <2>4. Fastest(search.best, search.evaluated)'
      BY Zenon, <2>2, <2>3 DEF Fastest, Feasible
  <2>5. \E p \in search'.evaluated : Feasible(p)' /\ search'.current = <<p>>
      BY Zenon, <1>3, <2>2 DEF Feasible
  <2>6. (FirstChoices(search.at) \subseteq search.evaluated)'
      BY Zenon, <1>2, <2>2 DEF FirstChoices, AllSaved, SeedAll, SeedHalf
  <2>7. search'.evaluated \subseteq Plans
      BY Zenon, <1>1, <1>2, <2>2
  <2>8. search'.batch \in Nat /\ 1 .. search'.batch \subseteq 1 .. search.batch
      BY SMTT(30), <2>2 DEF SearchInv
  <2>9. \A n \in 1 .. search'.batch : /\ search'.candidates[n] \in ObjectSet
                                      /\ search'.current[1][search'.candidates[n]] < MaxLevel
      BY Zenon, <1>1, <2>2, <2>8 DEF SearchInv
  <2> QED
      BY Zenon, <1>1, <1>2, <2>2, <2>4, <2>5, <2>6, <2>7, <2>8, <2>9
         DEF SearchInv, IsSearch, Plans, ObjectSet
<1> QED
    BY Zenon, <1>6, <1>7

\* The batch is taken from the front of the ranking of activations that can be converted.
LEMMA IterateKeeps ==
    ASSUME SearchInv, Iterate, makespan' = makespan
    PROVE  SearchInv'
<1>1. search.at = "iterate" /\ IsSearch(search)
    BY Zenon DEF Iterate, SearchInv
<1>2. PICK ranked \in RankedCandidates :
        search' = [search EXCEPT !.iter = search.iter + 1, !.candidates = ranked,
                                 !.batch = Max({1, Len(ranked) \div 2}),
                                 !.at = IF ranked = <<>> THEN "done" ELSE "trial"]
    BY Zenon DEF Iterate
<1>3. PICK some \in SUBSET Convertible : ranked \in SetToSeqs(some)
    BY Zenon DEF RankedCandidates
<1> DEFINE k == Cardinality(some)
           half == Len(ranked) \div 2
           batch == Max({1, half})
<1>4. IsFiniteSet(some) /\ k \in Nat
    BY Zenon, ObjectsFinite, FS_Subset, FS_CardinalityType DEF Convertible
<1>5. ranked \in [1 .. k -> some]
    BY Zenon, <1>3 DEF SetToSeqs
<1> HIDE DEF k
<1>6. Len(ranked) = k /\ half \in Nat
  <2>1. ranked = [i \in 1 .. k |-> ranked[i]]
      BY Zenon, <1>5
  <2>2. Len(ranked) = k
      BY SMTT(30), <1>4, <2>1
  <2> QED
      BY SMTT(30), <1>4, <2>2
<1>7. batch \in Nat /\ (k >= 1 => batch <= k)
  <2>1. half <= k
      BY SMTT(30), <1>4, <1>6
  <2>2. \E x \in {1, half} : \A y \in {1, half} : x >= y
      BY SMTT(30), <1>6
  <2>3. batch \in {1, half}
      BY Zenon, <2>2 DEF Max
  <2> HIDE DEF half, batch
  <2> QED
      BY SMTT(30), <1>4, <1>6, <2>1, <2>3
<1> HIDE DEF half, batch
<1>8. /\ search'.at = (IF ranked = <<>> THEN "done" ELSE "trial")
      /\ search'.candidates = ranked /\ search'.batch = batch
      /\ search'.best = search.best /\ search'.current = search.current
      /\ search'.evaluated = search.evaluated /\ IsSearch(search')
    BY Zenon, <1>1, <1>2 DEF IsSearch, batch, half
<1>9. ranked # <<>> => k >= 1
    BY <1>4, <1>5, <1>6
<1>10. search'.at = "trial" =>
         \A n \in 1 .. batch : /\ ranked[n] \in ObjectSet
                               /\ search.current[1][ranked[n]] < MaxLevel
  <2> SUFFICES ASSUME ranked # <<>>, NEW n \in 1 .. batch
               PROVE  ranked[n] \in ObjectSet /\ search.current[1][ranked[n]] < MaxLevel
      BY Zenon, <1>8
  <2>1. n \in 1 .. k
      BY SMTT(30), <1>4, <1>7, <1>9
  <2>2. ranked[n] \in Convertible
      BY Zenon, <1>3, <1>5, <2>1
  <2> QED
      BY Zenon, <2>2 DEF Convertible
<1>11. Fastest(search.best, search.evaluated)'
    BY Zenon, <1>8 DEF SearchInv, Fastest, Feasible
<1>12. (FirstChoices(search.at) \subseteq search.evaluated)'
    BY Zenon, <1>1, <1>8 DEF SearchInv, FirstChoices, AllSaved, SeedAll, SeedHalf
<1>13. /\ search'.best # <<>> /\ search'.current # <<>>
       /\ \E p \in search'.evaluated : Feasible(p)' /\ search'.current = <<p>>
    BY Zenon, <1>1, <1>8 DEF SearchInv, Feasible
<1>14. search'.evaluated \subseteq Plans /\ makespan' \in [Plans -> Nat]
    BY Zenon, <1>8 DEF SearchInv
<1> QED
    BY Zenon, <1>7, <1>8, <1>10, <1>11, <1>12, <1>13, <1>14 DEF SearchInv, IsSearch, Plans, ObjectSet

\* The plan that saves everything, and the steps that evaluate nothing.
LEMMA OthersKeep ==
    ASSUME SearchInv, Baseline \/ StartLoop \/ OverBudget, makespan' = makespan
    PROVE  SearchInv'
<1>0. IsSearch(search) /\ makespan \in [Plans -> Nat]
    BY Zenon DEF SearchInv
<1>1. CASE Baseline
  <2> DEFINE b == IF Feasible(AllSaved) THEN <<AllSaved>> ELSE <<>>
  <2>1. /\ search'.at = "seed_all" /\ search'.evaluated = {AllSaved}
        /\ search'.best = b /\ search'.current = b
        /\ search'.batch = search.batch /\ IsSearch(search')
      BY Zenon, <1>0, <1>1 DEF Baseline, IsSearch
  <2>2. Fastest(b, {AllSaved})
    <3>1. makespan[AllSaved] \in Nat
        BY Zenon, <1>0, FirstArePlans
    <3> QED
        BY <3>1 DEF Fastest
  <2>3. b = <<>> \/ (Feasible(AllSaved) /\ b = <<AllSaved>>)
      BY Zenon
  <2> HIDE DEF b
  <2>4. Fastest(search.best, search.evaluated)'
      BY Zenon, <2>1, <2>2 DEF Fastest, Feasible
  <2>5. search'.current = <<>> \/ \E p \in search'.evaluated : Feasible(p)' /\ search'.current = <<p>>
      BY Zenon, <2>1, <2>3 DEF Feasible
  <2>6. (FirstChoices(search.at) \subseteq search.evaluated)'
      BY Zenon, <2>1 DEF FirstChoices, AllSaved, SeedAll, SeedHalf
  <2>7. search'.evaluated \subseteq Plans /\ search'.batch \in Nat
      BY Zenon, <2>1, FirstArePlans DEF SearchInv
  <2> QED
      BY SMTT(30), <1>0, <2>1, <2>4, <2>5, <2>6, <2>7 DEF SearchInv, IsSearch, Plans, ObjectSet
<1>2. CASE StartLoop \/ OverBudget
  <2>1. /\ search'.evaluated = search.evaluated /\ search'.best = search.best
        /\ search'.batch = search.batch /\ IsSearch(search')
        /\ search'.current = search.current \/ (StartLoop /\ search'.current = search.best)
        /\ search'.at \in {"failed", "iterate", "done"}
        /\ search.at \in {"start", "iterate", "trial"}
      BY Zenon, <1>0, <1>2 DEF StartLoop, OverBudget, IsSearch
  <2>2. /\ search'.at = "failed" => search'.best = <<>>
        /\ search'.at \in {"iterate", "done"} => search'.best # <<>>
        /\ search'.at = "iterate" => search'.current # <<>>
      BY ZenonT(40), <1>0, <1>2 DEF StartLoop, OverBudget, IsSearch, SearchInv
  <2>3. search.best = <<>> \/ \E p \in search.evaluated : Feasible(p) /\ search.best = <<p>>
      BY Zenon DEF SearchInv, Fastest
  <2>4. search'.current = <<>> \/ \E p \in search'.evaluated : Feasible(p)' /\ search'.current = <<p>>
      BY Zenon, <2>1, <2>3 DEF SearchInv, Feasible
  <2>5. Fastest(search.best, search.evaluated)'
      BY Zenon, <2>1 DEF SearchInv, Fastest, Feasible
  <2>6. (FirstChoices(search.at) \subseteq search.evaluated)'
      BY Zenon, <2>1 DEF SearchInv, FirstChoices, AllSaved, SeedAll, SeedHalf
  <2>7. search'.evaluated \subseteq Plans /\ search'.batch \in Nat
      BY Zenon, <2>1 DEF SearchInv
  <2> QED
      BY Zenon, <1>0, <2>1, <2>2, <2>4, <2>5, <2>6, <2>7 DEF SearchInv, IsSearch, Plans, ObjectSet
<1> QED
    BY Zenon, <1>1, <1>2

\* The invariant holds before anything is evaluated.
LEMMA SearchStarts == SearchInit => SearchInv
<1> SUFFICES ASSUME SearchInit PROVE SearchInv
    BY Zenon
<1>1. makespan \in [Plans -> Nat]
    BY Zenon, MakespansAssumption DEF SearchInit
<1> QED
    BY Zenon, <1>1 DEF SearchInit, SearchInv, IsSearch, FirstChoices, Fastest

\* Every step of the search keeps it.
LEMMA SearchSteps == SearchInv /\ [SearchNext]_searchVars => SearchInv'
<1> SUFFICES ASSUME SearchInv, [SearchNext]_searchVars PROVE SearchInv'
    BY Zenon
<1>1. CASE UNCHANGED searchVars
    BY Zenon, <1>1 DEF searchVars, SearchInv, IsSearch, FirstChoices, Fastest, Feasible, Plans, ObjectSet,
                AllSaved, SeedAll, SeedHalf
<1>2. CASE SearchNext
  <2>1. makespan' = makespan
      BY Zenon, <1>2 DEF SearchNext
  <2>2. CASE Seed("seed_all", SeedAll, "seed_half")
    <3>1. FirstChoices("seed_half") \subseteq FirstChoices("seed_all") \cup {SeedAll}
        BY Zenon DEF FirstChoices
    <3> QED
        BY Zenon, <2>1, <2>2, <3>1, SeedKeeps, FirstArePlans
  <2>3. CASE Seed("seed_half", SeedHalf, "start")
    <3>1. FirstChoices("start") \subseteq FirstChoices("seed_half") \cup {SeedHalf}
        BY Zenon DEF FirstChoices
    <3> QED
        BY Zenon, <2>1, <2>3, <3>1, SeedKeeps, FirstArePlans
  <2> QED
      BY SMTT(30), <1>2, <2>1, <2>2, <2>3, IterateKeeps, TrialKeeps, OthersKeep DEF SearchNext
<1> QED
    BY Zenon, <1>1, <1>2

\* plan_with_recompute returns a feasible plan that is at least as fast as every
\* plan it evaluated, whatever the makespans, the ranking of the candidates and
\* the moment the time budget runs out: SearchNeverLoses.
THEOREM RecomputeNeverLoses ==
    SearchInit /\ [][SearchNext]_searchVars => []SearchNeverLoses
<1>1. SearchInv => SearchNeverLoses
  <2> SUFFICES ASSUME SearchInv PROVE SearchNeverLoses
      BY Zenon
  <2>1. CASE search.at = "done"
    <3>1. PICK p \in search.evaluated :
            /\ search.best = <<p>> /\ Feasible(p)
            /\ \A plan \in search.evaluated : Feasible(plan) => makespan[p] <= makespan[plan]
        BY Zenon, <2>1 DEF SearchInv, Fastest
    <3>2. search.best[1] = p
        BY SMTT(30), <3>1
    <3>3. {AllSaved, SeedAll, SeedHalf} \subseteq search.evaluated
        BY Zenon, <2>1 DEF SearchInv, FirstChoices
    <3>4. search.at # "failed"
        BY Zenon, <2>1
    <3> QED
        BY Zenon, <3>1, <3>2, <3>3, <3>4 DEF SearchNeverLoses
  <2>2. CASE search.at = "failed"
    <3>1. {AllSaved, SeedAll, SeedHalf} \subseteq search.evaluated
        BY Zenon, <2>2 DEF SearchInv, FirstChoices
    <3>2. \A plan \in search.evaluated : ~ Feasible(plan)
      <4>1. search.best = <<>> /\ Fastest(search.best, search.evaluated)
          BY Zenon, <2>2 DEF SearchInv
      <4>2. \A p : <<p>> # <<>>
          BY Zenon
      <4> QED
          BY Zenon, <4>1, <4>2 DEF Fastest
    <3> QED
        BY Zenon, <2>2, <3>1, <3>2 DEF SearchNeverLoses
  <2> QED
      BY Zenon, <2>1, <2>2 DEF SearchNeverLoses
<1> QED
    BY <1>1, SearchStarts, SearchSteps, PTL
=============================================================================
