---------------------------- MODULE StoreProofs ----------------------------
(***************************************************************************)
(* Every extent of the store's slab has one owner, for every slab, every   *)
(* number of calls and every script.  The invariant, BaseInv, is about the *)
(* catalog, the queues, the leases and the payload thread, whatever the    *)
(* bytes are.                                                              *)
(***************************************************************************)
EXTENDS Store, FiniteSetTheorems, WellFoundedInduction, TLAPS

USE ZenonT(40)

Elems(q) == {q[i] : i \in 1 .. Len(q)}
Distinct(q) == \A i, j \in 1 .. Len(q) : q[i] = q[j] => i = j

Records == [ext : Extents \cup {NoExtent}, refs : Nat, protected : BOOLEAN]

\* A catalog and a free list divide the slab.
Divides(c, f) ==
    /\ c \in [Objects -> Records] /\ f \in SUBSET Extents
    /\ \A o \in Objects : c[o].ext \notin f /\ (c[o].ext = NoExtent => c[o].refs = 0)
    /\ \A o, p \in Objects : c[o].ext # NoExtent /\ c[o].ext = c[p].ext => o = p
    /\ \A e \in Extents \ f : \E o \in Objects : c[o].ext = e

SlabInv == script \in Scripts /\ Divides(cat, free)

\* A call that has not been answered is in one place, and has no lease.
QueueInv ==
    /\ fifo \in Seq(Calls) /\ parked \in Seq(Calls)
    /\ hand \in [call : Calls \cup {0}, phase : {"idle", "run", "leased"}, todo : {{}}]
    /\ answer \in [Calls -> {"unsent", "none", "ok", "error"}]
    /\ Distinct(fifo) /\ Distinct(parked) /\ Elems(fifo) \cap Elems(parked) = {}
    /\ hand.phase # "idle" => hand.call # 0
    /\ hand.call \notin Elems(fifo) \cup Elems(parked)
    /\ hand.call # 0 => answer[hand.call] = "none"
    /\ \A c \in Elems(fifo) \cup Elems(parked) : answer[c] = "none"
    /\ \A c \in Calls : answer[c] \in {"unsent", "none"} => lease[c].state = "none"

Maps == UNION {[S -> Extents] : S \in SUBSET Objects}
LeaseType == [state : {"none", "held", "released", "done"}, at : Maps, made : SUBSET Objects]

\* All that call c asked for is leased.
Whole(c) == lease[c].state = "held" /\ DOMAIN lease[c].at = script[c].ids

\* What a call has leased is what it asked for, without what its failure has
\* taken back.
LeaseInv ==
    /\ lease \in [Calls -> LeaseType]
    /\ \A c \in Calls : lease[c].made \subseteq script[c].ids
    /\ \A c \in Calls : lease[c].made # {} => script[c].op = "restore"
    /\ \A c \in Calls : lease[c].state = "held" =>
          /\ script[c].op \in Takers
          /\ Whole(c) \/ DOMAIN lease[c].at = script[c].ids \ lease[c].made

\* The payload thread and its queue: whole leases, in the order of admission.
JobInv ==
    /\ jobs \in Seq(Calls) /\ Distinct(jobs)
    /\ job \in [call : Calls \cup {0}, phase : {"idle", "work", "release"}, todo : SUBSET Objects]
    /\ job.phase = "idle" => job.call = 0
    /\ job.phase # "idle" => job.call # 0
    /\ job.call \notin Elems(jobs)
    /\ \A c \in Elems(jobs) : Whole(c) /\ script[c].op \in {"snapshot", "restore"}
    /\ job.phase = "work" => /\ Whole(job.call) /\ job.todo \subseteq script[job.call].ids
                             /\ script[job.call].op \in {"snapshot", "restore"}
    /\ job.phase = "release" => lease[job.call].state \in {"held", "released"}

\* The objects call c has still to copy or to place.
Todo(c) == IF c = job.call THEN IF job.phase = "work" THEN job.todo ELSE {}
           ELSE IF c \in Elems(jobs) THEN script[c].ids ELSE {}

BytesInv ==
    /\ data \in [Extents -> Nat] /\ want \in [Objects -> Nat]
    /\ image \in [Calls -> [Objects -> Nat]] /\ due \in [Calls -> [Objects -> Nat]]

\* The state of the queues, the tables and the slab, whatever is leased.
BaseInv == SlabInv /\ QueueInv /\ LeaseInv /\ JobInv /\ BytesInv

-----------------------------------------------------------------------------
(***************************************************************************)
(* First fit.                                                              *)
(***************************************************************************)
Rank(T, x) == Cardinality({y \in T : y < x})

\* A set of extents that is not empty has a first one.
LEMMA FirstExists ==
    ASSUME NEW T \in SUBSET Nat, T # {}
    PROVE  \E y \in T : \A z \in T : y <= z
<1>1. PICK y \in T : \A z \in T : ~ (<<z, y>> \in OpToRel(<, Nat))
    BY NatLessThanWellFounded, WFMin
<1>2. \A z \in T : ~ (z < y) /\ z \in Nat /\ y \in Nat
    BY <1>1 DEF OpToRel
<1> QED
    BY <1>2, SMT

\* The rank of a member is a number below the size of the set, larger the larger
\* the member.
LEMMA RankFacts ==
    ASSUME NEW T \in SUBSET Nat, IsFiniteSet(T), NEW x \in T
    PROVE  /\ Rank(T, x) \in Nat /\ Rank(T, x) < Cardinality(T)
           /\ \A z \in T : (z < x <=> Rank(T, z) < Rank(T, x)) /\ (Rank(T, z) = Rank(T, x) => z = x)
<1> DEFINE B(z) == {y \in T : y < z}
<1>1. ASSUME NEW z \in T
      PROVE  IsFiniteSet(B(z)) /\ Cardinality(B(z)) \in Nat /\ Cardinality(B(z)) < Cardinality(T)
  <2>1. B(z) \in SUBSET T /\ z \notin B(z) /\ B(z) # T
      BY SMT
  <2>2. IsFiniteSet(B(z)) /\ Cardinality(B(z)) <= Cardinality(T) /\ Cardinality(T) # Cardinality(B(z))
      BY <2>1, FS_Subset
  <2>3. Cardinality(B(z)) \in Nat /\ Cardinality(T) \in Nat
      BY <2>2, FS_CardinalityType
  <2> QED
      BY <2>2, <2>3, SMT
<1>2. ASSUME NEW z \in T, NEW w \in T, z < w PROVE Cardinality(B(z)) < Cardinality(B(w))
  <2>1. B(z) \in SUBSET B(w) /\ B(z) # B(w)
    <3>1. z \in B(w) /\ z \notin B(z)
        BY <1>2, SMT
    <3>2. \A y \in T : y < z => y < w
        BY <1>2, SMT
    <3> QED
        BY <3>1, <3>2
  <2>2. IsFiniteSet(B(w))
      BY <1>1
  <2>3. Cardinality(B(z)) \in Nat /\ Cardinality(B(w)) \in Nat
      BY <1>1
  <2> HIDE DEF B
  <2>4. Cardinality(B(z)) <= Cardinality(B(w)) /\ Cardinality(B(w)) # Cardinality(B(z))
      BY <2>1, <2>2, FS_Subset
  <2> QED
      BY <2>3, <2>4, SMT
<1>3. \A z \in T : Rank(T, z) = Cardinality(B(z)) /\ (z = x \/ z < x \/ x < z)
    BY SMT DEF Rank
<1> HIDE DEF B
<1> QED
    BY <1>1, <1>2, <1>3, SMT

\* Every number below the size of a set is the rank of a member.
LEMMA RankExists ==
    ASSUME NEW T \in SUBSET Nat, IsFiniteSet(T), NEW k \in Nat, k < Cardinality(T)
    PROVE  \E x \in T : Rank(T, x) = k
<1> DEFINE Bad == {n \in Nat : n < Cardinality(T) /\ ~ \E x \in T : Rank(T, x) = n}
<1>1. SUFFICES Bad = {}
    BY <1>1
<1>2. SUFFICES ASSUME Bad # {} PROVE FALSE
    OBVIOUS
<1>3. PICK n \in Bad : \A m \in Bad : n <= m
    BY <1>2, FirstExists
<1>4. Cardinality(T) \in Nat
    BY FS_CardinalityType
<1>5. CASE n = 0
  <2>1. T # {}
    <3>1. 0 < Cardinality(T)
        BY <1>3, <1>5
    <3> QED
        BY ONLY <3>1, FS_EmptySet, SMT
  <2>2. PICK x \in T : \A z \in T : x <= z
      BY <2>1, FirstExists
  <2>3. {y \in T : y < x} = {}
    <3>1. \A y \in T : ~(y < x)
        BY <2>2, SMT
    <3> QED
        BY <3>1
  <2> QED
      BY <1>3, <1>5, <2>3, FS_EmptySet DEF Rank
<1>6. CASE n # 0
  <2>1. n - 1 \in Nat /\ n - 1 < Cardinality(T) /\ n - 1 \notin Bad
      BY <1>3, <1>4, <1>6, SMT
  <2>2. PICK x \in T : Rank(T, x) = n - 1
      BY <2>1
  <2> DEFINE B == {y \in T : y < x}
             A == {y \in T : x < y}
  <2>3. IsFiniteSet(B) /\ IsFiniteSet(B \cup {x}) /\ Cardinality(B \cup {x}) = n
    <3>1. B \in SUBSET T /\ x \notin B
        BY SMT
    <3>2. IsFiniteSet(B)
        BY <3>1, FS_Subset
    <3>3. IsFiniteSet(B \cup {x}) /\ Cardinality(B \cup {x}) = Cardinality(B) + 1
        BY <3>1, <3>2, FS_AddElement
    <3> QED
        BY <1>3, <2>2, <3>2, <3>3, SMT DEF Rank
  <2>4. A # {}
    <3>1. SUFFICES ASSUME A = {} PROVE FALSE
        OBVIOUS
    <3>2. \A y \in T : y < x \/ y = x
        BY <3>1, SMT
    <3>3. T = B \cup {x}
        BY <3>2
    <3> QED
        BY <1>3, <2>3, <3>3, SMT
  <2>5. PICK w \in A : \A z \in A : w <= z
      BY <2>4, FirstExists
  <2>6. {y \in T : y < w} = B \cup {x}
    <3>1. x < w /\ w \in Nat /\ x \in Nat
        BY <2>5
    <3>2. \A y \in T : y < w <=> y < x \/ y = x
      <4>1. \A y \in T : x < y => ~(y < w)
          BY <2>5, SMT
      <4> QED
          BY <3>1, <4>1, SMT
    <3> QED
        BY <3>2
  <2> QED
      BY <1>3, <2>3, <2>5, <2>6 DEF Rank
<1> QED
    BY <1>5, <1>6

\* Carve gives every object of S a free extent of its own.
LEMMA CarveFacts ==
    ASSUME NEW S \in SUBSET Objects, free \in SUBSET Extents, Cardinality(S) <= Cardinality(free)
    PROVE  /\ DOMAIN Carve(S) = S
           /\ \A o \in S : Carve(S)[o] \in free
           /\ \A o, p \in S : Carve(S)[o] = Carve(S)[p] => o = p
<1>1. S \in SUBSET Nat /\ IsFiniteSet(S) /\ free \in SUBSET Nat /\ IsFiniteSet(free)
    BY FS_Subset, StoreConstants
<1>2. Carve(S) = [o \in S |-> CHOOSE e \in free : Rank(free, e) = Rank(S, o)]
    BY DEF Carve, Rank
<1>3. ASSUME NEW o \in S PROVE Carve(S)[o] \in free /\ Rank(free, Carve(S)[o]) = Rank(S, o)
  <2>1. Rank(S, o) \in Nat /\ Rank(S, o) < Cardinality(S)
      BY <1>1, RankFacts
  <2>2. Cardinality(S) \in Nat /\ Cardinality(free) \in Nat
      BY <1>1, FS_CardinalityType
  <2>3. Rank(S, o) < Cardinality(free)
      BY <2>1, <2>2, SMT
  <2>4. \E e \in free : Rank(free, e) = Rank(S, o)
      BY <1>1, <2>1, <2>3, RankExists
  <2> QED
      BY <1>2, <2>4
<1>4. ASSUME NEW o \in S, NEW p \in S, Carve(S)[o] = Carve(S)[p] PROVE o = p
  <2>1. Rank(S, o) = Rank(S, p)
      BY <1>3, <1>4
  <2> QED
      BY <1>1, <2>1, RankFacts
<1> QED
    BY <1>2, <1>3, <1>4

-----------------------------------------------------------------------------
(***************************************************************************)
(* The catalog and the free list.                                          *)
(***************************************************************************)
\* The catalog and the extents taken when the objects of S are created.
Created(S) == [o \in Objects |-> IF o \in S THEN [Absent EXCEPT !.ext = Carve(S)[o]] ELSE cat[o]]
Taken(S) == {Carve(S)[o] : o \in S}

\* Creating absent objects, as many as there is room for, keeps the division.
LEMMA CreatedDivides ==
    ASSUME Divides(cat, free), NEW S \in SUBSET Objects, \A o \in S : ~Present(o),
           Cardinality(S) <= Cardinality(free)
    PROVE  Divides(Created(S), free \ Taken(S))
<1> DEFINE at == Carve(S)
           ct == Created(S)
<1>1. /\ \A o \in S : at[o] \in free
      /\ \A o, p \in S : at[o] = at[p] => o = p
    BY CarveFacts DEF Divides
<1>2. free \in SUBSET Extents /\ NoExtent \notin Extents
    BY StoreConstants DEF Divides
<1>3. ASSUME NEW o \in S PROVE ct[o].ext = at[o] /\ ct[o].refs = 0 /\ ct[o] \in Records
  <2>1. ct[o] = [ext |-> at[o], refs |-> 0, protected |-> FALSE]
      BY DEF Created, Absent
  <2>2. at[o] \in Extents
      BY <1>1, <1>2
  <2> HIDE DEF at, ct
  <2> QED
      BY <2>1, <2>2, SMT DEF Records
<1>4. \A o \in Objects \ S : ct[o] = cat[o]
    BY DEF Created
<1>5. \A e : e \in Taken(S) <=> \E o \in S : e = at[o]
    BY DEF Taken
<1>6. DOMAIN ct = Objects /\ ct = [o \in Objects |-> ct[o]]
    BY DEF Created
<1> HIDE DEF at, ct
<1>7. ct \in [Objects -> Records]
  <2>1. ASSUME NEW o \in Objects PROVE ct[o] \in Records
    <3>1. CASE o \in S
        BY <1>3, <3>1
    <3>2. CASE o \notin S
        BY <1>4, <3>2 DEF Divides
    <3> QED
        BY <3>1, <3>2
  <2> QED
      BY <1>6, <2>1
<1>8. \A o \in Objects : ct[o].ext \notin free \ Taken(S) /\ (ct[o].ext = NoExtent => ct[o].refs = 0)
    BY <1>3, <1>4, <1>5 DEF Divides
<1>9. ASSUME NEW o \in Objects, NEW p \in Objects, ct[o].ext # NoExtent, ct[o].ext = ct[p].ext
      PROVE  o = p
  <2>1. CASE o \in S /\ p \in S
      BY <1>1, <1>3, <1>9, <2>1
  <2>2. CASE o \notin S /\ p \notin S
      BY <1>4, <1>9, <2>2 DEF Divides
  <2>3. CASE o \in S /\ p \notin S
      BY <1>1, <1>3, <1>4, <1>9, <2>3, SMT DEF Divides
  <2>4. CASE o \notin S /\ p \in S
      BY <1>1, <1>3, <1>4, <1>9, <2>4, SMT DEF Divides
  <2> QED
      BY <2>1, <2>2, <2>3, <2>4
<1>10. ASSUME NEW e \in Extents \ (free \ Taken(S)) PROVE \E o \in Objects : ct[o].ext = e
  <2>1. CASE e \in Taken(S)
      BY <1>3, <1>5, <2>1, SMT
  <2>2. CASE e \notin free
    <3>1. PICK o \in Objects : cat[o].ext = e
        BY <2>2 DEF Divides
    <3>2. o \notin S
        BY <1>2, <3>1 DEF Present
    <3> QED
        BY <1>4, <3>1, <3>2
  <2> QED
      BY <2>1, <2>2
<1>11. ct = Created(S)
    BY DEF ct
<1> QED
    BY <1>2, <1>7, <1>8, <1>9, <1>10, <1>11 DEF Divides

\* Dropping records gives their extents back.
LEMMA DropDivides ==
    ASSUME Divides(cat, free), NEW S \in SUBSET Objects, Drop(S)
    PROVE  /\ Divides(cat', free')
           /\ \A o \in S : cat'[o] = Absent
           /\ \A o \in Objects \ S : cat'[o] = cat[o]
<1> DEFINE back == {cat[o].ext : o \in {p \in S : Present(p)}}
<1>1. /\ cat' = [o \in Objects |-> IF o \in S THEN Absent ELSE cat[o]]
      /\ free' = free \cup back
    BY DEF Drop
<1>2. \A e : e \in back <=> \E o \in S : cat[o].ext # NoExtent /\ cat[o].ext = e
    BY DEF Present
<1>3. NoExtent \notin Extents
    BY StoreConstants
<1>4. \A o \in S : cat'[o] = Absent /\ cat'[o].ext = NoExtent /\ cat'[o].refs = 0
    BY <1>1 DEF Absent
<1>5. \A o \in Objects \ S : cat'[o] = cat[o]
    BY <1>1
<1> HIDE DEF back
<1>6. cat' \in [Objects -> Records]
    BY <1>1 DEF Divides, Records, Absent
<1>7. free' \in SUBSET Extents
    BY <1>1, <1>2, SMT DEF Divides, Records
<1>8. \A o \in Objects : cat'[o].ext \notin free' /\ (cat'[o].ext = NoExtent => cat'[o].refs = 0)
    BY <1>1, <1>2, <1>3, <1>4, <1>5, <1>7, SMTT(30) DEF Divides
<1>9. \A o, p \in Objects : cat'[o].ext # NoExtent /\ cat'[o].ext = cat'[p].ext => o = p
    BY <1>4, <1>5, SMT DEF Divides
<1>10. ASSUME NEW e \in Extents \ free' PROVE \E o \in Objects : cat'[o].ext = e
  <2>1. PICK o \in Objects : cat[o].ext = e
      BY <1>1 DEF Divides
  <2>2. o \notin S
      BY <1>1, <1>2, <1>3, <2>1
  <2> QED
      BY <1>5, <2>1, <2>2
<1> QED
    BY <1>4, <1>5, <1>6, <1>7, <1>8, <1>9, <1>10 DEF Divides

\* References and protection have nothing to do with the division.
LEMMA FlagsDivide ==
    ASSUME NEW c, NEW d, NEW f, Divides(c, f), d \in [Objects -> Records],
           \A o \in Objects : d[o].ext = c[o].ext /\ (d[o].ext = NoExtent => d[o].refs = 0)
    PROVE  Divides(d, f)
BY SMT DEF Divides

-----------------------------------------------------------------------------
(***************************************************************************)
(* Queues.                                                                 *)
(***************************************************************************)
\* A queue holds calls.
LEMMA ElemsCalls ==
    ASSUME NEW q \in Seq(Calls)
    PROVE  Elems(q) \subseteq Calls /\ 0 \notin Elems(q)
<1>1. \A i \in 1 .. Len(q) : q[i] \in Calls
    BY SMT
<1>2. 0 \notin Calls
    BY SMT DEF Calls
<1> QED
    BY <1>1, <1>2 DEF Elems

\* A queue whose head has been taken.
LEMMA TailFacts ==
    ASSUME NEW q \in Seq(Calls), q # <<>>
    PROVE  /\ Head(q) \in Calls /\ Tail(q) \in Seq(Calls)
           /\ Head(q) \in Elems(q) /\ Elems(Tail(q)) \subseteq Elems(q)
           /\ Distinct(q) => Distinct(Tail(q)) /\ Head(q) \notin Elems(Tail(q))
<1>1. /\ Len(q) \in Nat \ {0} /\ Head(q) = q[1] /\ Len(Tail(q)) = Len(q) - 1
      /\ Tail(q) \in Seq(Calls) /\ Head(q) \in Calls
      /\ \A i \in 1 .. Len(q) - 1 : Tail(q)[i] = q[i + 1] /\ i + 1 \in 1 .. Len(q) /\ i + 1 # 1
    BY SMT
<1>2. 1 \in 1 .. Len(q)
    BY <1>1, SMT
<1>3. Distinct(q) => Distinct(Tail(q))
    BY <1>1, SMT DEF Distinct
<1> QED
    BY <1>1, <1>2, <1>3, SMT DEF Elems, Distinct

\* A queue at whose end a call is put.
LEMMA AppendFacts ==
    ASSUME NEW q \in Seq(Calls), NEW c \in Calls
    PROVE  /\ Append(q, c) \in Seq(Calls) /\ Elems(Append(q, c)) = Elems(q) \cup {c}
           /\ Distinct(q) /\ c \notin Elems(q) => Distinct(Append(q, c))
<1> DEFINE w == Append(q, c)
<1>1. /\ Len(q) \in Nat /\ Len(w) = Len(q) + 1 /\ w \in Seq(Calls)
      /\ \A i \in 1 .. Len(q) : w[i] = q[i] /\ i \in 1 .. Len(w)
      /\ w[Len(q) + 1] = c /\ Len(q) + 1 \in 1 .. Len(w)
    BY SMT
<1>2. \A i \in 1 .. Len(w) : i \in 1 .. Len(q) \/ i = Len(q) + 1
    BY <1>1, SMT
<1> HIDE DEF w
<1>3. Elems(w) = Elems(q) \cup {c}
  <2>1. ASSUME NEW x \in Elems(w) PROVE x \in Elems(q) \/ x = c
      BY <1>1, <1>2 DEF Elems
  <2>2. \A x \in Elems(q) : x \in Elems(w)
      BY <1>1 DEF Elems
  <2>3. c \in Elems(w)
      BY <1>1 DEF Elems
  <2> QED
      BY <2>1, <2>2, <2>3
<1>4. ASSUME Distinct(q), c \notin Elems(q) PROVE Distinct(w)
    BY <1>1, <1>2, <1>4 DEF Distinct, Elems
<1> QED
    BY <1>1, <1>3, <1>4 DEF w

\* A queue at whose end another one is put.
LEMMA ConcatFacts ==
    ASSUME NEW q \in Seq(Calls), NEW v \in Seq(Calls)
    PROVE  /\ q \o v \in Seq(Calls) /\ Elems(q \o v) = Elems(q) \cup Elems(v)
           /\ Distinct(q) /\ Distinct(v) /\ Elems(q) \cap Elems(v) = {} => Distinct(q \o v)
<1> DEFINE w == q \o v
<1>1. /\ Len(q) \in Nat /\ Len(v) \in Nat /\ w \in Seq(Calls) /\ Len(w) = Len(q) + Len(v)
      /\ \A i \in 1 .. Len(q) : w[i] = q[i] /\ i \in 1 .. Len(w)
      /\ \A i \in 1 .. Len(v) : w[Len(q) + i] = v[i] /\ Len(q) + i \in 1 .. Len(w)
    BY SMT
<1>2. \A i \in 1 .. Len(w) :
         \/ i \in 1 .. Len(q) /\ w[i] = q[i]
         \/ i - Len(q) \in 1 .. Len(v) /\ w[i] = v[i - Len(q)]
    BY SMT
<1> HIDE DEF w
<1>3. Elems(w) = Elems(q) \cup Elems(v)
  <2>1. ASSUME NEW x \in Elems(w) PROVE x \in Elems(q) \/ x \in Elems(v)
      BY <1>2 DEF Elems
  <2>2. \A x \in Elems(q) : x \in Elems(w)
      BY <1>1 DEF Elems
  <2>3. \A x \in Elems(v) : x \in Elems(w)
      BY <1>1 DEF Elems
  <2> QED
      BY <2>1, <2>2, <2>3
<1>4. ASSUME Distinct(q), Distinct(v), Elems(q) \cap Elems(v) = {} PROVE Distinct(w)
  <2> SUFFICES ASSUME NEW i \in 1 .. Len(w), NEW j \in 1 .. Len(w), w[i] = w[j] PROVE i = j
      BY DEF Distinct
  <2>1. CASE i \in 1 .. Len(q) /\ w[i] = q[i] /\ j \in 1 .. Len(q) /\ w[j] = q[j]
      BY <1>4, <2>1 DEF Distinct
  <2>2. CASE /\ i - Len(q) \in 1 .. Len(v) /\ w[i] = v[i - Len(q)]
             /\ j - Len(q) \in 1 .. Len(v) /\ w[j] = v[j - Len(q)]
    <3>1. i - Len(q) = j - Len(q)
        BY <1>4, <2>2 DEF Distinct
    <3> QED
        BY <1>1, <3>1, SMT
  <2>3. CASE i \in 1 .. Len(q) /\ w[i] = q[i] /\ j - Len(q) \in 1 .. Len(v) /\ w[j] = v[j - Len(q)]
    <3>1. w[i] \in Elems(q) /\ w[j] \in Elems(v)
        BY <2>3 DEF Elems
    <3> QED
        BY <1>4, <3>1
  <2>4. CASE j \in 1 .. Len(q) /\ w[j] = q[j] /\ i - Len(q) \in 1 .. Len(v) /\ w[i] = v[i - Len(q)]
    <3>1. w[j] \in Elems(q) /\ w[i] \in Elems(v)
        BY <2>4 DEF Elems
    <3> QED
        BY <1>4, <3>1
  <2> QED
      BY <1>2, <2>1, <2>2, <2>3, <2>4
<1> QED
    BY <1>1, <1>3, <1>4 DEF w

\* No call but c comes by a lease.
OthersIdle(c) == \A d \in Calls \ {c} : lease[d].state = "none" => lease'[d].state = "none"

Unparks == fifo' = fifo \o parked /\ parked' = <<>>

\* The parked calls go back to the dispatcher's queue.
LEMMA UnparkFacts ==
    ASSUME QueueInv, Unparks
    PROVE  /\ fifo' \in Seq(Calls) /\ parked' \in Seq(Calls)
           /\ Distinct(fifo') /\ Distinct(parked')
           /\ Elems(fifo') = Elems(fifo) \cup Elems(parked) /\ Elems(parked') = {}
<1>1. /\ fifo' \in Seq(Calls) /\ Distinct(fifo') /\ Elems(fifo') = Elems(fifo) \cup Elems(parked)
    BY ConcatFacts DEF QueueInv, Unparks
<1>2. parked' \in Seq(Calls) /\ Len(parked') = 0
    BY SMT DEF Unparks
<1>3. Distinct(parked') /\ Elems(parked') = {}
    BY <1>2, SMT DEF Distinct, Elems
<1> QED
    BY <1>1, <1>2, <1>3

\* The call in hand is answered.
LEMMA RepliesQueue ==
    ASSUME QueueInv, NEW c \in Calls, hand.call = c, NEW r \in {"ok", "error"}, Replies(c, r),
           UNCHANGED <<fifo, parked>> \/ Unparks, OthersIdle(c)
    PROVE  QueueInv'
<1>1. /\ fifo' \in Seq(Calls) /\ parked' \in Seq(Calls)
      /\ Distinct(fifo') /\ Distinct(parked') /\ Elems(fifo') \cap Elems(parked') = {}
      /\ Elems(fifo') \cup Elems(parked') = Elems(fifo) \cup Elems(parked)
  <2>1. CASE UNCHANGED <<fifo, parked>>
      BY <2>1 DEF QueueInv
  <2>2. CASE Unparks
      BY <2>2, UnparkFacts
  <2> QED
      BY <2>1, <2>2
<1>2. hand' = Nowhere /\ hand'.call = 0 /\ hand'.phase = "idle"
    BY DEF Replies, Nowhere
<1>3. hand' \in [call : Calls \cup {0}, phase : {"idle", "run", "leased"}, todo : {{}}]
    BY <1>2 DEF Nowhere
<1>4. /\ answer' \in [Calls -> {"unsent", "none", "ok", "error"}] /\ answer'[c] = r
      /\ \A d \in Calls \ {c} : answer'[d] = answer[d]
    BY DEF Replies, QueueInv
<1>5. 0 \notin Elems(fifo') \cup Elems(parked') /\ Elems(fifo) \cup Elems(parked) \subseteq Calls
    BY <1>1, ElemsCalls DEF QueueInv
<1>6. \A d \in Elems(fifo') \cup Elems(parked') : answer'[d] = "none"
    BY <1>1, <1>4, <1>5, SMT DEF QueueInv
<1>7. \A d \in Calls : answer'[d] \in {"unsent", "none"} => lease'[d].state = "none"
    BY <1>4 DEF QueueInv, OthersIdle
<1> QED
    BY <1>1, <1>2, <1>3, <1>4, <1>5, <1>6, <1>7 DEF QueueInv

\* The call in hand has met a lease.
LEMMA RaisesLeasedQueue ==
    ASSUME QueueInv, NEW c \in Calls, hand.call = c, RaisesLeased(c), UNCHANGED <<fifo, parked, lease>>
    PROVE  QueueInv'
<1>1. c # 0
    BY SMT DEF Calls
<1>2. /\ hand' \in [call : Calls \cup {0}, phase : {"idle", "run", "leased"}, todo : {{}}]
      /\ hand'.call = hand.call /\ answer' = answer
    BY DEF RaisesLeased, QueueInv
<1> QED
    BY <1>1, <1>2 DEF QueueInv

\* Between calls: submission, the next call, parking and unparking.
LEMMA BetweenCalls ==
    ASSUME QueueInv, UNCHANGED lease, TakeCall \/ Park \/ \E c \in Calls : Submit(c)
    PROVE  QueueInv'
<1>1. CASE TakeCall
  <2>1. /\ Head(fifo) \in Calls /\ Tail(fifo) \in Seq(Calls)
        /\ Head(fifo) \in Elems(fifo) /\ Elems(fifo') \subseteq Elems(fifo)
        /\ Distinct(fifo') /\ Head(fifo) \notin Elems(fifo')
      BY <1>1, TailFacts DEF QueueInv, TakeCall
  <2>2. hand' = [call |-> Head(fifo), phase |-> "run", todo |-> {}]
      BY <1>1 DEF TakeCall, Nowhere
  <2>3. /\ hand' \in [call : Calls \cup {0}, phase : {"idle", "run", "leased"}, todo : {{}}]
        /\ hand'.call = Head(fifo)
      BY <2>1, <2>2
  <2>4. Head(fifo) # 0
      BY <2>1, SMT DEF Calls
  <2>5. fifo' = Tail(fifo) /\ UNCHANGED <<parked, answer>>
      BY <1>1 DEF TakeCall
  <2> QED
      BY <2>1, <2>3, <2>4, <2>5 DEF QueueInv
<1>2. CASE Park
  <2>1. hand.call \in Calls
      BY <1>2 DEF Park, QueueInv
  <2>2. /\ parked' \in Seq(Calls) /\ Elems(parked') = Elems(parked) \cup {hand.call}
        /\ Distinct(parked')
      BY <1>2, <2>1, AppendFacts DEF Park, QueueInv
  <2>3. /\ hand' \in [call : Calls \cup {0}, phase : {"idle", "run", "leased"}, todo : {{}}]
        /\ hand'.call = 0 /\ hand'.phase = "idle"
      BY <1>2 DEF Park, Nowhere
  <2>4. UNCHANGED <<fifo, answer>>
      BY <1>2 DEF Park
  <2>5. 0 \notin Elems(fifo') /\ Elems(fifo') = Elems(fifo) /\ Elems(parked) \subseteq Calls /\ 0 \notin Calls
      BY <2>4, ElemsCalls, SMT DEF QueueInv, Calls
  <2>6. 0 \notin Elems(parked')
      BY <2>1, <2>2, <2>5
  <2> QED
      BY <2>1, <2>2, <2>3, <2>4, <2>5, <2>6, SMT DEF QueueInv
<1>3. ASSUME NEW c \in Calls, Submit(c) PROVE QueueInv'
  <2>1. answer[c] = "unsent" /\ c \notin Elems(fifo) /\ c \notin Elems(parked) /\ c # hand.call
    <3>1. answer[c] = "unsent"
        BY <1>3 DEF Submit
    <3>2. c # 0
        BY ONLY c \in Calls, StoreConstants, SMT DEF Calls
    <3> QED
        BY <1>3, <3>1, <3>2 DEF QueueInv
  <2>2. /\ fifo' \in Seq(Calls) /\ Elems(fifo') = Elems(fifo) \cup {c} /\ Distinct(fifo')
      BY <1>3, <2>1, AppendFacts DEF Submit, QueueInv
  <2>3. UNCHANGED <<hand, parked>>
      BY <1>3 DEF Submit
  <2>4. /\ answer' \in [Calls -> {"unsent", "none", "ok", "error"}] /\ answer'[c] = "none"
        /\ \A d \in Calls \ {c} : answer'[d] = answer[d]
      BY <1>3 DEF Submit, QueueInv
  <2>5. Elems(parked') = Elems(parked) /\ Distinct(parked') /\ Elems(fifo) \cup Elems(parked) \subseteq Calls
      BY <2>3, ElemsCalls DEF QueueInv
  <2> QED
      BY <2>1, <2>2, <2>3, <2>4, <2>5 DEF QueueInv
<1> QED
    BY <1>1, <1>2, <1>3

-----------------------------------------------------------------------------
(***************************************************************************)
(* Leases and jobs.                                                        *)
(***************************************************************************)
\* What the scripts say of a call.
LEMMA CallFacts ==
    ASSUME script \in Scripts, NEW c \in Calls
    PROVE  /\ script[c].ids \subseteq Objects /\ script[c].out \subseteq Objects
           /\ script[c].fails \in BOOLEAN
           /\ script[c].op \in {"put", "create", "duplicate", "release", "protect", "send"} =>
                 /\ Only(script[c].ids) \in Objects /\ script[c].ids = {Only(script[c].ids)}
           /\ script[c].op = "duplicate" => Only(script[c].out) \in Objects
           /\ script[c].out # {} => script[c].out = {Only(script[c].out)}
<1>1. CallRecord(script[c])
    BY StoreConstants
<1>2. \A o : Only({o}) = o
    BY DEF Only
<1>3. \A S : S # {} => Only(S) \in S
    BY DEF Only
<1>4. ASSUME script[c].out # {} PROVE script[c].out = {Only(script[c].out)}
    BY <1>1, <1>3, <1>4 DEF CallRecord
<1> QED
    BY <1>1, <1>2, <1>3, <1>4 DEF CallRecord

\* A call in hand has no lease and no job.
LEMMA HandFacts ==
    ASSUME QueueInv, LeaseInv, JobInv, NEW c \in Calls, hand.call = c
    PROVE  /\ lease[c].state = "none" /\ c \notin Elems(jobs) /\ c # job.call
           /\ answer[c] = "none"
<1>1. lease[c].state = "none" /\ answer[c] = "none"
    BY SMT DEF QueueInv, Calls
<1>2. c # 0
    BY SMT DEF Calls
<1> QED
    BY <1>1, <1>2 DEF JobInv, Whole

\* acquire_leases: the call holds all it asked for, and its job is queued.
LEMMA AcquireFacts ==
    ASSUME QueueInv, LeaseInv, JobInv, script \in Scripts, NEW c \in Calls, hand.call = c,
           NEW ct \in [Objects -> Records], NEW made \in SUBSET script[c].ids,
           \A o \in script[c].ids : ct[o].ext \in Extents,
           script[c].op \in Takers, made # {} => script[c].op = "restore",
           Acquire(c, ct, made), UNCHANGED <<script, job>>,
           \/ script[c].op = "send" /\ UNCHANGED jobs
           \/ script[c].op # "send" /\ jobs' = Append(jobs, c)
    PROVE  /\ LeaseInv' /\ JobInv' /\ OthersIdle(c)
           /\ cat' \in [Objects -> Records] /\ \A o \in Objects : cat'[o].ext = ct[o].ext
<1> DEFINE ids == script[c].ids
           at == [o \in ids |-> ct[o].ext]
           new == [state |-> "held", made |-> made, at |-> at]
<1>1. ids \in SUBSET Objects
    BY CallFacts
<1>2. at \in Maps
    BY <1>1, SMT DEF Maps
<1>3. /\ new \in LeaseType /\ new.state = "held" /\ new.made = made
      /\ new.at = at /\ DOMAIN at = ids
  <2> HIDE DEF at
  <2>1. new \in LeaseType /\ new.state = "held" /\ new.made = made /\ new.at = at
      BY <1>1, <1>2 DEF LeaseType
  <2>2. DOMAIN at = ids
      BY DEF at
  <2> QED
      BY <2>1, <2>2
<1>4. lease' = [lease EXCEPT ![c] = new]
    BY DEF Acquire
<1> HIDE DEF new, at, ids
<1>5. /\ lease' \in [Calls -> LeaseType] /\ lease'[c] = new
      /\ \A d \in Calls \ {c} : lease'[d] = lease[d]
    BY <1>3, <1>4 DEF LeaseInv
<1>6. lease[c].state = "none" /\ c \notin Elems(jobs) /\ c # job.call
    BY HandFacts
<1>7. OthersIdle(c)
    BY <1>5 DEF OthersIdle
<1>8. LeaseInv'
  <2>1. ASSUME NEW d \in Calls
        PROVE  /\ lease'[d].made \subseteq script[d].ids
               /\ lease'[d].made # {} => script[d].op = "restore"
               /\ lease'[d].state = "held" =>
                    /\ script[d].op \in Takers
                    /\ \/ lease'[d].state = "held" /\ DOMAIN lease'[d].at = script[d].ids
                       \/ DOMAIN lease'[d].at = script[d].ids \ lease'[d].made
    <3>1. CASE d = c
        BY <1>3, <1>5, <3>1 DEF ids
    <3>2. CASE d # c
        BY <1>5, <3>2 DEF LeaseInv, Whole
    <3> QED
        BY <3>1, <3>2
  <2> QED
      BY <1>5, <2>1 DEF LeaseInv, Whole
<1>9. JobInv'
  <2>1. /\ jobs' \in Seq(Calls) /\ Distinct(jobs')
        /\ Elems(jobs') \subseteq Elems(jobs) \cup {c}
        /\ c \in Elems(jobs') => script[c].op # "send"
    <3>1. CASE UNCHANGED jobs
        BY <1>6, <3>1 DEF JobInv
    <3>2. CASE script[c].op # "send" /\ jobs' = Append(jobs, c)
        BY <1>6, <3>2, AppendFacts DEF JobInv
    <3> QED
        BY <3>1, <3>2
  <2>2. Elems(jobs) \subseteq Calls
      BY ElemsCalls DEF JobInv
  <2>3. ASSUME NEW d \in Elems(jobs')
        PROVE  /\ lease'[d].state = "held" /\ DOMAIN lease'[d].at = script[d].ids
               /\ script[d].op \in {"snapshot", "restore"}
    <3>1. CASE d = c
        BY <1>3, <1>5, <2>1, <2>3, <3>1 DEF Takers, ids
    <3>2. CASE d # c
        BY <1>5, <2>1, <2>2, <2>3, <3>2 DEF JobInv, Whole
    <3> QED
        BY <3>1, <3>2
  <2>4. job.call # 0 => lease'[job.call] = lease[job.call]
      BY <1>5, <1>6 DEF JobInv
  <2>5. job' = job /\ script' = script
      OBVIOUS
  <2>6. job.call \notin Elems(jobs')
      BY <1>6, <2>1 DEF JobInv
  <2> QED
      BY <2>1, <2>3, <2>4, <2>5, <2>6 DEF JobInv, Whole
<1>10. cat' = [o \in Objects |-> IF o \in ids THEN [ct[o] EXCEPT !.refs = @ + 1] ELSE ct[o]]
    BY DEF Acquire, ids
<1>11. ASSUME NEW o \in Objects PROVE cat'[o] \in Records /\ cat'[o].ext = ct[o].ext
  <2> DEFINE r == ct[o]
  <2>1. r \in Records
      OBVIOUS
  <2>2. cat'[o] = r \/ cat'[o] = [r EXCEPT !.refs = @ + 1]
      BY <1>10
  <2> HIDE DEF r
  <2>3. cat'[o] \in Records /\ cat'[o].ext = r.ext
      BY <2>1, <2>2, SMT DEF Records
  <2> QED
      BY <2>3 DEF r
<1> QED
    BY <1>7, <1>8, <1>9, <1>10, <1>11

-----------------------------------------------------------------------------
(***************************************************************************)
(* Steps that leave leases and jobs alone.                                 *)
(***************************************************************************)
\* Bytes change together with what is wanted, and not under a lease.
Kept ==
    /\ data' \in [Extents -> Nat] /\ want' \in [Objects -> Nat]
    /\ \A o \in Objects : cat'[o].ext # NoExtent =>
          \/ ~IsLeased(o) /\ data'[cat'[o].ext] = want'[o]
          \/ /\ cat'[o].ext = cat[o].ext /\ want'[o] = want[o]
             /\ data'[cat'[o].ext] = data[cat[o].ext]

\* References stay, and a record with references stays.
RefsKept ==
    \A o \in Objects : cat'[o].refs = cat[o].refs /\ (IsLeased(o) => cat'[o].ext = cat[o].ext)

Plain ==
    /\ UNCHANGED <<script, lease, jobs, job, image, due>>
    /\ QueueInv' /\ Divides(cat', free') /\ RefsKept /\ Kept

\* No object is leased without being there.
LEMMA LeasedPresent ==
    ASSUME Divides(cat, free), NEW o \in Objects
    PROVE  /\ cat[o].refs \in Nat /\ cat[o].ext \in Extents \cup {NoExtent}
           /\ IsLeased(o) => Present(o)
           /\ ~IsLeased(o) => cat[o].refs = 0
BY SMT DEF Divides, Records, IsLeased, Present

\* A step that does not touch the store.
LEMMA StoreSame ==
    ASSUME BaseInv, UNCHANGED <<cat, free, data, want>>
    PROVE  Divides(cat', free') /\ RefsKept /\ Kept
BY DEF BaseInv, SlabInv, BytesInv, RefsKept, Kept, Divides

\* Creating absent objects.
LEMMA CreateFacts ==
    ASSUME BaseInv, NEW S \in SUBSET Objects, \A o \in S : ~Present(o),
           Cardinality(S) <= Cardinality(free), Create(S)
    PROVE  /\ Divides(cat', free') /\ RefsKept
           /\ \A o \in S : cat'[o].ext = Carve(S)[o] /\ Carve(S)[o] \in free /\ ~IsLeased(o)
           /\ \A o \in Objects \ S : cat'[o] = cat[o]
<1>1. cat' = Created(S) /\ free' = free \ Taken(S) /\ Divides(cat, free)
    BY DEF Create, Created, Taken, BaseInv, SlabInv
<1>2. Divides(cat', free')
    BY <1>1, CreatedDivides
<1>3. ASSUME NEW o \in S PROVE cat'[o].ext = Carve(S)[o] /\ cat'[o].refs = 0
  <2>1. cat'[o] = [ext |-> Carve(S)[o], refs |-> 0, protected |-> FALSE]
      BY <1>1 DEF Created, Absent
  <2> QED
      BY <2>1, SMT
<1>4. \A o \in Objects \ S : cat'[o] = cat[o]
    BY <1>1 DEF Created
<1>5. \A o \in S : cat[o].refs = 0 /\ ~IsLeased(o)
    BY <1>1, LeasedPresent
<1>6. \A o \in S : Carve(S)[o] \in free
    BY <1>1, CarveFacts DEF Divides
<1>7. RefsKept
    BY <1>3, <1>4, <1>5 DEF RefsKept
<1> QED
    BY <1>2, <1>3, <1>4, <1>5, <1>6, <1>7

\* There is room for one object in a free list that is not empty.
LEMMA RoomForOne ==
    ASSUME BaseInv, NEW o \in Objects, free # {}
    PROVE  Cardinality({o}) <= Cardinality(free)
<1>1. IsFiniteSet(free) /\ Cardinality(free) \in Nat
    BY FS_Subset, FS_CardinalityType, StoreConstants DEF BaseInv, SlabInv, Divides
<1>2. Cardinality(free) # 0
    BY <1>1, FS_EmptySet
<1>3. Cardinality({o}) = 1
    BY FS_Singleton
<1> QED
    BY <1>1, <1>2, <1>3, SMT

\* The objects of S, none of them leased, get their bytes: the same everywhere,
\* or to each what its extent has.
LEMMA WritesKept ==
    ASSUME BaseInv, Divides(cat', free'), NEW S \in SUBSET Objects,
           \A o \in S : cat'[o].ext # NoExtent /\ ~IsLeased(o),
           \A o \in Objects \ S : cat'[o].ext = cat[o].ext,
           data' \in [Extents -> Nat],
           \A e \in Extents : (~ \E o \in S : cat'[o].ext = e) => data'[e] = data[e],
           want' = [o \in Objects |-> IF o \in S THEN data'[cat'[o].ext] ELSE want[o]]
    PROVE  Kept
<1>1. \A o \in Objects : cat'[o].ext \in Extents \cup {NoExtent}
    BY DEF Divides, Records
<1>2. want \in [Objects -> Nat]
    BY DEF BaseInv, BytesInv
<1>3. \A o \in S : want'[o] = data'[cat'[o].ext] /\ want'[o] \in Nat
    BY <1>1
<1>4. \A o \in Objects \ S : want'[o] = want[o] /\ want'[o] \in Nat
    BY <1>2
<1>5. want' \in [Objects -> Nat]
    BY <1>3, <1>4
<1>6. ASSUME NEW o \in Objects \ S, cat'[o].ext # NoExtent
      PROVE  data'[cat'[o].ext] = data[cat[o].ext]
  <2>1. cat'[o].ext \in Extents /\ cat'[o].ext = cat[o].ext
      BY <1>1, <1>6
  <2>2. ~ \E p \in S : cat'[p].ext = cat'[o].ext
      BY <1>6 DEF Divides
  <2> QED
      BY <2>1, <2>2
<1> QED
    BY <1>3, <1>4, <1>5, <1>6 DEF Kept

\* A handler ends: it replies, or raises LEASED.
LEMMA EndsQueue ==
    ASSUME BaseInv, NEW c \in Calls, hand.call = c, UNCHANGED <<fifo, parked, lease>>,
           Replies(c, "ok") \/ Replies(c, "error") \/ RaisesLeased(c)
    PROVE  QueueInv'
<1>1. QueueInv /\ OthersIdle(c)
    BY DEF BaseInv, OthersIdle
<1> QED
    BY <1>1, RepliesQueue, RaisesLeasedQueue

\* put_object, create_object and materialize_object.
LEMMA PutPlain ==
    ASSUME BaseInv, NEW c \in Calls, Put(c), UNCHANGED script
    PROVE  Plain
<1> DEFINE o == Only(script[c].ids)
           bytes(e) == IF script[c].op = "put" THEN c ELSE data[e]
           Fills(e) == /\ data' = [data EXCEPT ![e] = bytes(e)]
                       /\ want' = [want EXCEPT ![o] = bytes(e)]
                       /\ \/ Replies(c, "ok")
                          \/ script[c].fails /\ Replies(c, "error")
<1>1. /\ hand.call = c /\ script[c].op \in {"put", "create"}
      /\ UNCHANGED <<fifo, parked, jobs, lease, job, image, due>>
    BY DEF Put, Handles, queues
<1>2. o \in Objects /\ c \in Nat
    BY <1>1, CallFacts, SMT DEF BaseInv, SlabInv, Calls
<1>3. Divides(cat, free) /\ data \in [Extents -> Nat] /\ want \in [Objects -> Nat]
    BY DEF BaseInv, SlabInv, BytesInv
<1>4. ASSUME NEW e \in Extents, Fills(e), Divides(cat', free'), cat'[o].ext = e, ~IsLeased(o),
             \A p \in Objects \ {o} : cat'[p].ext = cat[p].ext
      PROVE  QueueInv' /\ Kept
  <2>1. QueueInv'
      BY <1>1, <1>4, EndsQueue
  <2>2. bytes(e) \in Nat
      BY <1>2, <1>3
  <2>3. /\ data' \in [Extents -> Nat] /\ data'[e] = bytes(e)
        /\ \A f \in Extents \ {e} : data'[f] = data[f]
      BY <1>3, <1>4, <2>2
  <2>4. want' = [p \in Objects |-> IF p \in {o} THEN data'[cat'[p].ext] ELSE want[p]]
      BY <1>2, <1>3, <1>4, <2>2, <2>3
  <2>5. NoExtent \notin Extents
      BY StoreConstants
  <2> HIDE DEF o, bytes, Fills
  <2>6. Kept
      BY <1>2, <1>4, <2>3, <2>4, <2>5, WritesKept
  <2> QED
      BY <2>1, <2>6
<1>5. CASE UNCHANGED <<cat, free, data, want>> /\ (RaisesLeased(c) \/ Replies(c, "error"))
    BY <1>1, <1>5, StoreSame, EndsQueue DEF Plain
<1>6. CASE Present(o) /\ ~IsLeased(o) /\ Fills(cat[o].ext) /\ UNCHANGED <<cat, free>>
  <2>1. cat[o].ext \in Extents
      BY <1>2, <1>3, <1>6, LeasedPresent DEF Present
  <2>2. Divides(cat', free') /\ RefsKept
      BY <1>3, <1>6 DEF RefsKept
  <2>3. QueueInv' /\ Kept
      BY <1>4, <1>6, <2>1, <2>2
  <2> QED
      BY <1>1, <2>2, <2>3 DEF Plain
<1>7. CASE ~Present(o) /\ free # {} /\ Create({o}) /\ Fills(Carve({o})[o])
  <2>1. Cardinality({o}) <= Cardinality(free)
      BY <1>2, <1>7, RoomForOne
  <2>2. /\ Divides(cat', free') /\ RefsKept
        /\ \A p \in {o} : cat'[p].ext = Carve({o})[p] /\ Carve({o})[p] \in free /\ ~IsLeased(p)
        /\ \A p \in Objects \ {o} : cat'[p] = cat[p]
      BY <1>2, <1>7, <2>1, CreateFacts
  <2>3. Carve({o})[o] \in Extents
      BY <1>3, <2>2 DEF Divides
  <2>4. QueueInv' /\ Kept
      BY <1>4, <1>7, <2>2, <2>3
  <2> QED
      BY <1>1, <2>2, <2>4 DEF Plain
<1> QED
    BY <1>5, <1>6, <1>7 DEF Put, store

\* duplicate_object.
LEMMA DuplicatePlain ==
    ASSUME BaseInv, NEW c \in Calls, Duplicate(c), UNCHANGED script
    PROVE  Plain
<1> DEFINE src == Only(script[c].ids)
           dst == Only(script[c].out)
<1>1. /\ hand.call = c /\ script[c].op = "duplicate"
      /\ UNCHANGED <<fifo, parked, jobs, lease, job, image, due>>
    BY DEF Duplicate, Handles, queues
<1>2. src \in Objects /\ dst \in Objects
    BY <1>1, CallFacts DEF BaseInv, SlabInv
<1>3. Divides(cat, free) /\ data \in [Extents -> Nat] /\ want \in [Objects -> Nat]
    BY DEF BaseInv, SlabInv, BytesInv
<1>4. CASE UNCHANGED <<cat, free, data, want>> /\ Replies(c, "error")
    BY <1>1, <1>4, StoreSame, EndsQueue DEF Plain
<1>5. CASE /\ Present(src) /\ ~Present(dst) /\ free # {} /\ Create({dst})
           /\ data' = [data EXCEPT ![Carve({dst})[dst]] = data[cat[src].ext]]
           /\ want' = [want EXCEPT ![dst] = data[cat[src].ext]]
           /\ Replies(c, "ok")
  <2>1. Cardinality({dst}) <= Cardinality(free)
      BY <1>2, <1>5, RoomForOne
  <2>2. /\ Divides(cat', free') /\ RefsKept
        /\ \A p \in {dst} : cat'[p].ext = Carve({dst})[p] /\ Carve({dst})[p] \in free /\ ~IsLeased(p)
        /\ \A p \in Objects \ {dst} : cat'[p] = cat[p]
      BY <1>2, <1>5, <2>1, CreateFacts
  <2>3. Carve({dst})[dst] \in Extents /\ NoExtent \notin Extents
      BY <1>3, <2>2, StoreConstants DEF Divides
  <2>4. cat[src].ext \in Extents
      BY <1>2, <1>3, <1>5, LeasedPresent DEF Present
  <2>5. /\ data' \in [Extents -> Nat] /\ data'[Carve({dst})[dst]] = data[cat[src].ext]
        /\ \A f \in Extents \ {Carve({dst})[dst]} : data'[f] = data[f]
      BY <1>3, <1>5, <2>3, <2>4
  <2>6. want' = [p \in Objects |-> IF p \in {dst} THEN data'[cat'[p].ext] ELSE want[p]]
    <3>1. data'[cat'[dst].ext] = data[cat[src].ext]
        BY <2>2, <2>5
    <3> QED
        BY <1>2, <1>3, <1>5, <3>1
  <2>7. QueueInv'
      BY <1>1, <1>5, EndsQueue
  <2> HIDE DEF src, dst
  <2>8. Kept
    <3>1. /\ \A o \in {dst} : cat'[o].ext # NoExtent /\ ~IsLeased(o)
          /\ \A o \in Objects \ {dst} : cat'[o].ext = cat[o].ext
        BY <2>2, <2>3
    <3>2. \A e \in Extents : (~ \E o \in {dst} : cat'[o].ext = e) => data'[e] = data[e]
        BY <2>2, <2>5
    <3> QED
        BY <1>2, <2>2, <2>5, <2>6, <3>1, <3>2, WritesKept
  <2> QED
      BY <1>1, <2>2, <2>7, <2>8 DEF Plain
<1> QED
    BY <1>4, <1>5 DEF Duplicate, store

\* A program writes the objects it binds and captures, none of them leased.
LEMMA RunWrites ==
    ASSUME BaseInv, NEW c \in Calls, Divides(cat', free'), RefsKept, NEW S \in SUBSET Objects,
           \A o \in S : cat'[o].ext # NoExtent /\ ~IsLeased(o),
           \A o \in Objects \ S : cat'[o].ext = cat[o].ext,
           NEW exts, \A e : e \in exts <=> \E o \in S : cat'[o].ext = e,
           data' = [e \in Extents |-> IF e \in exts THEN c ELSE data[e]],
           want' = [o \in Objects |-> IF o \in S THEN c ELSE want[o]]
    PROVE  Kept
<1>1. \A o \in Objects : cat'[o].ext \in Extents \cup {NoExtent}
    BY DEF Divides, Records
<1>2. c \in Nat /\ data \in [Extents -> Nat]
    BY SMT DEF Calls, BaseInv, BytesInv
<1>3. \A o \in S : data'[cat'[o].ext] = c
    BY <1>1
<1>4. data' \in [Extents -> Nat]
    BY <1>2
<1>5. \A e \in Extents : (~ \E o \in S : cat'[o].ext = e) => data'[e] = data[e]
    OBVIOUS
<1>6. want' = [o \in Objects |-> IF o \in S THEN data'[cat'[o].ext] ELSE want[o]]
    BY <1>3
<1> QED
    BY <1>4, <1>5, <1>6, WritesKept

\* run.
LEMMA RunPlain ==
    ASSUME BaseInv, NEW c \in Calls, Run(c), UNCHANGED script
    PROVE  Plain
<1> DEFINE ids == script[c].ids
           out == script[c].out
           bound == {cat[o].ext : o \in ids}
           Writes(exts, objs) ==
               /\ data' = [e \in Extents |-> IF e \in exts THEN c ELSE data[e]]
               /\ want' = [o \in Objects |-> IF o \in objs THEN c ELSE want[o]]
           Ends == Replies(c, "ok") \/ Replies(c, "error") \/ RaisesLeased(c)
<1>1. hand.call = c /\ UNCHANGED <<fifo, parked, jobs, lease, job, image, due>>
    BY DEF Run, Handles, queues
<1>2. ids \subseteq Objects /\ out \subseteq Objects /\ (out # {} => out = {Only(out)})
    BY CallFacts DEF BaseInv, SlabInv
<1>3. Divides(cat, free)
    BY DEF BaseInv, SlabInv
<1>4. CASE UNCHANGED <<cat, free, data, want>> /\ Ends
    BY <1>1, <1>4, StoreSame, EndsQueue DEF Plain
<1>5. ASSUME NEW W \in SUBSET Objects, \A o \in W : Present(o) /\ ~IsLeased(o),
             NEW exts, \A e : e \in exts <=> \E o \in W : cat[o].ext = e,
             Writes(exts, W), Ends, UNCHANGED <<cat, free>>
      PROVE  Plain
  <2>1. QueueInv'
      BY <1>1, <1>5, EndsQueue
  <2>2. Divides(cat', free') /\ RefsKept
      BY <1>3, <1>5 DEF RefsKept
  <2>3. /\ \A o \in W : cat'[o].ext # NoExtent /\ ~IsLeased(o)
        /\ \A o \in Objects \ W : cat'[o].ext = cat[o].ext
        /\ \A e : e \in exts <=> \E o \in W : cat'[o].ext = e
      BY <1>5 DEF Present
  <2>4. Kept
      BY <1>5, <2>2, <2>3, RunWrites
  <2> QED
      BY <1>1, <2>1, <2>2, <2>4 DEF Plain
<1>6. ASSUME NEW W \in SUBSET ids, \A o \in ids : Present(o) /\ ~IsLeased(o),
             Writes({cat[o].ext : o \in W}, W), Ends, UNCHANGED <<cat, free>>
      PROVE  Plain
    BY <1>2, <1>5, <1>6
<1>7. CASE /\ \A o \in ids : Present(o) /\ ~IsLeased(o)
           /\ \A o \in out : Present(o) /\ ~IsLeased(o)
           /\ Writes(bound \cup {cat[o].ext : o \in out}, ids \cup out)
           /\ Replies(c, "ok") /\ UNCHANGED <<cat, free>>
    BY <1>2, <1>5, <1>7
<1>8. CASE /\ \A o \in ids : Present(o) /\ ~IsLeased(o)
           /\ \E o \in out : ~Present(o) /\ free # {}
           /\ Create(out) /\ Writes(bound \cup {Carve(out)[Only(out)]}, ids \cup out)
           /\ Replies(c, "ok")
  <2>1. PICK p \in Objects : out = {p} /\ Only(out) = p /\ ~Present(p) /\ free # {}
      BY <1>2, <1>8
  <2>2. Cardinality({p}) <= Cardinality(free)
      BY <2>1, RoomForOne
  <2>3. /\ Divides(cat', free') /\ RefsKept
        /\ \A o \in {p} : cat'[o].ext = Carve({p})[o] /\ Carve({p})[o] \in free /\ ~IsLeased(o)
        /\ \A o \in Objects \ {p} : cat'[o] = cat[o]
      BY <1>8, <2>1, <2>2, CreateFacts
  <2>4. Carve({p})[p] \in Extents /\ NoExtent \notin Extents
      BY <1>3, <2>3, StoreConstants DEF Divides
  <2> DEFINE S == ids \cup {p}
             exts == bound \cup {Carve({p})[p]}
  <2>5. \A o \in ids : o # p /\ cat'[o] = cat[o]
      BY <1>2, <1>8, <2>1, <2>3
  <2>6. S \in SUBSET Objects /\ \A o \in S : cat'[o].ext # NoExtent /\ ~IsLeased(o)
      BY <1>2, <1>8, <2>3, <2>4, <2>5 DEF Present
  <2>7. \A e : e \in exts <=> \E o \in S : cat'[o].ext = e
      BY <2>3, <2>5
  <2>8. Writes(exts, S)
      BY <1>8, <2>1
  <2>9. \A o \in Objects \ S : cat'[o].ext = cat[o].ext
      BY <2>3
  <2> HIDE DEF S, exts
  <2>10. Kept
      BY <2>3, <2>6, <2>7, <2>8, <2>9, RunWrites
  <2>11. QueueInv'
      BY <1>1, <1>8, EndsQueue
  <2> QED
      BY <1>1, <2>3, <2>10, <2>11 DEF Plain
<1> QED
  <2>1. CASE \E W \in SUBSET ids : /\ \A o \in ids : Present(o) /\ ~IsLeased(o)
                                   /\ Writes({cat[o].ext : o \in W}, W)
                                   /\ Replies(c, "error") /\ UNCHANGED <<cat, free>>
      BY <1>6, <2>1
  <2>2. CASE /\ \A o \in ids : Present(o) /\ ~IsLeased(o)
             /\ Writes(bound, ids) /\ Ends /\ UNCHANGED <<cat, free>>
      BY <1>6, <2>2
  <2> QED
      BY <1>4, <1>7, <1>8, <2>1, <2>2 DEF Run, store

\* release_object: an object that goes was not leased.
LEMMA DropPlain ==
    ASSUME BaseInv, NEW S \in SUBSET Objects, \A o \in S : ~IsLeased(o), Drop(S), UNCHANGED <<data, want>>
    PROVE  Divides(cat', free') /\ RefsKept /\ Kept
<1>1. Divides(cat, free) /\ data \in [Extents -> Nat] /\ want \in [Objects -> Nat]
    BY DEF BaseInv, SlabInv, BytesInv
<1>2. /\ Divides(cat', free')
      /\ \A o \in S : cat'[o].ext = NoExtent /\ cat'[o].refs = 0
      /\ \A o \in Objects \ S : cat'[o] = cat[o]
    BY <1>1, DropDivides, SMT DEF Absent
<1>3. \A o \in S : cat[o].refs = 0
    BY <1>1, LeasedPresent
<1> QED
    BY <1>1, <1>2, <1>3 DEF RefsKept, Kept

\* release_object.
LEMMA ReleasePlain ==
    ASSUME BaseInv, NEW c \in Calls, Release(c), UNCHANGED script
    PROVE  Plain
<1> DEFINE o == Only(script[c].ids)
<1>1. /\ hand.call = c /\ script[c].op = "release"
      /\ UNCHANGED <<data, want, fifo, parked, jobs, lease, job, image, due>>
    BY DEF Release, Handles, queues
<1>2. o \in Objects
    BY <1>1, CallFacts DEF BaseInv, SlabInv
<1>3. CASE UNCHANGED <<cat, free>> /\ (Replies(c, "ok") \/ Replies(c, "error") \/ RaisesLeased(c))
    BY <1>1, <1>3, StoreSame, EndsQueue DEF Plain
<1>4. CASE ~IsLeased(o) /\ Drop({o}) /\ Replies(c, "ok")
  <2> HIDE DEF o
  <2>1. Divides(cat', free') /\ RefsKept /\ Kept
      BY <1>1, <1>2, <1>4, DropPlain
  <2> QED
      BY <1>1, <1>4, <2>1, EndsQueue DEF Plain
<1> QED
    BY <1>3, <1>4 DEF Release

\* wipe: what it has dropped when it stops was not leased.
LEMMA WipePlain ==
    ASSUME BaseInv, NEW c \in Calls, Wipe(c), UNCHANGED script
    PROVE  Plain
<1>1. hand.call = c /\ UNCHANGED <<data, want, fifo, parked, jobs, lease, job, image, due>>
    BY DEF Wipe, Handles, queues
<1>2. PICK force \in BOOLEAN :
        LET able == {o \in Objects : Present(o) /\ (force \/ ~cat[o].protected)}
            stops == {o \in able : IsLeased(o)}
        IN  /\ Drop({o \in able : \A p \in stops : o < p})
            /\ IF stops = {} THEN Replies(c, "ok") ELSE RaisesLeased(c)
    BY DEF Wipe
<1> DEFINE able == {o \in Objects : Present(o) /\ (force \/ ~cat[o].protected)}
           stops == {o \in able : IsLeased(o)}
           S == {o \in able : \A p \in stops : o < p}
<1>3. Drop(S) /\ (Replies(c, "ok") \/ RaisesLeased(c))
    BY <1>2
<1>4. S \in SUBSET Objects /\ \A o \in S : ~IsLeased(o)
  <2>1. \A o \in Objects : ~(o < o)
      BY StoreConstants, SMT
  <2> QED
      BY <2>1
<1> HIDE DEF S
<1>5. Divides(cat', free') /\ RefsKept /\ Kept
    BY <1>1, <1>3, <1>4, DropPlain
<1> QED
    BY <1>1, <1>3, <1>5, EndsQueue DEF Plain

\* protect_object and unprotect_object.
LEMMA ProtectPlain ==
    ASSUME BaseInv, NEW c \in Calls, Protect(c), UNCHANGED script
    PROVE  Plain
<1> DEFINE o == Only(script[c].ids)
<1>1. /\ hand.call = c /\ script[c].op = "protect"
      /\ UNCHANGED <<free, data, want, fifo, parked, jobs, lease, job, image, due>>
    BY DEF Protect, Handles, queues
<1>2. o \in Objects /\ Divides(cat, free)
    BY <1>1, CallFacts DEF BaseInv, SlabInv
<1>3. CASE UNCHANGED cat /\ Replies(c, "error")
    BY <1>1, <1>3, StoreSame, EndsQueue DEF Plain
<1>4. ASSUME NEW value \in BOOLEAN, cat' = [cat EXCEPT ![o].protected = value], Replies(c, "ok")
      PROVE  Plain
  <2> HIDE DEF o
  <2>1. cat \in [Objects -> Records]
      BY <1>2 DEF Divides
  <2>2. ASSUME NEW p \in Objects
        PROVE  cat'[p] \in Records /\ cat'[p].ext = cat[p].ext /\ cat'[p].refs = cat[p].refs
    <3> DEFINE r == cat[p]
    <3>1. r \in Records /\ (cat'[p] = r \/ cat'[p] = [r EXCEPT !.protected = value])
        BY <1>2, <1>4, <2>1
    <3> HIDE DEF r
    <3>2. cat'[p] \in Records /\ cat'[p].ext = r.ext /\ cat'[p].refs = r.refs
        BY <3>1 DEF Records
    <3> QED
        BY <3>2 DEF r
  <2>3. cat' \in [Objects -> Records]
      BY <1>4, <2>1, <2>2
  <2>4. Divides(cat', free)
    <3>1. \A p \in Objects : cat'[p].ext = cat[p].ext /\ (cat'[p].ext = NoExtent => cat'[p].refs = 0)
        BY <1>2, <2>2 DEF Divides
    <3> QED
        BY <1>2, <2>3, <3>1, FlagsDivide, SMTT(30)
  <2>5. data \in [Extents -> Nat] /\ want \in [Objects -> Nat] /\ data' = data /\ want' = want
      BY <1>1 DEF BaseInv, BytesInv
  <2>6. RefsKept /\ Kept
      BY ONLY Zenon, <2>2, <2>5 DEF RefsKept, Kept
  <2> QED
      BY <1>1, <1>4, <2>4, <2>6, EndsQueue DEF Plain
<1> QED
    BY <1>3, <1>4 DEF Protect

\* A refused snapshot, and a send whose object is absent or whose peer is out
\* of reach, leave the store as it was.
Refused(c) == Replies(c, "error") /\ UNCHANGED <<cat, free, data, want, lease, jobs, job, image, due>>

\* A call that is refused is answered and changes nothing else.
LEMMA RefusedPlain ==
    ASSUME BaseInv, NEW c \in Calls, hand.call = c, Refused(c), UNCHANGED script,
           UNCHANGED <<fifo, parked>> \/ Unparks
    PROVE  Plain
<1>1. OthersIdle(c) /\ QueueInv
    BY DEF OthersIdle, Refused, BaseInv
<1>2. QueueInv'
    BY <1>1, RepliesQueue DEF Refused
<1> QED
    BY <1>2, StoreSame DEF Plain, Refused

\* An admission that raises after its leases were taken gives all back.
LEMMA AdmissionRaisesPlain ==
    ASSUME BaseInv, NEW c \in Calls, AdmissionRaises(c), UNCHANGED script
    PROVE  Plain
<1>1. hand.call = c /\ Refused(c) /\ Unparks
    BY DEF AdmissionRaises, Handles, Refused, Unparks, store
<1> QED
    BY <1>1, RefusedPlain

\* Submission, the next call and parking leave the store as it was.
LEMMA BetweenPlain ==
    ASSUME BaseInv, TakeCall \/ Park \/ \E c \in Calls : Submit(c), UNCHANGED script
    PROVE  Plain
<1>1. UNCHANGED <<cat, free, data, want, lease, jobs, job, image, due>>
    BY DEF TakeCall, Park, Submit, store
<1>2. QueueInv'
    BY <1>1, BetweenCalls DEF BaseInv
<1> QED
    BY <1>1, <1>2, StoreSame DEF Plain

\* restore_snapshot when it is refused, meets a lease, or finds too little
\* room: the objects made so far stay, with the bytes their extents have.
LEMMA RestoreRefused ==
    ASSUME BaseInv, NEW c \in Calls, Restore(c), UNCHANGED <<script, lease>>
    PROVE  Plain
<1> DEFINE ids == script[c].ids
           missing == {o \in ids : ~Present(o)}
           room == Cardinality(free)
           first == {o \in missing : Cardinality({p \in missing : p < o}) < room}
           at == Carve(first)
<1>1. hand.call = c /\ UNCHANGED <<data, fifo, parked, job, image, due>>
    BY DEF Restore, Handles
<1>2. Divides(cat, free) /\ data \in [Extents -> Nat] /\ missing \in SUBSET Objects
    BY CallFacts DEF BaseInv, SlabInv, BytesInv
<1>3. CASE UNCHANGED <<cat, free, jobs, want>> /\ (Replies(c, "error") \/ RaisesLeased(c))
    BY <1>1, <1>3, StoreSame, EndsQueue DEF Plain
<1>4. CASE /\ Cardinality(missing) > room
           /\ Create(first)
           /\ want' = [o \in Objects |-> IF o \in first THEN data[at[o]] ELSE want[o]]
           /\ Replies(c, "error") /\ UNCHANGED jobs
  <2>1. /\ missing \in SUBSET Nat /\ IsFiniteSet(missing) /\ IsFiniteSet(free)
        /\ Cardinality(missing) \in Nat /\ room \in Nat
      BY <1>2, FS_Subset, FS_CardinalityType, StoreConstants DEF Divides
  <2>2. first = {o \in missing : Rank(missing, o) < room}
      BY DEF Rank
  <2>3. PICK x \in missing : Rank(missing, x) = room
      BY <1>4, <2>1, RankExists
  <2> HIDE DEF missing
  <2>4. first = {o \in missing : o < x}
    <3>1. \A o \in missing : o < x <=> Rank(missing, o) < room
        BY <2>1, <2>3, RankFacts, SMT
    <3> QED
        BY <2>2, <3>1
  <2>5. Cardinality(first) <= room
    <3> HIDE DEF first, room
    <3>1. Cardinality({o \in missing : o < x}) = room
        BY <2>3 DEF Rank
    <3>2. Cardinality(first) = room
        BY <2>4, <3>1
    <3> QED
        BY <2>1, <3>2, SMT
  <2>6. first \in SUBSET Objects /\ \A o \in first : ~Present(o)
      BY <1>2, <2>2 DEF missing
  <2> HIDE DEF first
  <2>7. /\ Divides(cat', free') /\ RefsKept
        /\ \A o \in first : cat'[o].ext = at[o] /\ at[o] \in free /\ ~IsLeased(o)
        /\ \A o \in Objects \ first : cat'[o] = cat[o]
      BY <1>4, <2>5, <2>6, CreateFacts
  <2>8. free \in SUBSET Extents /\ NoExtent \notin Extents
      BY <1>2, StoreConstants DEF Divides
  <2> HIDE DEF at
  <2>9. want' = [o \in Objects |-> IF o \in first THEN data'[cat'[o].ext] ELSE want[o]]
      BY <1>1, <1>4, <2>7
  <2>10. Kept
      BY <1>1, <1>2, <2>6, <2>7, <2>8, <2>9, WritesKept
  <2> QED
      BY <1>1, <1>4, <2>7, <2>10, EndsQueue DEF Plain
<1>5. ASSUME NEW ct, NEW made, Acquire(c, ct, made) PROVE FALSE
  <2>1. lease'[c].state = "held"
      BY <1>5, SMT DEF Acquire, BaseInv, LeaseInv
  <2>2. lease[c].state = "none"
      BY <1>1, HandFacts DEF BaseInv
  <2> QED
      BY <2>1, <2>2
<1> QED
    BY <1>3, <1>4, <1>5 DEF Restore

-----------------------------------------------------------------------------
(***************************************************************************)
(* Such steps keep the invariant.                                          *)
(***************************************************************************)
Holders(o) == {c \in Calls : lease[c].state = "held" /\ o \in DOMAIN lease[c].at}

\* There are finitely many holders of an object.
LEMMA HoldersFinite ==
    ASSUME NEW o
    PROVE  IsFiniteSet(Holders(o)) /\ Cardinality(Holders(o)) \in Nat
<1>1. IsFiniteSet(Calls)
    BY FS_Interval, StoreConstants, SMT DEF Calls
<1>2. Holders(o) \in SUBSET Calls
    BY DEF Holders
<1> QED
    BY <1>1, <1>2, FS_Subset, FS_CardinalityType

\* What a call has leased is there, where it was leased, and has a reference.
LEMMA HeldFacts ==
    ASSUME BaseInv, LeasedStable, LeasesCounted,
           NEW c \in Calls, lease[c].state = "held", NEW o \in DOMAIN lease[c].at
    PROVE  /\ o \in Objects /\ o \in script[c].ids
           /\ cat[o].ext = lease[c].at[o] /\ Present(o) /\ IsLeased(o)
<1>1. DOMAIN lease[c].at \subseteq script[c].ids
    BY DEF BaseInv, LeaseInv, Whole
<1>2. o \in Objects /\ o \in script[c].ids
    BY <1>1, CallFacts DEF BaseInv, SlabInv
<1>3. cat[o].ext = lease[c].at[o]
    BY DEF LeasedStable
<1>4. Cardinality(Holders(o)) # 0
  <2>1. c \in Holders(o)
      BY DEF Holders
  <2> QED
      BY <2>1, HoldersFinite, FS_EmptySet
<1>5. cat[o].refs = Cardinality(Holders(o)) /\ Cardinality(Holders(o)) \in Nat
    BY <1>2, HoldersFinite DEF LeasesCounted, Holders
<1>6. IsLeased(o)
    BY <1>4, <1>5, SMT DEF IsLeased
<1>7. Present(o)
    BY <1>2, <1>6, LeasedPresent DEF BaseInv, SlabInv
<1> QED
    BY <1>2, <1>3, <1>6, <1>7

\* A job that has still to be done holds all its leases.
LEMMA TodoHeld ==
    ASSUME BaseInv, NEW c \in Calls, NEW o \in Todo(c)
    PROVE  /\ Whole(c) /\ o \in script[c].ids /\ o \in Objects
           /\ script[c].op \in {"snapshot", "restore"}
<1>1. Whole(c) /\ o \in script[c].ids /\ script[c].op \in {"snapshot", "restore"}
    BY DEF BaseInv, JobInv, Todo
<1> QED
    BY <1>1, CallFacts DEF BaseInv, SlabInv

\* ... and so what it has still to do is there and leased.
LEMMA TodoLeased ==
    ASSUME BaseInv, LeasedStable, LeasesCounted, NEW c \in Calls, NEW o \in Todo(c)
    PROVE  o \in Objects /\ Present(o) /\ IsLeased(o)
<1>1. lease[c].state = "held" /\ o \in DOMAIN lease[c].at
    BY TodoHeld DEF Whole
<1> QED
    BY <1>1, HeldFacts

\* The tables.
LEMMA PlainBase ==
    ASSUME BaseInv, Plain
    PROVE  BaseInv'
<1>1. UNCHANGED <<script, lease, jobs, job, image, due>> /\ QueueInv' /\ Divides(cat', free')
    BY DEF Plain
<1>2. SlabInv'
    BY <1>1 DEF BaseInv, SlabInv
<1>3. LeaseInv'
    BY <1>1 DEF BaseInv, LeaseInv, Whole
<1>4. JobInv'
    BY <1>1 DEF BaseInv, JobInv, Whole
<1>5. BytesInv'
    BY <1>1 DEF BaseInv, BytesInv, Plain, Kept
<1> QED
    BY <1>1, <1>2, <1>3, <1>4, <1>5 DEF BaseInv

-----------------------------------------------------------------------------
(***************************************************************************)
(* The admission of a snapshot, a send or a restore.                       *)
(***************************************************************************)
\* Call c is admitted with the records ct, of which it has made those of made.
Admits(c, ct, made) ==
    /\ hand.call = c /\ script[c].op \in Takers /\ Divides(ct, free')
    /\ made \subseteq script[c].ids /\ (made # {} => script[c].op = "restore")
    /\ \A o \in made : ~Present(o) /\ ct[o].refs = 0
    /\ \A o \in Objects \ made : ct[o] = cat[o]
    /\ \A o \in script[c].ids : ct[o].ext \in Extents
    /\ Acquire(c, ct, made) /\ Replies(c, "ok")
    /\ \/ script[c].op = "send" /\ UNCHANGED jobs
       \/ script[c].op # "send" /\ jobs' = Append(jobs, c)
    /\ \/ script[c].op # "restore" /\ UNCHANGED want
       \/ /\ script[c].op = "restore" /\ \A o \in script[c].ids : ~IsLeased(o)
          /\ want' = [o \in Objects |-> IF o \in script[c].ids THEN c ELSE want[o]]
    /\ \/ script[c].op # "snapshot" /\ UNCHANGED due
       \/ script[c].op = "snapshot" /\ due' = [due EXCEPT ![c] = want]
    /\ UNCHANGED <<script, data, fifo, parked, job, image>>

\* snapshot.
LEMMA SnapshotAdmits ==
    ASSUME BaseInv, NEW c \in Calls, Snapshot(c), UNCHANGED script
    PROVE  Plain \/ Admits(c, cat, {})
<1>1. /\ hand.call = c /\ script[c].op = "snapshot" /\ Divides(cat, free)
      /\ UNCHANGED <<free, data, fifo, parked, job, image, want>>
      /\ script[c].ids \subseteq Objects
    BY CallFacts DEF Snapshot, Handles, BaseInv, SlabInv
<1>2. CASE Replies(c, "error") /\ UNCHANGED <<cat, lease, jobs, due>>
    BY <1>1, <1>2, RefusedPlain DEF Refused
<1>3. CASE /\ \A o \in script[c].ids : Present(o)
           /\ Acquire(c, cat, {}) /\ jobs' = Append(jobs, c)
           /\ due' = [due EXCEPT ![c] = want] /\ Replies(c, "ok")
  <2>1. \A o \in script[c].ids : cat[o].ext \in Extents
      BY <1>1, <1>3, LeasedPresent DEF Present
  <2> QED
      BY <1>1, <1>3, <2>1 DEF Admits, Takers
<1> QED
    BY <1>2, <1>3 DEF Snapshot

\* send_object.
LEMMA SendAdmits ==
    ASSUME BaseInv, NEW c \in Calls, Send(c), UNCHANGED script
    PROVE  Plain \/ Admits(c, cat, {})
<1> DEFINE o == Only(script[c].ids)
<1>1. /\ hand.call = c /\ script[c].op = "send" /\ Divides(cat, free)
      /\ UNCHANGED <<free, data, jobs, job, image, want, due>>
    BY DEF Send, Handles, BaseInv, SlabInv
<1>2. o \in Objects /\ script[c].ids = {o}
    BY <1>1, CallFacts DEF BaseInv, SlabInv
<1>3. CASE Replies(c, "error") /\ UNCHANGED <<cat, lease>> /\ (UNCHANGED <<fifo, parked>> \/ Unparks)
    BY <1>1, <1>3, RefusedPlain DEF Refused
<1>4. CASE Present(o) /\ Acquire(c, cat, {}) /\ Replies(c, "ok") /\ UNCHANGED <<fifo, parked>>
  <2>1. cat[o].ext \in Extents
      BY <1>1, <1>2, <1>4, LeasedPresent DEF Present
  <2>2. \A p \in script[c].ids : cat[p].ext \in Extents
      BY <1>2, <2>1
  <2> HIDE DEF o
  <2> QED
      BY <1>1, <1>4, <2>2 DEF Admits, Takers
<1> QED
    BY <1>3, <1>4 DEF Send, Unparks

\* restore_snapshot: with room for all that is missing, the first that fit are
\* all of them.
LEMMA RestoreAdmits ==
    ASSUME BaseInv, NEW c \in Calls, Restore(c), UNCHANGED script
    PROVE  Plain \/ \E S : Admits(c, Created(S), S)
<1> DEFINE ids == script[c].ids
           missing == {o \in ids : ~Present(o)}
           room == Cardinality(free)
           first == {o \in missing : Cardinality({p \in missing : p < o}) < room}
           at == Carve(first)
           made == [o \in Objects |-> IF o \in first THEN [Absent EXCEPT !.ext = at[o]]
                                                     ELSE cat[o]]
<1>1. /\ hand.call = c /\ script[c].op = "restore" /\ Divides(cat, free) /\ ids \subseteq Objects
      /\ UNCHANGED <<data, fifo, parked, job, image, due>> /\ missing \in SUBSET Objects
    BY CallFacts DEF Restore, Handles, BaseInv, SlabInv
<1>2. CASE UNCHANGED lease
    BY <1>2, RestoreRefused
<1>3. CASE /\ \A o \in ids : Present(o) => ~IsLeased(o)
           /\ Cardinality(missing) <= room
           /\ Acquire(c, made, missing)
           /\ free' = free \ {at[o] : o \in missing}
           /\ jobs' = Append(jobs, c)
           /\ want' = [o \in Objects |-> IF o \in ids THEN c ELSE want[o]]
           /\ Replies(c, "ok")
  <2>1. /\ missing \in SUBSET Nat /\ IsFiniteSet(missing) /\ IsFiniteSet(free)
        /\ Cardinality(missing) \in Nat /\ room \in Nat
      BY <1>1, FS_Subset, FS_CardinalityType, StoreConstants DEF Divides
  <2>2. first = missing
    <3>1. \A o \in missing : Rank(missing, o) \in Nat /\ Rank(missing, o) < Cardinality(missing)
        BY <2>1, RankFacts
    <3>2. \A o \in missing : Rank(missing, o) < room
        BY <1>3, <2>1, <3>1, SMTT(30)
    <3>3. \A o \in missing : Cardinality({p \in missing : p < o}) < room
        BY <3>2 DEF Rank
    <3> HIDE DEF missing, room
    <3> QED
        BY <3>3
  <2>3. made = Created(missing) /\ free' = free \ Taken(missing)
    <3>1. at = Carve(missing)
        BY <2>2
    <3> HIDE DEF at, missing, first
    <3> QED
        BY <1>3, <2>2, <3>1 DEF Created, Taken
  <2>4. \A o \in missing : ~Present(o)
      OBVIOUS
  <2>5. Divides(Created(missing), free')
      BY <1>1, <1>3, <2>3, <2>4, CreatedDivides
  <2>6. \A o \in Objects \ missing : Created(missing)[o] = cat[o]
      BY DEF Created
  <2>7. ASSUME NEW o \in missing
        PROVE  Created(missing)[o].refs = 0 /\ Created(missing)[o].ext \in Extents
    <3>1. Created(missing)[o] = [ext |-> Carve(missing)[o], refs |-> 0, protected |-> FALSE]
        BY <1>1 DEF Created, Absent
    <3>2. Carve(missing)[o] \in Extents
        BY <1>1, <1>3, CarveFacts DEF Divides
    <3> QED
        BY <3>1, <3>2, SMT
  <2>8. \A o \in ids : Created(missing)[o].ext \in Extents /\ ~IsLeased(o)
    <3>1. \A o \in ids : o \in missing \/ (Present(o) /\ Created(missing)[o] = cat[o])
        BY <1>1, <2>6
    <3>2. \A o \in ids : ~IsLeased(o) /\ (Present(o) => cat[o].ext \in Extents)
        BY <1>1, <1>3, LeasedPresent DEF Present
    <3> QED
        BY <2>7, <3>1, <3>2
  <2>9. missing \subseteq ids
      OBVIOUS
  <2>10. Acquire(c, Created(missing), missing)
      BY <1>3, <2>3
  <2> HIDE DEF missing, first, made, at, room
  <2>11. Admits(c, Created(missing), missing)
      BY <1>1, <1>3, <2>4, <2>5, <2>6, <2>7, <2>8, <2>9, <2>10 DEF Admits, Takers
  <2> QED
      BY <2>11
<1> QED
    BY <1>2, <1>3 DEF Restore

\* What an admission does to the leases.
LEMMA AdmitEffect ==
    ASSUME BaseInv, NEW c \in Calls, NEW ct, NEW made, Admits(c, ct, made)
    PROVE  /\ LeaseInv' /\ JobInv' /\ OthersIdle(c)
           /\ \A d \in Calls \ {c} : lease'[d] = lease[d]
           /\ Whole(c)' /\ lease[c].state = "none"
           /\ \A o \in script[c].ids : lease'[c].at[o] = ct[o].ext
           /\ cat' \in [Objects -> Records]
           /\ \A o \in Objects : /\ cat'[o].ext = ct[o].ext
                                 /\ o \in script[c].ids => cat'[o].refs = cat[o].refs + 1
                                 /\ o \notin script[c].ids => cat'[o] = cat[o]
<1>1. /\ QueueInv /\ LeaseInv /\ JobInv /\ script \in Scripts /\ hand.call = c /\ Divides(cat, free)
      /\ ct \in [Objects -> Records] /\ Acquire(c, ct, made)
      /\ script[c].ids \subseteq Objects /\ made \subseteq script[c].ids
    BY CallFacts DEF BaseInv, SlabInv, Admits, Divides
<1>2. /\ LeaseInv' /\ JobInv' /\ OthersIdle(c)
      /\ cat' \in [Objects -> Records] /\ \A o \in Objects : cat'[o].ext = ct[o].ext
    BY <1>1, AcquireFacts DEF Admits
<1>3. lease[c].state = "none"
    BY <1>1, HandFacts
<1> DEFINE new == [state |-> "held", made |-> made, at |-> [o \in script[c].ids |-> ct[o].ext]]
<1>4. lease' = [lease EXCEPT ![c] = new] /\ lease \in [Calls -> LeaseType]
    BY <1>1 DEF Acquire, LeaseInv
<1>5. /\ new.state = "held" /\ DOMAIN new.at = script[c].ids
      /\ \A o \in script[c].ids : new.at[o] = ct[o].ext
    OBVIOUS
<1> HIDE DEF new
<1>6. lease'[c] = new /\ \A d \in Calls \ {c} : lease'[d] = lease[d]
    BY <1>4
<1>7. Whole(c)'
    BY <1>5, <1>6 DEF Whole, Admits
<1>8. ASSUME NEW o \in Objects
      PROVE  /\ o \in script[c].ids => cat'[o].refs = cat[o].refs + 1
             /\ o \notin script[c].ids => cat'[o] = cat[o]
  <2>1. ct[o].refs = cat[o].refs /\ (o \notin made => ct[o] = cat[o])
      BY <1>1, LeasedPresent DEF Admits
  <2>2. CASE o \in script[c].ids
    <3> DEFINE r == ct[o]
    <3>1. cat'[o] = [r EXCEPT !.refs = @ + 1] /\ r \in Records
        BY <1>1, <2>2 DEF Acquire
    <3> HIDE DEF r
    <3>2. cat'[o].refs = r.refs + 1
        BY <3>1 DEF Records
    <3> QED
        BY <2>1, <2>2, <3>2 DEF r
  <2>3. CASE o \notin script[c].ids
      BY <1>1, <2>1, <2>3 DEF Acquire
  <2> QED
      BY <2>2, <2>3
<1> QED
    BY <1>2, <1>3, <1>5, <1>6, <1>7, <1>8

\* The tables.
LEMMA AdmitBase ==
    ASSUME BaseInv, NEW c \in Calls, NEW ct, NEW made, Admits(c, ct, made)
    PROVE  BaseInv'
<1>1. /\ LeaseInv' /\ JobInv' /\ OthersIdle(c) /\ cat' \in [Objects -> Records]
      /\ \A o \in Objects : cat'[o].ext = ct[o].ext
    BY AdmitEffect
<1>2. QueueInv'
    BY <1>1, RepliesQueue DEF Admits, BaseInv
<1>3. SlabInv'
  <2>1. \A o \in Objects : cat'[o].ext = NoExtent => cat'[o].refs = 0
    <3>1. \A o \in script[c].ids : ct[o].ext \in Extents
        BY DEF Admits
    <3>2. NoExtent \notin Extents
        BY StoreConstants
    <3>3. \A o \in Objects \ script[c].ids : cat'[o] = cat[o]
        BY AdmitEffect
    <3>4. \A o \in Objects : cat[o].ext = NoExtent => cat[o].refs = 0
        BY DEF BaseInv, SlabInv, Divides
    <3> QED
        BY <1>1, <3>1, <3>2, <3>3, <3>4
  <2>2. Divides(ct, free')
      BY DEF Admits
  <2>3. Divides(cat', free')
      BY <1>1, <2>1, <2>2, FlagsDivide, SMTT(30)
  <2> QED
      BY <2>3 DEF SlabInv, BaseInv, Admits
<1>4. BytesInv'
  <2>1. c \in Nat
      BY SMT DEF Calls
  <2>2. want' \in [Objects -> Nat]
      BY <2>1 DEF BaseInv, BytesInv, Admits
  <2>3. due' \in [Calls -> [Objects -> Nat]]
      BY DEF BaseInv, BytesInv, Admits
  <2> QED
      BY <2>2, <2>3 DEF BaseInv, BytesInv, Admits
<1> QED
    BY <1>1, <1>2, <1>3, <1>4 DEF BaseInv

\* What is queued or being done after an admission.
LEMMA AdmitTodo ==
    ASSUME BaseInv, NEW c \in Calls, NEW ct, NEW made, Admits(c, ct, made)
    PROVE  /\ \A d \in Calls \cup {0} : d # c => Todo(d)' = Todo(d)
           /\ Todo(c) = {} /\ Todo(c)' = IF script[c].op = "send" THEN {} ELSE script[c].ids
           /\ Elems(jobs') \subseteq Elems(jobs) \cup {c} /\ c # job.call /\ c \notin Elems(jobs)
<1>1. c \notin Elems(jobs) /\ c # job.call /\ job' = job /\ script' = script /\ jobs \in Seq(Calls)
    BY HandFacts DEF Admits, BaseInv, JobInv
<1>2. Todo(c) = {}
    BY <1>1 DEF Todo
<1>3. CASE script[c].op = "send" /\ UNCHANGED jobs
    BY <1>1, <1>2, <1>3 DEF Todo
<1>4. CASE script[c].op # "send" /\ jobs' = Append(jobs, c)
  <2>1. Elems(jobs') = Elems(jobs) \cup {c}
      BY <1>1, <1>4, AppendFacts
  <2> QED
      BY <1>1, <1>2, <1>4, <2>1 DEF Todo
<1> QED
    BY <1>3, <1>4 DEF Admits

-----------------------------------------------------------------------------
(***************************************************************************)
(* The payload thread and the release of leases: the tables.               *)
(***************************************************************************)
\* The job at work and the next object of it.
LEMMA JobFacts ==
    ASSUME BaseInv, job.phase = "work"
    PROVE  /\ job.call \in Calls /\ Whole(job.call) /\ job.call \notin Elems(jobs)
           /\ job.todo \subseteq script[job.call].ids /\ job.todo \subseteq Objects
           /\ Todo(job.call) = job.todo /\ (job.todo # {} => NextTodo \in job.todo)
           /\ script[job.call].op \in {"snapshot", "restore"}
<1>1. /\ job.call \in Calls /\ Whole(job.call) /\ job.call \notin Elems(jobs)
      /\ job.todo \subseteq script[job.call].ids /\ job.todo \subseteq Objects
      /\ script[job.call].op \in {"snapshot", "restore"}
    BY DEF BaseInv, JobInv
<1>2. job.todo \in SUBSET Nat
    BY <1>1, StoreConstants
<1>3. ASSUME job.todo # {} PROVE NextTodo \in job.todo
  <2>1. \E o \in job.todo : \A p \in job.todo : o <= p
      BY <1>2, <1>3, FirstExists
  <2> QED
      BY <2>1 DEF NextTodo
<1> QED
    BY <1>1, <1>3 DEF Todo

\* A step of the payload thread or of a release leaves the dispatcher alone.
LEMMA QueueSame ==
    ASSUME BaseInv, UNCHANGED <<fifo, parked, hand, answer>>,
           \A d \in Calls : lease[d].state = "none" => lease'[d].state = "none"
    PROVE  QueueInv'
BY DEF BaseInv, QueueInv

\* The next job is taken.
LEMMA TakeJobBase ==
    ASSUME BaseInv, TakeJob, UNCHANGED script
    PROVE  BaseInv'
<1>1. UNCHANGED <<script, cat, free, data, fifo, hand, parked, answer, lease, image, want, due>>
    BY DEF TakeJob, store
<1>2. /\ Head(jobs) \in Calls /\ jobs' \in Seq(Calls) /\ Head(jobs) \in Elems(jobs)
      /\ Elems(jobs') \subseteq Elems(jobs) /\ Distinct(jobs') /\ Head(jobs) \notin Elems(jobs')
    BY TailFacts DEF TakeJob, BaseInv, JobInv
<1>3. script[Head(jobs)].ids \subseteq Objects
    BY <1>2, CallFacts DEF BaseInv, SlabInv
<1>4. job' = [call |-> Head(jobs), phase |-> "work", todo |-> script[Head(jobs)].ids]
    BY DEF TakeJob
<1>5. /\ job' \in [call : Calls \cup {0}, phase : {"idle", "work", "release"}, todo : SUBSET Objects]
      /\ job'.call = Head(jobs) /\ job'.phase = "work" /\ job'.todo = script[Head(jobs)].ids
    BY <1>2, <1>3, <1>4
<1>6. Head(jobs) # 0
    BY <1>2, SMTT(30) DEF Calls
<1>7. JobInv'
    BY <1>1, <1>2, <1>5, <1>6 DEF BaseInv, JobInv, Whole
<1>8. QueueInv'
    BY <1>1, QueueSame
<1>9. SlabInv' /\ LeaseInv' /\ BytesInv'
    BY <1>1 DEF BaseInv, SlabInv, LeaseInv, BytesInv, Whole
<1> QED
    BY <1>7, <1>8, <1>9 DEF BaseInv

\* The job at work has one object less to do, or is over.
LEMMA JobAdvances ==
    ASSUME BaseInv, job.phase = "work", UNCHANGED <<script, lease, jobs>>,
           \/ job' = [job EXCEPT !.todo = @ \ {NextTodo}]
           \/ job' = [job EXCEPT !.phase = "release"]
    PROVE  /\ JobInv' /\ LeaseInv' /\ job'.call = job.call
           /\ job'.phase = "work" => job'.todo = job.todo \ {NextTodo}
<1>1. job \in [call : Calls \cup {0}, phase : {"idle", "work", "release"}, todo : SUBSET Objects]
    BY DEF BaseInv, JobInv
<1>2. /\ job' \in [call : Calls \cup {0}, phase : {"idle", "work", "release"}, todo : SUBSET Objects]
      /\ job'.call = job.call /\ job'.phase \in {"work", "release"}
      /\ job'.phase = "work" => job'.todo = job.todo \ {NextTodo}
  <2>1. CASE job' = [job EXCEPT !.todo = @ \ {NextTodo}]
      BY <1>1, <2>1
  <2>2. CASE job' = [job EXCEPT !.phase = "release"]
      BY <1>1, <2>2
  <2> QED
      BY <2>1, <2>2
<1>3. job.call \in Calls /\ Whole(job.call)
    BY JobFacts
<1>4. JobInv'
    BY <1>2, <1>3 DEF BaseInv, JobInv, Whole
<1>5. LeaseInv'
    BY DEF BaseInv, LeaseInv, Whole
<1> QED
    BY <1>2, <1>4, <1>5

\* An object is copied to the snapshot.
LEMMA CopyObjectBase ==
    ASSUME BaseInv, CopyObject, UNCHANGED script
    PROVE  BaseInv'
<1>1. /\ job.phase = "work" /\ job.todo # {} /\ Present(NextTodo)
      /\ UNCHANGED <<script, cat, free, data, fifo, hand, parked, answer, lease, jobs, want, due>>
    BY DEF CopyObject, Works, store, queues
<1>2. JobInv' /\ LeaseInv'
    BY <1>1, JobAdvances DEF CopyObject
<1>3. QueueInv'
    BY <1>1, QueueSame
<1>4. NextTodo \in Objects /\ job.call \in Calls
    BY <1>1, JobFacts
<1>5. data[cat[NextTodo].ext] \in Nat
    BY <1>1, <1>4, LeasedPresent DEF BaseInv, SlabInv, BytesInv, Present
<1>6. image' \in [Calls -> [Objects -> Nat]]
    BY <1>4, <1>5 DEF CopyObject, BaseInv, BytesInv
<1>7. SlabInv' /\ BytesInv'
    BY <1>1, <1>6 DEF BaseInv, SlabInv, BytesInv
<1> QED
    BY <1>2, <1>3, <1>7 DEF BaseInv

\* An object of the snapshot is placed.
LEMMA PlaceObjectBase ==
    ASSUME BaseInv, PlaceObject, UNCHANGED script
    PROVE  BaseInv'
<1>1. /\ job.phase = "work" /\ job.todo # {} /\ Present(NextTodo)
      /\ UNCHANGED <<script, cat, free, fifo, hand, parked, answer, lease, jobs, image, want, due>>
    BY DEF PlaceObject, Works, queues
<1>2. JobInv' /\ LeaseInv'
    BY <1>1, JobAdvances DEF PlaceObject
<1>3. QueueInv'
    BY <1>1, QueueSame
<1>4. job.call \in Nat
    BY <1>1, JobFacts, SMTT(30) DEF Calls
<1>5. data' \in [Extents -> Nat]
    BY <1>4 DEF PlaceObject, BaseInv, BytesInv
<1>6. SlabInv' /\ BytesInv'
    BY <1>1, <1>5 DEF BaseInv, SlabInv, BytesInv
<1> QED
    BY <1>2, <1>3, <1>6 DEF BaseInv

\* The protection of a snapshot comes back with its objects.
LEMMA FinishEffect ==
    ASSUME BaseInv, FinishJob
    PROVE  /\ cat' \in [Objects -> Records] /\ Divides(cat', free')
           /\ \A o \in Objects : cat'[o].ext = cat[o].ext /\ cat'[o].refs = cat[o].refs
<1>1. Divides(cat, free) /\ free' = free
    BY DEF BaseInv, SlabInv, FinishJob
<1>2. cat \in [Objects -> Records]
    BY <1>1 DEF Divides
<1>3. CASE UNCHANGED cat
    BY <1>1, <1>2, <1>3
<1>4. ASSUME NEW saved,
             cat' = [o \in Objects |-> IF o \in script[job.call].ids
                                       THEN [cat[o] EXCEPT !.protected = (o \in saved)]
                                       ELSE cat[o]]
      PROVE  /\ cat' \in [Objects -> Records] /\ Divides(cat', free')
             /\ \A o \in Objects : cat'[o].ext = cat[o].ext /\ cat'[o].refs = cat[o].refs
  <2>1. ASSUME NEW o \in Objects
        PROVE  cat'[o] \in Records /\ cat'[o].ext = cat[o].ext /\ cat'[o].refs = cat[o].refs
    <3> DEFINE r == cat[o]
               b == o \in saved
    <3>1. r \in Records /\ (cat'[o] = r \/ cat'[o] = [r EXCEPT !.protected = b]) /\ b \in BOOLEAN
        BY <1>2, <1>4, SMT
    <3> HIDE DEF r, b
    <3>2. cat'[o] \in Records /\ cat'[o].ext = r.ext /\ cat'[o].refs = r.refs
        BY <3>1 DEF Records
    <3> QED
        BY <3>2 DEF r
  <2>2. cat' \in [Objects -> Records]
      BY <1>4, <2>1
  <2>3. \A o \in Objects : cat'[o].ext = cat[o].ext /\ (cat'[o].ext = NoExtent => cat'[o].refs = 0)
      BY <1>1, <2>1 DEF Divides
  <2>4. Divides(cat', free')
      BY <1>1, <2>2, <2>3, FlagsDivide, SMTT(30)
  <2> QED
      BY <2>1, <2>2, <2>4
<1> QED
    BY <1>3, <1>4 DEF FinishJob

\* A job is over.
LEMMA FinishJobBase ==
    ASSUME BaseInv, FinishJob, UNCHANGED script
    PROVE  BaseInv'
<1>1. /\ job.phase = "work"
      /\ UNCHANGED <<script, free, data, fifo, hand, parked, answer, lease, jobs, image, want, due>>
    BY DEF FinishJob, queues
<1>2. JobInv' /\ LeaseInv'
    BY <1>1, JobAdvances DEF FinishJob
<1>3. QueueInv'
    BY <1>1, QueueSame
<1>4. SlabInv'
    BY <1>1, FinishEffect DEF BaseInv, SlabInv
<1>5. BytesInv'
    BY <1>1 DEF BaseInv, BytesInv
<1> QED
    BY <1>2, <1>3, <1>4, <1>5 DEF BaseInv

\* A job has failed: what it made is gone, and with it the leases on it.
LEMMA FailEffect ==
    ASSUME BaseInv, FailJob, NEW made, made = lease[job.call].made
    PROVE  /\ job.phase = "work" /\ job.call \in Calls /\ made \subseteq script[job.call].ids
           /\ made \subseteq Objects /\ (made # {} => script[job.call].op = "restore")
           /\ Divides(cat', free')
           /\ \A o \in made : cat'[o].ext = NoExtent /\ cat'[o].refs = 0
           /\ \A o \in Objects \ made : cat'[o] = cat[o]
           /\ lease' \in [Calls -> LeaseType]
           /\ \A d \in Calls \ {job.call} : lease'[d] = lease[d]
           /\ lease'[job.call].state = "held" /\ lease'[job.call].made = made
           /\ DOMAIN lease'[job.call].at = script[job.call].ids \ made
           /\ \A o \in script[job.call].ids \ made : lease'[job.call].at[o] = lease[job.call].at[o]
           /\ job'.call = job.call /\ job'.phase = "release"
           /\ job' \in [call : Calls \cup {0}, phase : {"idle", "work", "release"}, todo : SUBSET Objects]
<1> DEFINE c == job.call
           l == lease[c]
           at == [o \in script[c].ids \ made |-> l.at[o]]
<1>1. /\ job.phase = "work" /\ Drop(made)
      /\ lease' = [lease EXCEPT ![c].at = [o \in script[c].ids \ made |-> @[o]]]
      /\ job' = [job EXCEPT !.phase = "release"]
    BY DEF FailJob
<1>2. /\ c \in Calls /\ l.state = "held" /\ DOMAIN l.at = script[c].ids /\ l \in LeaseType
      /\ lease \in [Calls -> LeaseType] /\ made \subseteq script[c].ids
      /\ made # {} => script[c].op = "restore"
    BY <1>1, JobFacts DEF Whole, BaseInv, LeaseInv
<1>3. script[c].ids \subseteq Objects
    BY <1>2, CallFacts DEF BaseInv, SlabInv
<1>4. made \in SUBSET Objects
    BY <1>2, <1>3
<1>5. /\ Divides(cat', free')
      /\ \A o \in made : cat'[o].ext = NoExtent /\ cat'[o].refs = 0
      /\ \A o \in Objects \ made : cat'[o] = cat[o]
    BY <1>1, <1>4, DropDivides, SMTT(30) DEF BaseInv, SlabInv, Absent
<1>6. at \in Maps /\ DOMAIN at = script[c].ids \ made
  <2>1. l.at \in Maps
      BY <1>2 DEF LeaseType
  <2>2. \A o \in script[c].ids : l.at[o] \in Extents
      BY <1>2, <2>1 DEF Maps
  <2>3. at \in [script[c].ids \ made -> Extents]
      BY <2>2
  <2> QED
      BY <1>3, <2>3 DEF Maps
<1>7. /\ \A d \in Calls \ {c} : lease'[d] = lease[d]
      /\ lease'[c] = [l EXCEPT !.at = at] /\ DOMAIN lease' = Calls /\ lease' = [d \in Calls |-> lease'[d]]
    BY <1>1, <1>2
<1>8. \A o \in script[c].ids \ made : at[o] = l.at[o]
    OBVIOUS
<1> HIDE DEF at
<1>9. /\ lease'[c] \in LeaseType /\ lease'[c].state = "held" /\ lease'[c].made = l.made /\ lease'[c].at = at
  <2> HIDE DEF l
  <2> QED
      BY <1>2, <1>6, <1>7 DEF LeaseType
<1>10. lease' \in [Calls -> LeaseType]
    BY <1>2, <1>7, <1>9
<1>11. /\ job'.call = c /\ job'.phase = "release"
       /\ job' \in [call : Calls \cup {0}, phase : {"idle", "work", "release"}, todo : SUBSET Objects]
    BY <1>1 DEF BaseInv, JobInv
<1> QED
    BY <1>1, <1>2, <1>4, <1>5, <1>6, <1>7, <1>8, <1>9, <1>10, <1>11

\* A job fails.
LEMMA FailJobBase ==
    ASSUME BaseInv, FailJob, UNCHANGED script
    PROVE  BaseInv'
<1> DEFINE made == lease[job.call].made
<1>1. /\ job.phase = "work" /\ job.call \in Calls /\ made \subseteq script[job.call].ids
      /\ (made # {} => script[job.call].op = "restore") /\ Divides(cat', free')
      /\ lease' \in [Calls -> LeaseType]
      /\ \A d \in Calls \ {job.call} : lease'[d] = lease[d]
      /\ lease'[job.call].state = "held" /\ lease'[job.call].made = made
      /\ DOMAIN lease'[job.call].at = script[job.call].ids \ made
      /\ job'.call = job.call /\ job'.phase = "release"
      /\ job' \in [call : Calls \cup {0}, phase : {"idle", "work", "release"}, todo : SUBSET Objects]
    BY FailEffect
<1>2. UNCHANGED <<script, data, fifo, parked, jobs, hand, answer, image, want, due>>
    BY DEF FailJob, queues
<1>3. /\ lease[job.call].state = "held" /\ job.call \notin Elems(jobs) /\ Elems(jobs) \subseteq Calls
      /\ script[job.call].op \in Takers /\ job.call # 0
    BY <1>1, JobFacts, ElemsCalls DEF Whole, BaseInv, JobInv, Takers, Calls
<1> HIDE DEF made
<1>4. SlabInv' /\ BytesInv'
    BY <1>1, <1>2 DEF BaseInv, SlabInv, BytesInv
<1>5. QueueInv'
    BY <1>1, <1>2, <1>3, QueueSame
<1>6. LeaseInv'
  <2>1. ASSUME NEW d \in Calls
        PROVE  /\ lease'[d].made \subseteq script[d].ids
               /\ lease'[d].made # {} => script[d].op = "restore"
               /\ lease'[d].state = "held" =>
                    /\ script[d].op \in Takers
                    /\ \/ lease'[d].state = "held" /\ DOMAIN lease'[d].at = script[d].ids
                       \/ DOMAIN lease'[d].at = script[d].ids \ lease'[d].made
    <3>1. CASE d = job.call
        BY <1>1, <1>3, <3>1
    <3>2. CASE d # job.call
        BY <1>1, <3>2 DEF BaseInv, LeaseInv, Whole
    <3> QED
        BY <3>1, <3>2
  <2> QED
      BY <1>1, <1>2, <2>1 DEF LeaseInv, Whole
<1>7. JobInv'
  <2>1. \A d \in Elems(jobs) : lease'[d] = lease[d]
      BY <1>1, <1>3
  <2> QED
      BY <1>1, <1>2, <1>3, <2>1 DEF BaseInv, JobInv, Whole
<1> QED
    BY <1>4, <1>5, <1>6, <1>7 DEF BaseInv

\* release_leases: one reference less on every leased record of the call.
LEMMA ReleaseEffect ==
    ASSUME BaseInv, NEW c \in Calls, ReleaseLeases(c)
    PROVE  /\ lease[c].state = "held" /\ lease' \in [Calls -> LeaseType]
           /\ \A d \in Calls \ {c} : lease'[d] = lease[d]
           /\ lease'[c].state = "released" /\ lease'[c].made = lease[c].made
           /\ c \notin Elems(jobs) /\ (c = job.call => job.phase = "release")
           /\ cat' \in [Objects -> Records] /\ Divides(cat', free')
           /\ \A o \in Objects :
                 /\ cat'[o].ext = cat[o].ext
                 /\ cat'[o].refs = IF o \in script[c].ids /\ cat[o].refs > 0
                                   THEN cat[o].refs - 1 ELSE cat[o].refs
<1> DEFINE l == lease[c]
<1>1. l.state = "held" /\ lease \in [Calls -> LeaseType] /\ Divides(cat, free) /\ free' = free
    BY DEF ReleaseLeases, BaseInv, LeaseInv, SlabInv
<1>2. /\ \A d \in Calls \ {c} : lease'[d] = lease[d]
      /\ lease'[c] = [l EXCEPT !.state = "released"] /\ lease' = [d \in Calls |-> lease'[d]]
      /\ l \in LeaseType
    BY <1>1 DEF ReleaseLeases
<1>3. lease'[c] \in LeaseType /\ lease'[c].state = "released" /\ lease'[c].made = l.made
  <2> HIDE DEF l
  <2> QED
      BY <1>2 DEF LeaseType
<1>4. lease' \in [Calls -> LeaseType]
    BY <1>1, <1>2, <1>3, SMTT(30)
<1>5. c \notin Elems(jobs) /\ (c = job.call => job.phase = "release")
  <2>1. CASE script[c].op = "send"
    <3>1. c # 0
        BY SMT DEF Calls
    <3> QED
        BY <2>1, <3>1 DEF BaseInv, JobInv
  <2>2. CASE job.call = c /\ job.phase = "release"
      BY <2>2 DEF BaseInv, JobInv
  <2> QED
      BY <2>1, <2>2 DEF ReleaseLeases
<1>6. ASSUME NEW o \in Objects
      PROVE  /\ cat'[o] \in Records /\ cat'[o].ext = cat[o].ext
             /\ cat'[o].refs = IF o \in script[c].ids /\ cat[o].refs > 0
                               THEN cat[o].refs - 1 ELSE cat[o].refs
  <2> DEFINE r == cat[o]
  <2>1. r \in Records
      BY <1>1 DEF Divides
  <2>2. cat'[o] = IF o \in script[c].ids /\ r.refs > 0 THEN [r EXCEPT !.refs = @ - 1] ELSE r
      BY DEF ReleaseLeases, IsLeased
  <2> HIDE DEF r
  <2>3. CASE o \in script[c].ids /\ r.refs > 0
    <3>1. cat'[o] = [r EXCEPT !.refs = @ - 1] /\ r.refs - 1 \in Nat
        BY <2>1, <2>2, <2>3, SMTT(30) DEF Records
    <3>2. cat'[o] \in Records /\ cat'[o].ext = r.ext /\ cat'[o].refs = r.refs - 1
        BY <2>1, <3>1 DEF Records
    <3> QED
        BY <2>3, <3>2 DEF r
  <2>4. CASE ~(o \in script[c].ids /\ r.refs > 0)
    <3>1. cat'[o] = r
        BY <2>2, <2>4
    <3> QED
        BY <2>1, <2>4, <3>1 DEF r
  <2> QED
      BY <2>3, <2>4
<1>7. cat' \in [Objects -> Records]
  <2>1. cat' = [o \in Objects |-> cat'[o]]
      BY DEF ReleaseLeases
  <2> QED
      BY <1>6, <2>1
<1>8. \A o \in Objects : cat'[o].ext = cat[o].ext /\ (cat'[o].ext = NoExtent => cat'[o].refs = 0)
    BY <1>1, <1>6, SMTT(30) DEF Divides
<1>9. Divides(cat', free')
    BY <1>1, <1>7, <1>8, FlagsDivide, SMTT(30)
<1> QED
    BY <1>1, <1>2, <1>3, <1>4, <1>5, <1>6, <1>7, <1>9

\* A release of leases.
LEMMA ReleaseLeasesBase ==
    ASSUME BaseInv, NEW c \in Calls, ReleaseLeases(c), UNCHANGED script
    PROVE  BaseInv'
<1>1. /\ lease[c].state = "held" /\ lease' \in [Calls -> LeaseType]
      /\ \A d \in Calls \ {c} : lease'[d] = lease[d]
      /\ lease'[c].state = "released" /\ lease'[c].made = lease[c].made
      /\ c \notin Elems(jobs) /\ (c = job.call => job.phase = "release")
      /\ Divides(cat', free')
    BY ReleaseEffect
<1>2. UNCHANGED <<script, data, fifo, parked, jobs, hand, answer, job, image, want, due>>
    BY DEF ReleaseLeases, queues
<1>3. SlabInv' /\ BytesInv'
    BY <1>1, <1>2 DEF BaseInv, SlabInv, BytesInv
<1>4. QueueInv'
    BY <1>1, <1>2, QueueSame
<1>5. LeaseInv'
  <2>1. \A d \in Calls : lease'[d].made = lease[d].made
      BY <1>1
  <2>2. \A d \in Calls : lease'[d].state = "held" => lease'[d] = lease[d]
      BY <1>1
  <2> QED
      BY <1>1, <1>2, <2>1, <2>2 DEF BaseInv, LeaseInv, Whole
<1>6. JobInv'
  <2>1. Elems(jobs) \subseteq Calls
      BY ElemsCalls DEF BaseInv, JobInv
  <2>2. \A d \in Elems(jobs) : lease'[d] = lease[d]
      BY <1>1, <2>1
  <2>3. job.phase = "work" => lease'[job.call] = lease[job.call]
      BY <1>1, JobFacts
  <2>4. job.phase = "release" => lease'[job.call].state \in {"held", "released"}
      BY <1>1 DEF BaseInv, JobInv
  <2> QED
      BY <1>2, <2>2, <2>3, <2>4 DEF BaseInv, JobInv, Whole
<1> QED
    BY <1>3, <1>4, <1>5, <1>6 DEF BaseInv

\* The hook of a release.
LEMMA UnparkEffect ==
    ASSUME BaseInv, NEW c \in Calls, UnparkAll(c)
    PROVE  /\ lease[c].state = "released" /\ lease' \in [Calls -> LeaseType]
           /\ \A d \in Calls \ {c} : lease'[d] = lease[d]
           /\ lease'[c].state = "done" /\ lease'[c].made = lease[c].made
           /\ c \notin Elems(jobs) /\ (c = job.call => job.phase = "release" /\ job' = Nowhere)
           /\ c # job.call => job' = job
<1> DEFINE l == lease[c]
<1>1. l.state = "released" /\ lease \in [Calls -> LeaseType]
    BY DEF UnparkAll, BaseInv, LeaseInv
<1>2. /\ \A d \in Calls \ {c} : lease'[d] = lease[d]
      /\ lease'[c] = [l EXCEPT !.state = "done"] /\ lease' = [d \in Calls |-> lease'[d]]
      /\ l \in LeaseType
    BY <1>1 DEF UnparkAll
<1>3. lease'[c] \in LeaseType /\ lease'[c].state = "done" /\ lease'[c].made = l.made
  <2> HIDE DEF l
  <2> QED
      BY <1>2 DEF LeaseType
<1>4. lease' \in [Calls -> LeaseType]
    BY <1>1, <1>2, <1>3, SMTT(30)
<1>5. c \notin Elems(jobs) /\ (c = job.call => job.phase = "release")
  <2>1. c # 0
      BY SMT DEF Calls
  <2> QED
      BY <1>1, <2>1 DEF BaseInv, JobInv, Whole
<1> QED
    BY <1>1, <1>2, <1>3, <1>4, <1>5 DEF UnparkAll

\* Parked calls go back to the queue.
LEMMA UnparkAllBase ==
    ASSUME BaseInv, NEW c \in Calls, UnparkAll(c), UNCHANGED script
    PROVE  BaseInv'
<1>1. /\ lease[c].state = "released" /\ lease' \in [Calls -> LeaseType]
      /\ \A d \in Calls \ {c} : lease'[d] = lease[d]
      /\ lease'[c].state = "done" /\ lease'[c].made = lease[c].made
      /\ c \notin Elems(jobs) /\ (c = job.call => job.phase = "release" /\ job' = Nowhere)
      /\ c # job.call => job' = job
    BY UnparkEffect
<1>2. UNCHANGED <<script, cat, free, data, jobs, hand, answer, image, want, due>>
    BY DEF UnparkAll, store
<1>3. SlabInv' /\ BytesInv'
    BY <1>2 DEF BaseInv, SlabInv, BytesInv
<1>4. QueueInv'
  <2>1. /\ fifo' \in Seq(Calls) /\ parked' \in Seq(Calls) /\ Distinct(fifo') /\ Distinct(parked')
        /\ Elems(fifo') = Elems(fifo) \cup Elems(parked) /\ Elems(parked') = {}
      BY UnparkFacts DEF UnparkAll, Unparks, BaseInv
  <2>2. \A d \in Calls : lease[d].state = "none" => lease'[d].state = "none"
      BY <1>1
  <2>3. UNCHANGED <<hand, answer>>
      BY <1>2
  <2> QED
      BY <2>1, <2>2, <2>3 DEF BaseInv, QueueInv
<1>5. LeaseInv'
  <2>1. \A d \in Calls : lease'[d].made = lease[d].made
      BY <1>1
  <2>2. \A d \in Calls : lease'[d].state = "held" => lease'[d] = lease[d]
      BY <1>1
  <2> QED
      BY <1>1, <1>2, <2>1, <2>2 DEF BaseInv, LeaseInv, Whole
<1>6. JobInv'
  <2>1. Elems(jobs) \subseteq Calls /\ 0 \notin Elems(jobs)
      BY ElemsCalls DEF BaseInv, JobInv
  <2>2. \A d \in Elems(jobs) : lease'[d] = lease[d]
      BY <1>1, <2>1
  <2>3. CASE job' = job
    <3>1. c # job.call
        BY <1>1, <2>3, SMTT(30) DEF Nowhere
    <3>2. job.phase # "idle" => lease'[job.call] = lease[job.call]
        BY <1>1, <3>1 DEF BaseInv, JobInv
    <3> QED
        BY <1>2, <2>2, <2>3, <3>2 DEF BaseInv, JobInv, Whole
  <2>4. CASE job' = Nowhere
    <3>1. /\ job' \in [call : Calls \cup {0}, phase : {"idle", "work", "release"}, todo : SUBSET Objects]
          /\ job'.call = 0 /\ job'.phase = "idle"
        BY <2>4 DEF Nowhere
    <3> QED
        BY <1>2, <2>1, <2>2, <3>1 DEF BaseInv, JobInv, Whole
  <2> QED
      BY <1>1, <2>3, <2>4
<1> QED
    BY <1>3, <1>4, <1>5, <1>6 DEF BaseInv

-----------------------------------------------------------------------------
(***************************************************************************)
(* Extents have one owner.                                                 *)
(***************************************************************************)
\* A step of the dispatcher or a submission leaves leases and jobs alone, or
\* admits a call; the other steps are the payload thread's and the releases'.
LEMMA Steps ==
    ASSUME BaseInv, Next
    PROVE  /\ script' = script
           /\ \/ Plain
              \/ \E c \in Calls : \E ct, made : Admits(c, ct, made)
              \/ Payload
              \/ \E c \in Calls : ReleaseLeases(c) \/ UnparkAll(c)
<1>1. script' = script
    BY DEF Next
<1>2. ASSUME NEW c \in Calls, Handler(c)
      PROVE  Plain \/ \E ct, made : Admits(c, ct, made)
  <2>1. CASE Put(c) \/ Duplicate(c) \/ Run(c)
      BY <1>1, <2>1, PutPlain, DuplicatePlain, RunPlain
  <2>2. CASE Release(c) \/ Protect(c) \/ Wipe(c)
      BY <1>1, <2>2, ReleasePlain, ProtectPlain, WipePlain
  <2>3. CASE Snapshot(c) \/ Send(c)
      BY <1>1, <2>3, SnapshotAdmits, SendAdmits
  <2>4. CASE Restore(c)
      BY <1>1, <2>4, RestoreAdmits
  <2>5. CASE AdmissionRaises(c)
      BY <1>1, <2>5, AdmissionRaisesPlain
  <2> QED
      BY <1>2, <2>1, <2>2, <2>3, <2>4, <2>5 DEF Handler
<1>3. ASSUME TakeCall \/ Park \/ \E c \in Calls : Submit(c)
      PROVE  Plain
    BY <1>1, <1>3, BetweenPlain
<1> QED
    BY <1>1, <1>2, <1>3 DEF Next, Dispatcher

\* At first the slab is free and nobody has called.
LEMMA BaseInit ==
    ASSUME Init
    PROVE  BaseInv
<1>1. Divides(cat, free)
  <2>1. Absent \in Records /\ Absent.ext = NoExtent /\ Absent.refs = 0
      BY DEF Absent, Records
  <2>2. cat \in [Objects -> Records] /\ \A o \in Objects : cat[o].ext = NoExtent /\ cat[o].refs = 0
      BY <2>1 DEF Init
  <2>3. NoExtent \notin Extents /\ free = Extents
      BY StoreConstants DEF Init
  <2> QED
      BY <2>2, <2>3 DEF Divides
<1>2. \A q : q = <<>> => q \in Seq(Calls) /\ Elems(q) = {} /\ Distinct(q)
    BY SMT DEF Elems, Distinct
<1>3. NoLease \in LeaseType /\ NoLease.state = "none" /\ NoLease.made = {}
  <2> DEFINE at == [o \in {} |-> NoExtent]
  <2>1. at \in [{} -> Extents]
      OBVIOUS
  <2>2. at \in Maps
      BY <2>1 DEF Maps
  <2>3. NoLease = [state |-> "none", at |-> at, made |-> {}]
      BY DEF NoLease
  <2> HIDE DEF at
  <2> QED
      BY <2>2, <2>3 DEF LeaseType
<1>4. /\ Nowhere \in [call : Calls \cup {0}, phase : {"idle", "run", "leased"}, todo : {{}}]
      /\ Nowhere \in [call : Calls \cup {0}, phase : {"idle", "work", "release"}, todo : SUBSET Objects]
      /\ Nowhere.call = 0 /\ Nowhere.phase = "idle"
    BY DEF Nowhere
<1>5. \A c \in Calls : lease[c] = NoLease
    BY DEF Init
<1>6. QueueInv
    BY <1>2, <1>3, <1>4, <1>5 DEF Init, QueueInv
<1>7. LeaseInv
    BY <1>3, <1>5 DEF Init, LeaseInv
<1>8. JobInv
    BY <1>2, <1>4 DEF Init, JobInv
<1>9. BytesInv
    BY StoreConstants, SMTT(30) DEF Init, BytesInv, Unwritten, Uncopied
<1> QED
    BY <1>1, <1>6, <1>7, <1>8, <1>9 DEF Init, BaseInv, SlabInv

\* The tables are kept by every step.
LEMMA BaseNext ==
    ASSUME BaseInv, [Next]_vars
    PROVE  BaseInv'
<1>1. CASE Next
  <2>1. CASE Plain
      BY <2>1, PlainBase
  <2>2. ASSUME NEW c \in Calls, NEW ct, NEW made, Admits(c, ct, made) PROVE BaseInv'
      BY <2>2, AdmitBase
  <2>3. CASE Payload
      BY <1>1, <2>3, Steps, TakeJobBase, CopyObjectBase, PlaceObjectBase, FinishJobBase,
         FailJobBase
         DEF Payload
  <2>4. ASSUME NEW c \in Calls, ReleaseLeases(c) \/ UnparkAll(c) PROVE BaseInv'
      BY <1>1, <2>4, Steps, ReleaseLeasesBase, UnparkAllBase
  <2> QED
      BY <1>1, <2>1, <2>2, <2>3, <2>4, Steps
<1>2. CASE UNCHANGED vars
    BY <1>2, SMTT(30) DEF vars, BaseInv, SlabInv, QueueInv, LeaseInv, JobInv, BytesInv, Divides,
       Whole
<1> QED
    BY <1>1, <1>2

\* Whatever is created, released, wiped, restored and rolled back, an extent
\* is on the free list or belongs to one object: put, release, wipe and
\* rollback_created of store.py lose no extent and give none to two objects.
THEOREM ExtentsHaveOneOwner == Spec => []ExtentsOwned
<1>1. Init => BaseInv
    BY BaseInit
<1>2. BaseInv /\ [Next]_vars => BaseInv'
    BY BaseNext
<1>3. ASSUME BaseInv PROVE ExtentsOwned
  <2>1. Divides(cat, free)
      BY <1>3 DEF BaseInv, SlabInv
  <2>2. ASSUME NEW e \in Extents
        PROVE  Cardinality({o \in Objects : cat[o].ext = e}) = IF e \in free THEN 0 ELSE 1
    <3> DEFINE owners == {o \in Objects : cat[o].ext = e}
    <3>1. e # NoExtent
        BY StoreConstants
    <3>2. CASE e \in free
      <4>1. owners = {}
          BY <2>1, <3>2 DEF Divides
      <4> HIDE DEF owners
      <4>2. Cardinality(owners) = 0
          BY <4>1, FS_EmptySet
      <4> QED
          BY <3>2, <4>2 DEF owners
    <3>3. CASE e \notin free
      <4>1. PICK o \in Objects : cat[o].ext = e
          BY <2>1, <3>3 DEF Divides
      <4>2. owners = {o}
          BY <2>1, <3>1, <4>1 DEF Divides
      <4> HIDE DEF owners
      <4>3. Cardinality(owners) = 1
          BY <4>2, FS_Singleton
      <4> QED
          BY <3>3, <4>3 DEF owners
    <3> QED
        BY <3>2, <3>3
  <2> QED
      BY <2>2 DEF ExtentsOwned
<1> QED
    BY <1>1, <1>2, <1>3, PTL DEF Spec
=============================================================================
