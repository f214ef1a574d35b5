----------------------------- MODULE EngineTypes -----------------------------
(***************************************************************************)
(* Facts about the operators the engine is built from (sizes of sets of    *)
(* objects, the sub-list that Pick selects), type correctness of the       *)
(* engine, for every set of valid programs, and memory safety of assigned  *)
(* offsets.                                                                *)
(***************************************************************************)
EXTENDS Engine, FiniteSetTheorems, NaturalsInduction, WellFoundedInduction, TLAPS

-----------------------------------------------------------------------------
(***************************************************************************)
(* Induction over a set of naturals, from the library's minimum principle. *)
(***************************************************************************)
\* A set of naturals that holds 0 and is closed under successor is all of Nat.
LEMMA SetInduction ==
    ASSUME NEW S \in SUBSET Nat, 0 \in S, \A n \in S : n + 1 \in S
    PROVE  \A n \in Nat : n \in S
<1> SUFFICES ASSUME NEW k \in Nat, k \notin S PROVE FALSE
    BY Zenon
<1> DEFINE T == Nat \ S
<1>1. T \in SUBSET Nat /\ T # {}
    BY Zenon
<1>2. PICK x \in T : \A y \in T : ~ (<<y, x>> \in OpToRel(<, Nat))
    BY Zenon, <1>1, NatLessThanWellFounded, WFMin
<1>3. x # 0 /\ x - 1 \in Nat /\ x - 1 < x
    OBVIOUS
<1>4. <<x - 1, x>> \in OpToRel(<, Nat)
    BY Zenon, <1>3 DEF OpToRel
<1>5. x - 1 \in S
    BY Zenon, <1>2, <1>3, <1>4
<1>6. (x - 1) + 1 \in S
    BY Zenon, <1>5
<1> QED
    BY <1>3, <1>6

-----------------------------------------------------------------------------
(***************************************************************************)
(* Pick.                                                                   *)
(***************************************************************************)
\* The body of Pick's recursion, as a relation between consecutive values.
Picks(s, S, g, n) ==
    /\ g[0] = <<>>
    /\ \A i \in 1 .. n : g[i] = IF s[i] \in S THEN Append(g[i - 1], s[i]) ELSE g[i - 1]

\* The recursion in Pick has a solution.
LEMMA PickSolution ==
    ASSUME NEW O, NEW s \in Seq(O), NEW S
    PROVE  \E g \in [0 .. Len(s) -> Seq(O)] : Picks(s, S, g, Len(s))
<1> DEFINE Good == {n \in Nat : n <= Len(s) =>
                        \E g \in [0 .. n -> Seq(O)] : Picks(s, S, g, n)}
<1>1. 0 \in Good
  <2> DEFINE g == [i \in 0 .. 0 |-> <<>>]
  <2>1. g \in [0 .. 0 -> Seq(O)] /\ Picks(s, S, g, 0)
      BY DEF Picks
  <2> QED
      BY Zenon, <2>1
<1>2. ASSUME NEW n \in Good PROVE n + 1 \in Good
  <2> SUFFICES ASSUME n + 1 <= Len(s)
               PROVE  \E g \in [0 .. n + 1 -> Seq(O)] : Picks(s, S, g, n + 1)
      OBVIOUS
  <2>1. PICK g \in [0 .. n -> Seq(O)] : Picks(s, S, g, n)
      BY <1>2
  <2> DEFINE v == IF s[n + 1] \in S THEN Append(g[n], s[n + 1]) ELSE g[n]
             h == [i \in 0 .. n + 1 |-> IF i = n + 1 THEN v ELSE g[i]]
  <2>2. s[n + 1] \in O /\ g[n] \in Seq(O)
      BY <2>1
  <2>3. v \in Seq(O)
      BY <2>2
  <2>4. h \in [0 .. n + 1 -> Seq(O)]
      BY <2>3
  <2>5. h[0] = <<>>
      BY <2>1 DEF Picks
  <2>6. ASSUME NEW i \in 1 .. n + 1
        PROVE  h[i] = IF s[i] \in S THEN Append(h[i - 1], s[i]) ELSE h[i - 1]
    <3>1. i - 1 \in 0 .. n /\ h[i - 1] = g[i - 1]
        OBVIOUS
    <3>2. CASE i = n + 1
        BY <3>1, <3>2
    <3>3. CASE i # n + 1
      <4>1. i \in 1 .. n /\ h[i] = g[i]
          BY <3>3
      <4> QED
          BY Zenon, <2>1, <3>1, <4>1 DEF Picks
    <3> QED
        BY Zenon, <3>2, <3>3
  <2>7. Picks(s, S, h, n + 1)
      BY Zenon, <2>5, <2>6 DEF Picks
  <2> QED
      BY Zenon, <2>4, <2>7
<1>3. \A n \in Nat : n \in Good
  <2> HIDE DEF Good
  <2>1. Good \in SUBSET Nat
      BY Zenon DEF Good
  <2> QED
      BY Zenon, <1>1, <1>2, <2>1, SetInduction
<1> QED
    BY <1>3

\* Pick is the last value of a solution.
LEMMA PickUnfold ==
    ASSUME NEW O, NEW s \in Seq(O), NEW S
    PROVE  \E g \in [0 .. Len(s) -> Seq(O)] :
              Picks(s, S, g, Len(s)) /\ Pick(s, S) = g[Len(s)]
<1> DEFINE Body(f) == [i \in 0 .. Len(s) |->
                          IF i = 0 THEN <<>>
                          ELSE IF s[i] \in S THEN Append(f[i - 1], s[i]) ELSE f[i - 1]]
           c == CHOOSE f : f = Body(f)
<1>1. PICK g \in [0 .. Len(s) -> Seq(O)] : Picks(s, S, g, Len(s))
    BY Zenon, PickSolution
<1>2. g = Body(g)
  <2>1. ASSUME NEW i \in 0 .. Len(s) PROVE g[i] = Body(g)[i]
    <3>1. CASE i = 0
        BY Zenon, <1>1, <3>1 DEF Picks
    <3>2. CASE i # 0
      <4>1. i \in 1 .. Len(s)
          BY <3>2
      <4> QED
          BY Zenon, <1>1, <3>2, <4>1 DEF Picks
    <3> QED
        BY Zenon, <3>1, <3>2
  <2>2. DOMAIN g = 0 .. Len(s) /\ DOMAIN Body(g) = 0 .. Len(s)
      BY Zenon
  <2> HIDE DEF Body
  <2> QED
      BY SMTT(30), <2>1, <2>2
<1>3. c = Body(c)
  <2> HIDE DEF Body
  <2> QED
      BY Zenon, <1>2
<1>4. Pick(s, S) = c[Len(s)]
    BY Zenon DEF Pick
<1> HIDE DEF c
<1>5. c[0] = <<>> /\ \A i \in 1 .. Len(s) :
         c[i] = IF s[i] \in S THEN Append(c[i - 1], s[i]) ELSE c[i - 1]
  <2>1. \A i \in 0 .. Len(s) : Body(c)[i] =
           IF i = 0 THEN <<>> ELSE IF s[i] \in S THEN Append(c[i - 1], s[i]) ELSE c[i - 1]
      BY Zenon
  <2> HIDE DEF Body
  <2>2. \A i \in 0 .. Len(s) : c[i] =
           IF i = 0 THEN <<>> ELSE IF s[i] \in S THEN Append(c[i - 1], s[i]) ELSE c[i - 1]
      BY Zenon, <1>3, <2>1
  <2> QED
      BY <2>2
<1> DEFINE Same == {n \in Nat : n <= Len(s) => c[n] = g[n]}
<1>6. 0 \in Same
    BY Zenon, <1>1, <1>5 DEF Picks
<1>7. ASSUME NEW n \in Same PROVE n + 1 \in Same
    BY <1>1, <1>5, <1>7 DEF Picks
<1>8. \A n \in Nat : n \in Same
  <2> HIDE DEF Same
  <2>1. Same \in SUBSET Nat
      BY Zenon DEF Same
  <2> QED
      BY Zenon, <1>6, <1>7, <2>1, SetInduction
<1>9. c[Len(s)] = g[Len(s)]
    BY <1>8
<1> QED
    BY Zenon, <1>1, <1>4, <1>9

\* What Pick returns: a list of the members of s that are in S, and no others,
\* without repetitions if s has none.
LEMMA PickProperties ==
    ASSUME NEW O, NEW s \in Seq(O), NEW S
    PROVE  /\ Pick(s, S) \in Seq(O)
           /\ Range(Pick(s, S)) = Range(s) \cap S
           /\ NoRepeats(s) => NoRepeats(Pick(s, S))
<1>1. PICK g \in [0 .. Len(s) -> Seq(O)] : Picks(s, S, g, Len(s)) /\ Pick(s, S) = g[Len(s)]
    BY Zenon, PickUnfold
<1> DEFINE Upto(n) == {s[i] : i \in 1 .. n}
           Good == {n \in Nat : n <= Len(s) =>
                       /\ Range(g[n]) = Upto(n) \cap S
                       /\ NoRepeats(s) => NoRepeats(g[n])}
<1>2. 0 \in Good
    BY <1>1 DEF Picks, Range, NoRepeats
<1>3. ASSUME NEW n \in Good PROVE n + 1 \in Good
  <2> SUFFICES ASSUME n + 1 <= Len(s)
               PROVE  /\ Range(g[n + 1]) = Upto(n + 1) \cap S
                      /\ NoRepeats(s) => NoRepeats(g[n + 1])
      BY SMTT(30)
  <2>1. n \in Nat /\ Range(g[n]) = Upto(n) \cap S /\ (NoRepeats(s) => NoRepeats(g[n]))
      BY <1>3
  <2>2. g[n] \in Seq(O) /\ s[n + 1] \in O
      BY <2>1
  <2>3. g[n + 1] = IF s[n + 1] \in S THEN Append(g[n], s[n + 1]) ELSE g[n]
      BY <1>1, <2>1 DEF Picks
  <2>4. Upto(n + 1) = Upto(n) \cup {s[n + 1]}
    <3>1. 1 .. n + 1 = (1 .. n) \cup {n + 1}
        BY <2>1
    <3> QED
        BY Zenon, <3>1
  <2>5. CASE s[n + 1] \notin S
      BY Zenon, <2>1, <2>3, <2>4, <2>5
  <2>6. CASE s[n + 1] \in S
    <3> DEFINE u == g[n]
               w == Append(u, s[n + 1])
    <3>1. /\ Len(w) = Len(u) + 1
          /\ \A i \in 1 .. Len(u) : w[i] = u[i]
          /\ w[Len(u) + 1] = s[n + 1]
          /\ DOMAIN w = 1 .. Len(u) + 1 /\ DOMAIN u = 1 .. Len(u)
          /\ Len(u) \in Nat
        BY <2>2
    <3>2. g[n + 1] = w
        BY Zenon, <2>3, <2>6
    <3>3. Range(u) = Upto(n) \cap S
        BY Zenon, <2>1
    <3> HIDE DEF w, u
    <3>4. Range(w) = Range(u) \cup {s[n + 1]}
      <4>1. 1 .. Len(u) + 1 = (1 .. Len(u)) \cup {Len(u) + 1}
          BY <3>1
      <4>2. \A i \in DOMAIN u : w[i] = u[i]
          BY Zenon, <3>1
      <4>3. DOMAIN w = DOMAIN u \cup {Len(u) + 1} /\ w[Len(u) + 1] = s[n + 1]
          BY Zenon, <3>1, <4>1
      <4>4. \A v \in Range(w) : v \in Range(u) \cup {s[n + 1]}
          BY Zenon, <4>2, <4>3 DEF Range
      <4>5. \A v \in Range(u) \cup {s[n + 1]} : v \in Range(w)
          BY Zenon, <4>2, <4>3 DEF Range
      <4> QED
          BY <4>4, <4>5, Zenon
    <3>5. Range(w) = Upto(n + 1) \cap S
      <4> HIDE DEF Upto
      <4> QED
          BY Zenon, <2>4, <2>6, <3>3, <3>4
    <3>6. ASSUME NoRepeats(s) PROVE NoRepeats(w)
      <4>1. s[n + 1] \notin Upto(n)
          BY <2>1, <3>6 DEF NoRepeats
      <4>2. \A i \in 1 .. Len(u) : u[i] # s[n + 1]
          BY Zenon, <4>1, <3>1, <3>3 DEF Range
      <4>3. NoRepeats(u)
          BY Zenon, <2>1, <3>6 DEF u
      <4> SUFFICES ASSUME NEW i \in 1 .. Len(w), NEW j \in 1 .. Len(w), w[i] = w[j] PROVE i = j
          BY Zenon DEF NoRepeats
      <4>4. CASE i \in 1 .. Len(u) /\ j \in 1 .. Len(u)
          BY Zenon, <3>1, <4>3, <4>4 DEF NoRepeats
      <4>5. CASE i = Len(u) + 1 \/ j = Len(u) + 1
          BY <3>1, <4>2, <4>5
      <4> QED
          BY <3>1, <4>4, <4>5
    <3> QED
        BY Zenon, <3>2, <3>5, <3>6
  <2> QED
      BY Zenon, <2>5, <2>6
<1>4. \A n \in Nat : n \in Good
  <2> HIDE DEF Good
  <2>1. Good \in SUBSET Nat
      BY Zenon DEF Good
  <2> QED
      BY Zenon, <1>2, <1>3, <2>1, SetInduction
<1>5. Upto(Len(s)) = Range(s)
    BY DEF Range
<1>6. Len(s) \in Nat /\ g[Len(s)] \in Seq(O)
    OBVIOUS
<1>7. /\ Range(g[Len(s)]) = Upto(Len(s)) \cap S
      /\ NoRepeats(s) => NoRepeats(g[Len(s)])
  <2> HIDE DEF Upto
  <2> QED
      BY <1>4, <1>6
<1> HIDE DEF Upto, Good
<1> QED
    BY Zenon, <1>1, <1>5, <1>6, <1>7

-----------------------------------------------------------------------------
(***************************************************************************)
(* Bytes.                                                                  *)
(***************************************************************************)
\* What Bytes counts.
Cells(R) == UNION {{o} \X (1 .. prog.size[o]) : o \in R}

\* Bytes is a natural, is the size of a single object, and adds up.
LEMMA BytesFacts ==
    ASSUME prog \in Programs
    PROVE  /\ \A R \in SUBSET Objects : IsFiniteSet(Cells(R)) /\ Bytes(R) \in Nat
           /\ Bytes({}) = 0
           /\ \A o \in Objects : Bytes({o}) = prog.size[o]
           /\ \A R, T \in SUBSET Objects :
                 R \cap T = {} => Bytes(R \cup T) = Bytes(R) + Bytes(T)
<1>1. prog.size \in [Objects -> Nat \ {0}] /\ IsFiniteSet(Objects)
    BY Zenon, ProgramsAssumption DEF ValidProgram, WellTyped
<1>2. ASSUME NEW o \in Objects
      PROVE  /\ IsFiniteSet({o} \X (1 .. prog.size[o]))
             /\ Cardinality({o} \X (1 .. prog.size[o])) = prog.size[o]
  <2>1. IsFiniteSet(1 .. prog.size[o]) /\ Cardinality(1 .. prog.size[o]) = prog.size[o]
      BY SMTT(30), <1>1, FS_Interval
  <2>2. IsFiniteSet({o}) /\ Cardinality({o}) = 1
      BY Zenon, FS_Singleton
  <2>3. /\ IsFiniteSet({o} \X (1 .. prog.size[o]))
        /\ Cardinality({o} \X (1 .. prog.size[o]))
              = Cardinality({o}) * Cardinality(1 .. prog.size[o])
      BY Zenon, <2>1, <2>2, FS_Product
  <2>4. prog.size[o] \in Nat /\ 1 * prog.size[o] = prog.size[o]
      BY <1>1
  <2> QED
      BY Zenon, <2>1, <2>2, <2>3, <2>4
<1>3. ASSUME NEW R \in SUBSET Objects PROVE IsFiniteSet(Cells(R)) /\ Bytes(R) \in Nat
  <2> DEFINE Row(o) == {o} \X (1 .. prog.size[o])
             Rows   == {Row(o) : o \in R}
             f      == [o \in R |-> Row(o)]
  <2>1. IsFiniteSet(R)
      BY Zenon, <1>1, FS_Subset
  <2>2. f \in Surjection(R, Rows)
    <3> HIDE DEF Row
    <3> QED
        BY Zenon DEF Surjection
  <2>3. IsFiniteSet(Rows)
    <3> HIDE DEF f, Rows
    <3> QED
        BY Zenon, <2>1, <2>2, FS_Surjection
  <2>4. \A T \in Rows : IsFiniteSet(T)
      BY Zenon, <1>2
  <2>5. IsFiniteSet(UNION Rows)
    <3> HIDE DEF Rows
    <3> QED
        BY Zenon, <2>3, <2>4, FS_UNION
  <2>6. Cells(R) = UNION Rows /\ Bytes(R) = Cardinality(UNION Rows)
      BY Zenon DEF Cells, Bytes
  <2> HIDE DEF Rows
  <2> QED
      BY Zenon, <2>5, <2>6, FS_CardinalityType
<1>4. Bytes({}) = 0
  <2>1. Cells({}) = {}
      BY Zenon DEF Cells
  <2> QED
      BY Zenon, <2>1, FS_EmptySet DEF Bytes, Cells
<1>5. ASSUME NEW o \in Objects PROVE Bytes({o}) = prog.size[o]
  <2>1. Cells({o}) = {o} \X (1 .. prog.size[o])
      BY Zenon DEF Cells
  <2> QED
      BY Zenon, <1>2, <2>1 DEF Bytes, Cells
<1>6. ASSUME NEW R \in SUBSET Objects, NEW T \in SUBSET Objects, R \cap T = {}
      PROVE  Bytes(R \cup T) = Bytes(R) + Bytes(T)
  <2>1. Cells(R \cup T) = Cells(R) \cup Cells(T)
      BY Zenon DEF Cells
  <2>2. Cells(R) \cap Cells(T) = {}
      BY <1>6 DEF Cells
  <2>3. IsFiniteSet(Cells(R)) /\ IsFiniteSet(Cells(T))
      BY Zenon, <1>3
  <2>4. Cardinality(Cells(R)) \in Nat /\ Cardinality(Cells(T)) \in Nat
      BY Zenon, <2>3, FS_CardinalityType
  <2>5. Cardinality(Cells(R) \cup Cells(T)) = Cardinality(Cells(R)) + Cardinality(Cells(T))
    <3>1. Cardinality(Cells(R) \cup Cells(T))
            = Cardinality(Cells(R)) + Cardinality(Cells(T)) - Cardinality(Cells(R) \cap Cells(T))
        BY Zenon, <2>3, FS_Union
    <3>2. Cardinality(Cells(R) \cap Cells(T)) = 0
        BY Zenon, <2>2, FS_EmptySet
    <3> QED
        BY <2>4, <3>1, <3>2
  <2>6. \A U : Bytes(U) = Cardinality(Cells(U))
      BY Zenon DEF Bytes, Cells
  <2> QED
      BY Zenon, <2>1, <2>5, <2>6
<1> QED
    BY Zenon, <1>3, <1>4, <1>5, <1>6

\* Part of a set has no more bytes than the whole, and the rest has the rest.
LEMMA BytesMonotone ==
    ASSUME prog \in Programs, NEW T \in SUBSET Objects, NEW R \in SUBSET T
    PROVE  Bytes(R) <= Bytes(T) /\ Bytes(T \ R) = Bytes(T) - Bytes(R)
<1>1. R \cup (T \ R) = T /\ R \cap (T \ R) = {}
    BY Zenon
<1>2. R \in SUBSET Objects /\ T \ R \in SUBSET Objects
    BY Zenon
<1>3. Bytes(R) \in Nat /\ Bytes(T \ R) \in Nat
    BY Zenon, <1>2, BytesFacts
<1>4. Bytes(R \cup (T \ R)) = Bytes(R) + Bytes(T \ R)
    BY Zenon, <1>1, <1>2, BytesFacts
<1>5. Bytes(T) = Bytes(R) + Bytes(T \ R)
    BY Zenon, <1>1, <1>4
<1> QED
    BY <1>3, <1>5

-----------------------------------------------------------------------------
(***************************************************************************)
(* Type correctness.                                                       *)
(***************************************************************************)
TypeInv ==
    /\ prog \in Programs
    /\ TypeOK
    /\ pc \in {"pacing", "inputs", "reserve"} => cursor <= prog.n

-----------------------------------------------------------------------------
(***************************************************************************)
(* Every operator on mem keeps it in MemType.                              *)
(***************************************************************************)
LEMMA ProgramTypes ==
    ASSUME prog \in Programs
    PROVE  /\ prog.n \in Nat \ {0}
           /\ prog.size \in [Objects -> Nat \ {0}]
           /\ prog.cap \in [Locations -> Nat]
           /\ prog.init \in [Locations -> SUBSET Objects]
           /\ prog.final \in [Locations -> SUBSET Objects]
           /\ prog.inputs \in [1 .. prog.n -> SUBSET Objects]
           /\ prog.mutates \in [1 .. prog.n -> SUBSET Objects]
           /\ prog.out \in [1 .. prog.n -> [Locations -> SUBSET Objects]]
           /\ prog.releases \in [1 .. prog.n -> SUBSET Objects]
           /\ prog.offloads \in [1 .. prog.n -> Seq(Objects)]
           /\ prog.prefetches \in [1 .. prog.n -> Seq(Objects)]
    BY Zenon, ProgramsAssumption DEF ValidProgram, WellTyped, Tasks

\* The fields of a task that validate_program accepted.
LEMMA TaskTypes ==
    ASSUME prog \in Programs, NEW t \in 1 .. prog.n
    PROVE  /\ prog.inputs[t] \in SUBSET Objects /\ prog.mutates[t] \in SUBSET Objects
           /\ prog.out[t]["fast"] \in SUBSET Objects /\ prog.out[t]["backing"] \in SUBSET Objects
           /\ prog.releases[t] \in SUBSET Objects
           /\ prog.offloads[t] \in Seq(Objects) /\ prog.prefetches[t] \in Seq(Objects)
<1>1. prog.out[t] \in [Locations -> SUBSET Objects]
    BY Zenon, ProgramTypes
<1> QED
    BY Zenon, <1>1, ProgramTypes DEF Locations

\* An error recorded (raise) leaves memory well typed.
LEMMA RaiseType ==
    ASSUME NEW m \in MemType, NEW e \in Errors
    PROVE  Raise(m, e) \in MemType
    BY Zenon DEF MemType, Raise

\* A charge or a release of bytes (Ledger.charge, release) leaves memory well typed.
LEMMA ChargeType ==
    ASSUME NEW m \in MemType, NEW l \in Locations, NEW k \in Nat
    PROVE  Charge(m, l, k) \in MemType /\ Release(m, l, k) \in MemType
<1>1. m.used \in [Locations -> Nat]
    BY Zenon DEF MemType
<1>2. [m EXCEPT !.used[l] = m.used[l] + k] \in MemType
  <2>1. [m.used EXCEPT ![l] = m.used[l] + k] \in [Locations -> Nat]
      BY <1>1
  <2> QED
      BY Zenon, <2>1 DEF MemType
<1>3. ASSUME k <= m.used[l] PROVE [m EXCEPT !.used[l] = m.used[l] - k] \in MemType
  <2>1. [m.used EXCEPT ![l] = m.used[l] - k] \in [Locations -> Nat]
      BY <1>1, <1>3
  <2> QED
      BY Zenon, <2>1 DEF MemType
<1>4. Raise(m, "ledger") \in MemType
    BY Zenon, RaiseType DEF Errors
<1> QED
    BY Zenon, <1>2, <1>3, <1>4 DEF Charge, Release

\* A fast copy given up (pool.put) leaves memory well typed.
LEMMA DropFastType ==
    ASSUME prog \in Programs, NEW m \in MemType, NEW R \in SUBSET Objects
    PROVE  DropFast(m, R) \in MemType
<1>1. Bytes(R) \in Nat
    BY Zenon, BytesFacts
<1>2. Release(m, "fast", Bytes(R)) \in MemType
    BY Zenon, <1>1, ChargeType DEF Locations
<1> QED
    BY Zenon, <1>2 DEF DropFast, MemType, Slot, NoSlot, SlotStates

\* A buffer drawn (pool.get) leaves memory well typed.
LEMMA GetType ==
    ASSUME NEW m \in MemType, NEW o \in Objects, NEW d \in BOOLEAN
    PROVE  Get(m, o, d) \in MemType
<1> DEFINE held == m.held \cup {<<o, m.inc[o], d>>}
           inc  == [m.inc EXCEPT ![o] = m.inc[o] + 1]
<1>1. m.inc \in [Objects -> Nat] /\ m.held \in SUBSET (Objects \X Nat \X BOOLEAN)
    BY Zenon DEF MemType
<1>2. held \in SUBSET (Objects \X Nat \X BOOLEAN)
    BY <1>1
<1>3. inc \in [Objects -> Nat]
    BY <1>1
<1>4. Get(m, o, d) = [m EXCEPT !.held = held, !.inc = inc]
    BY Zenon DEF Get
<1> HIDE DEF held, inc
<1> QED
    BY Zenon, <1>2, <1>3, <1>4 DEF MemType

\* A slot that changes its state.
LEMMA SlotUpdate ==
    ASSUME NEW f \in [Objects -> Slot], NEW o \in Objects, NEW st \in SlotStates
    PROVE  [f EXCEPT ![o].st = st] \in [Objects -> Slot]
<1> DEFINE slot == [f[o] EXCEPT !.st = st]
<1>1. slot \in Slot
  <2>1. f[o] \in Slot
      BY Zenon
  <2> QED
      BY Zenon, <2>1 DEF Slot
<1> HIDE DEF slot
<1>2. [f EXCEPT ![o] = slot] \in [Objects -> Slot]
    BY Zenon, <1>1
<1> QED
    BY Zenon, <1>2 DEF slot

\* A fetch that starts (try_start, h2d) leaves memory well typed.
LEMMA StartH2DType ==
    ASSUME prog \in Programs, NEW m \in MemType, NEW o \in Objects, NEW d \in BOOLEAN,
           m.h2dq # <<>>
    PROVE  StartH2D(m, o, d) \in MemType
<1> DEFINE c    == Charge(m, "fast", prog.size[o])
           g    == Get(c, o, d)
           slot == [st |-> "inbound", ver |-> m.backing[o].ver, inc |-> m.inc[o]]
           q    == Tail(g.h2dq)
           f    == [g.fast EXCEPT ![o] = slot]
<1>1. c \in MemType
    BY Zenon, ProgramTypes, ChargeType DEF Locations
<1>2. c.h2dq = m.h2dq
    BY Zenon DEF Charge, Raise, MemType
<1>3. g \in MemType
    BY Zenon, <1>1, GetType
<1>4. g.h2dq = m.h2dq
    BY Zenon, <1>1, <1>2 DEF Get, MemType
<1>5. slot \in Slot
    BY Zenon DEF Slot, SlotStates, MemType
<1>6. StartH2D(m, o, d) = [g EXCEPT !.h2dq = q, !.h2din = o, !.fast = f]
    BY Zenon DEF StartH2D
<1> HIDE DEF c, g, slot
<1>7. q \in Seq(Objects) /\ f \in [Objects -> Slot]
    BY <1>3, <1>4, <1>5 DEF MemType
<1> HIDE DEF q, f
<1> DEFINE k == [g EXCEPT !.h2dq = q, !.h2din = o]
<1>8. k \in MemType
    BY Zenon, <1>3, <1>7 DEF MemType
<1>9. StartH2D(m, o, d) = [k EXCEPT !.fast = f]
    BY Zenon, <1>3, <1>6 DEF MemType
<1> HIDE DEF k
<1> QED
    BY Zenon, <1>7, <1>8, <1>9 DEF MemType

\* A poke of the inbound lane (try_start, h2d) leaves memory well typed.
LEMMA H2DTryStartType ==
    ASSUME prog \in Programs, NEW m \in MemType, NEW esc \in BOOLEAN
    PROVE  H2DTryStart(m, esc) \in MemType
<1> DEFINE o == Head(m.h2dq)
<1>1. ASSUME m.h2dq # <<>> PROVE StartH2D(m, o, ~ CanGet(m, o)) \in MemType
  <2>1. o \in Objects
      BY <1>1 DEF MemType
  <2> QED
      BY Zenon, <1>1, <2>1, StartH2DType
<1>2. Raise(m, "transfer") \in MemType
    BY Zenon, RaiseType DEF Errors
<1> QED
    BY Zenon, <1>1, <1>2 DEF H2DTryStart

\* The escape of a blocked fetch (escape_blocked_head) leaves memory well typed.
LEMMA EscapeBlockedHeadType ==
    ASSUME prog \in Programs, NEW m \in MemType
    PROVE  EscapeBlockedHead(m) \in MemType
    BY Zenon, H2DTryStartType DEF EscapeBlockedHead

\* An offload that starts (try_start, d2h) leaves memory well typed.
LEMMA StartD2HType ==
    ASSUME prog \in Programs, NEW m \in MemType, NEW o \in Objects, m.d2hq # <<>>
    PROVE  StartD2H(m, o) \in MemType
<1> DEFINE need == IF m.backing[o].st = "none" THEN prog.size[o] ELSE 0
           c == Charge(m, "backing", need)
           q == Tail(c.d2hq)
           b == [c.backing EXCEPT ![o] = [NoSlot EXCEPT !.st = "inbound", !.ver = m.fast[o].ver]]
           f == [c.fast EXCEPT ![o].st = "outbound"]
<1>1. need \in Nat
    BY Zenon, ProgramTypes
<1>2. c \in MemType
  <2> HIDE DEF need
  <2> QED
      BY Zenon, <1>1, ChargeType DEF Locations
<1>3. c.d2hq = m.d2hq
    BY Zenon DEF Charge, Raise, MemType
<1>4. StartD2H(m, o) = [c EXCEPT !.d2hq = q, !.d2hin = o, !.backing = b, !.fast = f]
    BY Zenon DEF StartD2H
<1>5. m.fast[o].ver \in Nat
    BY Zenon DEF MemType, Slot
<1>6. [NoSlot EXCEPT !.st = "inbound", !.ver = m.fast[o].ver] \in Slot
    BY Zenon, <1>5 DEF NoSlot, Slot, SlotStates
<1> HIDE DEF c
<1>7. q \in Seq(Objects)
    BY <1>2, <1>3 DEF MemType
<1>8. b \in [Objects -> Slot]
    BY Zenon, <1>2, <1>6 DEF MemType
<1>9. f \in [Objects -> Slot]
  <2>1. c.fast \in [Objects -> Slot]
      BY Zenon, <1>2 DEF MemType
  <2> QED
      BY Zenon, <2>1, SlotUpdate DEF SlotStates
<1> HIDE DEF q, b, f
<1> DEFINE k == [c EXCEPT !.d2hq = q, !.d2hin = o]
<1>10. k \in MemType
    BY Zenon, <1>2, <1>7 DEF MemType
<1>11. StartD2H(m, o) = [k EXCEPT !.backing = b, !.fast = f]
    BY Zenon, <1>2, <1>4 DEF MemType
<1> HIDE DEF k
<1> QED
    BY Zenon, <1>8, <1>9, <1>10, <1>11 DEF MemType

\* A poke of the outbound lane (try_start, d2h) leaves memory well typed.
LEMMA D2HTryStartType ==
    ASSUME prog \in Programs, NEW m \in MemType
    PROVE  D2HTryStart(m) \in MemType
<1> DEFINE o == Head(m.d2hq)
<1>1. ASSUME m.d2hq # <<>> PROVE StartD2H(m, o) \in MemType
  <2>1. o \in Objects
      BY <1>1 DEF MemType
  <2> QED
      BY Zenon, <1>1, <2>1, StartD2HType
<1>2. Raise(m, "transfer") \in MemType
    BY Zenon, RaiseType DEF Errors
<1> QED
    BY Zenon, <1>1, <1>2 DEF D2HTryStart

\* A transfer that completes (TransferEngine.complete) leaves memory well typed.
LEMMA CompleteType ==
    ASSUME prog \in Programs, NEW m \in MemType
    PROVE  /\ m.h2din # Nil => CompleteH2D(m) \in MemType
           /\ m.d2hin # Nil => CompleteD2H(m) \in MemType
<1>1. Raise(m, "assert") \in MemType
    BY Zenon, RaiseType DEF Errors
<1>2. ASSUME m.h2din # Nil PROVE CompleteH2D(m) \in MemType
  <2> DEFINE o == m.h2din
             f == [m.fast EXCEPT ![o].st = "live"]
  <2>1. f \in [Objects -> Slot]
    <3>1. m.fast \in [Objects -> Slot] /\ o \in Objects
        BY Zenon, <1>2 DEF MemType
    <3> QED
        BY Zenon, <3>1, SlotUpdate DEF SlotStates
  <2>2. [m EXCEPT !.fast = f, !.h2din = Nil] \in MemType
    <3> HIDE DEF f
    <3> QED
        BY Zenon, <2>1 DEF MemType
  <2> QED
      BY Zenon, <1>1, <2>2 DEF CompleteH2D
<1>3. ASSUME m.d2hin # Nil PROVE CompleteD2H(m) \in MemType
  <2> DEFINE o == m.d2hin
             d == DropFast(m, {o})
             b == [d.backing EXCEPT ![o].st = "live"]
  <2>1. o \in Objects
      BY Zenon, <1>3 DEF MemType
  <2>2. d \in MemType
      BY Zenon, <2>1, DropFastType
  <2> HIDE DEF d
  <2>3. b \in [Objects -> Slot]
    <3>1. d.backing \in [Objects -> Slot]
        BY Zenon, <2>2 DEF MemType
    <3> QED
        BY Zenon, <2>1, <3>1, SlotUpdate DEF SlotStates
  <2>4. [d EXCEPT !.backing = b, !.d2hin = Nil] \in MemType
    <3> HIDE DEF b
    <3> QED
        BY Zenon, <2>2, <2>3 DEF MemType
  <2> QED
      BY Zenon, <1>1, <2>4 DEF CompleteD2H, d
<1> QED
    BY Zenon, <1>2, <1>3

\* A deferred prefetch that is queued (_on_transfer_done) leaves memory well typed.
LEMMA ActivateDeferredType ==
    ASSUME NEW m \in MemType, NEW o \in Objects
    PROVE  ActivateDeferred(m, o) \in MemType
<1> DEFINE a == [i \in 1 .. m.deferred[o] |-> o]
           q == m.h2dq \o a
           d == [m.deferred EXCEPT ![o] = 0]
<1>1. a \in Seq(Objects)
  <2> DEFINE n == m.deferred[o]
  <2>1. n \in Nat
      BY Zenon DEF MemType
  <2> HIDE DEF n
  <2>2. [i \in 1 .. n |-> o] \in Seq(Objects)
      BY <2>1
  <2> QED
      BY Zenon, <2>2 DEF n
<1>2. q \in Seq(Objects) /\ d \in [Objects -> Nat]
  <2> HIDE DEF a
  <2> QED
      BY <1>1 DEF MemType
<1>3. [m EXCEPT !.h2dq = q, !.deferred = d] \in MemType
  <2> HIDE DEF q, d
  <2> QED
      BY Zenon, <1>2 DEF MemType
<1> QED
    BY Zenon, <1>3 DEF ActivateDeferred

\* The handler of a finished transfer (_on_transfer_done) leaves memory well typed.
LEMMA OnTransferDoneType ==
    ASSUME prog \in Programs, NEW m \in MemType
    PROVE  /\ m.h2din # Nil => OnH2DDone(m) \in MemType
           /\ m.d2hin # Nil => OnD2HDone(m) \in MemType
<1>1. ASSUME m.h2din # Nil PROVE OnH2DDone(m) \in MemType
    BY Zenon, <1>1, CompleteType, H2DTryStartType DEF OnH2DDone
<1>2. ASSUME m.d2hin # Nil PROVE OnD2HDone(m) \in MemType
  <2>1. m.d2hin \in Objects
      BY Zenon, <1>2 DEF MemType
  <2>2. ActivateDeferred(CompleteD2H(m), m.d2hin) \in MemType
      BY Zenon, <1>2, <2>1, CompleteType, ActivateDeferredType
  <2> QED
      BY Zenon, <2>2, D2HTryStartType, H2DTryStartType DEF OnD2HDone
<1> QED
    BY Zenon, <1>1, <1>2

\* Outputs that become live (_on_task_done) leaves memory well typed.
LEMMA OutputsLiveType ==
    ASSUME prog \in Programs, NEW m \in MemType, NEW t \in 1 .. prog.n
    PROVE  OutputsLive(m, t) \in MemType
<1> DEFINE f == [o \in Objects |-> IF o \in prog.out[t]["fast"]
                                   THEN [m.fast[o] EXCEPT !.st = "live"] ELSE m.fast[o]]
           b == [o \in Objects |-> IF o \in prog.out[t]["backing"]
                                   THEN [m.backing[o] EXCEPT !.st = "live"] ELSE m.backing[o]]
<1>1. \A s \in Slot : [s EXCEPT !.st = "live"] \in Slot
    BY Zenon DEF Slot, SlotStates
<1>2. m.fast \in [Objects -> Slot] /\ m.backing \in [Objects -> Slot]
    BY Zenon DEF MemType
<1>3. f \in [Objects -> Slot] /\ b \in [Objects -> Slot]
    BY Zenon, <1>1, <1>2
<1>4. [m EXCEPT !.fast = f, !.backing = b] \in MemType
  <2> HIDE DEF f, b
  <2> QED
      BY Zenon, <1>3 DEF MemType
<1>5. Raise(m, "assert") \in MemType
    BY Zenon, RaiseType DEF Errors
<1> QED
    BY Zenon, <1>4, <1>5 DEF OutputsLive

\* Inputs that a task has mutated (_on_task_done) leaves memory well typed.
LEMMA MutateType ==
    ASSUME prog \in Programs, NEW m \in MemType, NEW t \in 1 .. prog.n
    PROVE  Mutate(m, t) \in MemType
<1> DEFINE v == [o \in Objects |-> IF o \in prog.mutates[t] THEN m.ver[o] + 1 ELSE m.ver[o]]
           f == [o \in Objects |-> IF o \in prog.mutates[t]
                                   THEN [m.fast[o] EXCEPT !.ver = m.ver[o] + 1] ELSE m.fast[o]]
<1>1. \A s \in Slot, k \in Nat : [s EXCEPT !.ver = k] \in Slot
    BY Zenon DEF Slot, SlotStates
<1>2. m.fast \in [Objects -> Slot] /\ m.ver \in [Objects -> Nat]
    BY Zenon DEF MemType
<1>3. v \in [Objects -> Nat]
    BY <1>2
<1>4. f \in [Objects -> Slot]
  <2>1. \A o \in Objects : m.ver[o] + 1 \in Nat /\ m.fast[o] \in Slot
      BY <1>2
  <2> QED
      BY Zenon, <1>1, <2>1
<1>5. [m EXCEPT !.ver = v, !.fast = f] \in MemType
  <2> HIDE DEF f, v
  <2> QED
      BY Zenon, <1>3, <1>4 DEF MemType
<1>6. Raise(m, "assert") \in MemType
    BY Zenon, RaiseType DEF Errors
<1> QED
    BY Zenon, <1>5, <1>6 DEF Mutate

\* The release directives of a task (_on_task_done) leaves memory well typed.
LEMMA ReleaseDirectivesType ==
    ASSUME prog \in Programs, NEW m \in MemType, NEW t \in 1 .. prog.n
    PROVE  ReleaseDirectives(m, t) \in MemType
<1> DEFINE R    == prog.releases[t]
           dead == {o \in R : DeadEverywhere(m, o, t)}
           d    == Release(DropFast(m, R), "backing", Bytes(dead))
           b    == [o \in Objects |-> IF o \in dead THEN NoSlot ELSE d.backing[o]]
<1>1. R \in SUBSET Objects /\ dead \in SUBSET Objects
    BY Zenon, ProgramTypes
<1>2. Bytes(dead) \in Nat
    BY Zenon, <1>1, BytesFacts
<1>3. d \in MemType
  <2> HIDE DEF R, dead
  <2> QED
      BY Zenon, <1>1, <1>2, DropFastType, ChargeType DEF Locations
<1>4. b \in [Objects -> Slot]
  <2> HIDE DEF d, dead
  <2> QED
      BY Zenon, <1>3 DEF MemType, Slot, NoSlot, SlotStates
<1>5. [d EXCEPT !.backing = b] \in MemType
  <2> HIDE DEF d, b
  <2> QED
      BY Zenon, <1>3, <1>4 DEF MemType
<1>6. Raise(m, "misfire") \in MemType
    BY Zenon, RaiseType DEF Errors
<1> QED
    BY Zenon, <1>5, <1>6 DEF ReleaseDirectives

\* The offload directives of a task (_on_task_done) leaves memory well typed.
LEMMA OffloadDirectivesType ==
    ASSUME prog \in Programs, NEW m \in MemType, NEW t \in 1 .. prog.n
    PROVE  OffloadDirectives(m, t) \in MemType
<1> DEFINE R == Range(prog.offloads[t])
           f == [o \in Objects |-> IF o \in R
                                   THEN [m.fast[o] EXCEPT !.st = "pending_outbound"]
                                   ELSE m.fast[o]]
           q == m.d2hq \o prog.offloads[t]
<1>1. \A s \in Slot : [s EXCEPT !.st = "pending_outbound"] \in Slot
    BY Zenon DEF Slot, SlotStates
<1>2. m.fast \in [Objects -> Slot] /\ m.d2hq \in Seq(Objects)
    BY Zenon DEF MemType
<1>3. f \in [Objects -> Slot]
    BY Zenon, <1>1, <1>2
<1>4. q \in Seq(Objects)
  <2>1. prog.offloads[t] \in Seq(Objects)
      BY Zenon, ProgramTypes
  <2> QED
      BY <1>2, <2>1
<1>5. [m EXCEPT !.fast = f, !.d2hq = q] \in MemType
  <2> HIDE DEF f, q
  <2> QED
      BY Zenon, <1>3, <1>4 DEF MemType
<1>6. Raise(m, "misfire") \in MemType
    BY Zenon, RaiseType DEF Errors
<1> QED
    BY Zenon, <1>5, <1>6 DEF OffloadDirectives

\* The prefetch directives of a task (_on_task_done) leaves memory well typed.
LEMMA PrefetchDirectivesType ==
    ASSUME prog \in Programs, NEW m \in MemType, NEW t \in 1 .. prog.n
    PROVE  PrefetchDirectives(m, t) \in MemType
<1> DEFINE R == Range(prog.prefetches[t])
           k == Pick(prog.prefetches[t], {o \in R : ~ OffloadInFlight(m, o)})
           d == [o \in Objects |-> IF o \in R /\ OffloadInFlight(m, o)
                                   THEN m.deferred[o] + 1 ELSE m.deferred[o]]
           q == m.h2dq \o k
<1>1. k \in Seq(Objects)
    BY Zenon, ProgramTypes, PickProperties
<1>2. m.deferred \in [Objects -> Nat] /\ m.h2dq \in Seq(Objects)
    BY Zenon DEF MemType
<1>3. d \in [Objects -> Nat]
    BY <1>2
<1>4. q \in Seq(Objects)
  <2> HIDE DEF k
  <2> QED
      BY <1>1, <1>2
<1>5. [m EXCEPT !.deferred = d, !.h2dq = q] \in MemType
  <2> HIDE DEF d, q
  <2> QED
      BY Zenon, <1>3, <1>4 DEF MemType
<1>6. Raise(m, "misfire") \in MemType
    BY Zenon, RaiseType DEF Errors
<1> QED
    BY Zenon, <1>5, <1>6 DEF PrefetchDirectives

\* The handler of a finished task (_on_task_done) leaves memory well typed.
LEMMA OnTaskDoneType ==
    ASSUME prog \in Programs, NEW m \in MemType, NEW t \in 1 .. prog.n
    PROVE  OnTaskDone(m, t) \in MemType
<1> DEFINE m1 == ReleaseDirectives(Mutate(OutputsLive(m, t), t), t)
           m2 == PrefetchDirectives(OffloadDirectives(m1, t), t)
<1>1. m1 \in MemType
    BY Zenon, OutputsLiveType, MutateType, ReleaseDirectivesType
<1> HIDE DEF m1
<1>2. m2 \in MemType
    BY Zenon, <1>1, OffloadDirectivesType, PrefetchDirectivesType
<1> HIDE DEF m2
<1>3. OnTaskDone(m, t) = D2HTryStart(H2DTryStart(m2, FALSE))
    BY Zenon DEF OnTaskDone, m1, m2
<1> QED
    BY Zenon, <1>2, <1>3, H2DTryStartType, D2HTryStartType

\* An eviction (_evict_for_pressure) leaves memory well typed.
LEMMA EvictType ==
    ASSUME prog \in Programs, NEW m \in MemType, NEW o \in Objects
    PROVE  Evict(m, o) \in MemType
<1> DEFINE d == DropFast(m, {o})
           q == Append(d.h2dq, o)
<1>1. d \in MemType
    BY Zenon, DropFastType
<1> HIDE DEF d
<1>2. q \in Seq(Objects)
    BY <1>1 DEF MemType
<1> HIDE DEF q
<1>3. [d EXCEPT !.h2dq = q] \in MemType
    BY Zenon, <1>1, <1>2 DEF MemType
<1> QED
    BY Zenon, <1>3 DEF Evict, d, q

\* The memory a run starts from is well typed.
LEMMA EmptyMemType == EmptyMem \in MemType
    BY DEF EmptyMem, MemType, NoSlot, Slot, SlotStates, Errors, Locations

\* Loading or reserving slots (_load_initial, run_dispatch) leaves memory well typed.
LEMMA OccupyType ==
    ASSUME prog \in Programs, NEW m \in MemType, NEW st \in SlotStates,
           NEW F \in SUBSET Objects, NEW B \in SUBSET Objects
    PROVE  Occupy(m, F, B, st) \in MemType
<1> DEFINE u == [fast |-> m.used["fast"] + Bytes(F), backing |-> m.used["backing"] + Bytes(B)]
           h == m.held \cup {<<o, m.inc[o], o \in escaped>> : o \in F}
           i == [o \in Objects |-> IF o \in F THEN m.inc[o] + 1 ELSE m.inc[o]]
           f == [o \in Objects |->
                   IF o \in F THEN [st |-> st, ver |-> m.ver[o], inc |-> m.inc[o]] ELSE m.fast[o]]
           b == [o \in Objects |->
                   IF o \in B THEN [NoSlot EXCEPT !.st = st, !.ver = m.ver[o]] ELSE m.backing[o]]
<1>1. Bytes(F) \in Nat /\ Bytes(B) \in Nat
    BY Zenon, BytesFacts
<1>2. /\ m.used \in [Locations -> Nat] /\ m.inc \in [Objects -> Nat] /\ m.ver \in [Objects -> Nat]
      /\ m.fast \in [Objects -> Slot] /\ m.backing \in [Objects -> Slot]
      /\ m.held \in SUBSET (Objects \X Nat \X BOOLEAN)
    BY Zenon DEF MemType
<1>3. u \in [Locations -> Nat]
  <2>1. m.used["fast"] + Bytes(F) \in Nat /\ m.used["backing"] + Bytes(B) \in Nat
      BY <1>1, <1>2 DEF Locations
  <2> QED
      BY <2>1 DEF Locations
<1>4. h \in SUBSET (Objects \X Nat \X BOOLEAN)
  <2>1. \A o \in F, v \in BOOLEAN : <<o, m.inc[o], v>> \in Objects \X Nat \X BOOLEAN
      BY Zenon, <1>2
  <2>2. \A o : (o \in escaped) \in BOOLEAN
      OBVIOUS
  <2>3. \A o \in F : <<o, m.inc[o], o \in escaped>> \in Objects \X Nat \X BOOLEAN
      BY <2>1, <2>2, Zenon
  <2> QED
      BY Zenon, <1>2, <2>3
<1>5. i \in [Objects -> Nat]
    BY <1>2
<1>6. f \in [Objects -> Slot]
    BY Zenon, <1>2 DEF Slot
<1>7. b \in [Objects -> Slot]
  <2>1. \A k \in Nat : [NoSlot EXCEPT !.st = st, !.ver = k] \in Slot
      BY Zenon DEF NoSlot, Slot
  <2> QED
      BY Zenon, <1>2, <2>1
<1>8. Occupy(m, F, B, st) = [m EXCEPT !.used = u, !.held = h, !.inc = i, !.fast = f, !.backing = b]
    BY Zenon DEF Occupy
<1> HIDE DEF u, h, i, f, b
<1> DEFINE j == [m EXCEPT !.used = u, !.held = h]
           k == [j EXCEPT !.inc = i, !.fast = f]
<1>9. j \in MemType
    BY Zenon, <1>3, <1>4 DEF MemType
<1>10. Occupy(m, F, B, st) = [k EXCEPT !.backing = b]
    BY Zenon, <1>8 DEF MemType
<1> HIDE DEF j
<1>11. k \in MemType
    BY Zenon, <1>5, <1>6, <1>9 DEF MemType
<1> HIDE DEF k
<1> QED
    BY Zenon, <1>7, <1>10, <1>11 DEF MemType

\* A task's reservations (run_dispatch) leaves memory well typed.
LEMMA ReserveOutputsType ==
    ASSUME prog \in Programs, NEW m \in MemType, NEW t \in 1 .. prog.n
    PROVE  ReserveOutputs(m, t) \in MemType
<1>1. prog.out[t]["fast"] \in SUBSET Objects /\ prog.out[t]["backing"] \in SUBSET Objects
    BY ProgramTypes DEF Locations
<1>2. Occupy(m, prog.out[t]["fast"], prog.out[t]["backing"], "reserved") \in MemType
    BY Zenon, <1>1, OccupyType DEF SlotStates
<1>3. Raise(m, "backing_full") \in MemType /\ Raise(m, "collision") \in MemType
    BY Zenon, RaiseType DEF Errors
<1> QED
    BY Zenon, <1>2, <1>3 DEF ReserveOutputs

\* The end of a run (RunScope.reclaim) leaves memory well typed.
LEMMA ReclaimType ==
    ASSUME NEW m \in MemType
    PROVE  Reclaim(m) \in MemType
<1> DEFINE h == {k \in m.held : m.fast[k[1]].st = "none" \/ m.fast[k[1]].inc # k[2]}
<1>1. h \in SUBSET (Objects \X Nat \X BOOLEAN)
    BY Zenon DEF MemType
<1>2. Reclaim(m) = [m EXCEPT !.held = h]
    BY Zenon DEF Reclaim
<1> HIDE DEF h
<1> QED
    BY Zenon, <1>1, <1>2 DEF MemType

-----------------------------------------------------------------------------
(***************************************************************************)
(* The type invariant is inductive.                                        *)
(***************************************************************************)
\* A step that installs a well-typed memory and keeps the task in hand.
LEMMA InstallType ==
    ASSUME TypeInv, NEW m \in MemType, Install(m), UNCHANGED <<prog, cursor, cancel>>,
           outstanding' \in 0 .. prog.n, blocked' \in BOOLEAN, escaped' \in SUBSET Objects,
           evictions' \in Nat
    PROVE  TypeInv'
<1>1. mem' \in MemType /\ pc' \in {pc, "failing"}
    BY Zenon DEF Install
<1>2. prog' \in Programs /\ cursor' \in 1 .. prog'.n + 1 /\ outstanding' \in 0 .. prog'.n
    BY Zenon DEF TypeInv, TypeOK
<1>3. cancel' \in BOOLEAN
    BY Zenon DEF TypeInv, TypeOK
<1>4. pc' \in {"setup", "boundary", "pacing", "inputs", "reserve", "drain", "failing", "end"}
    BY Zenon, <1>1 DEF TypeInv, TypeOK
<1>5. pc' \in {"pacing", "inputs", "reserve"} => cursor' <= prog'.n
    BY Zenon, <1>1 DEF TypeInv
<1> QED
    BY Zenon, <1>1, <1>2, <1>3, <1>4, <1>5 DEF TypeInv, TypeOK

\* TypeInv holds before a run is set up.
LEMMA TypeInit == Init => TypeInv
<1> SUFFICES ASSUME Init PROVE TypeInv
    BY Zenon
<1>1. prog.n \in Nat \ {0}
    BY Zenon, ProgramTypes DEF Init
<1>2. cursor \in 1 .. prog.n + 1 /\ outstanding \in 0 .. prog.n /\ evictions \in Nat
    BY <1>1 DEF Init
<1>3. blocked \in BOOLEAN /\ cancel \in BOOLEAN /\ escaped \in SUBSET Objects
    BY Zenon DEF Init
<1>4. mem \in MemType
    BY Zenon, EmptyMemType DEF Init
<1>5. pc = "setup"
    BY Zenon DEF Init
<1> QED
    BY Zenon, <1>2, <1>3, <1>4, <1>5 DEF Init, TypeInv, TypeOK

\* No step of the dispatcher breaks TypeInv.
LEMMA TypeNext == TypeInv /\ [Next]_vars => TypeInv'
<1> SUFFICES ASSUME TypeInv, [Next]_vars PROVE TypeInv'
    BY Zenon
<1> USE DEF TypeInv
<1>1. prog.n \in Nat \ {0} /\ mem \in MemType
    BY Zenon, ProgramTypes DEF TypeOK
<1>2. CASE LoadInitial
  <2>1. prog.init["fast"] \in SUBSET Objects /\ prog.init["backing"] \in SUBSET Objects
      BY Zenon, ProgramTypes DEF Locations
  <2>2. mem' \in MemType
      BY Zenon, <1>1, <1>2, <2>1, OccupyType DEF LoadInitial, SlotStates
  <2> QED
      BY Zenon, <1>1, <1>2, <2>2 DEF LoadInitial, TypeOK
<1>3. CASE LoadInitialRaises
  <2>1. PICK F \in SUBSET prog.init["fast"], B \in SUBSET prog.init["backing"] :
            mem' = Raise(Occupy(mem, F, B, "live"), "setup")
      BY Zenon, <1>3 DEF LoadInitialRaises
  <2>2. F \in SUBSET Objects /\ B \in SUBSET Objects
      BY Zenon, ProgramTypes DEF Locations
  <2>3. mem' \in MemType
      BY Zenon, <1>1, <2>1, <2>2, OccupyType, RaiseType DEF SlotStates, Errors
  <2> QED
      BY Zenon, <1>1, <1>3, <2>3 DEF LoadInitialRaises, TypeOK
<1>4. CASE BeginTask
  <2>1. CASE cancel
    <3>1. Raise(mem, "cancelled") \in MemType
        BY Zenon, <1>1, RaiseType DEF Errors
    <3>2. Raise(mem, "cancelled").err = "cancelled"
        BY Zenon, <1>1 DEF MemType, Raise
    <3> QED
        BY Zenon, <1>1, <1>4, <2>1, <3>1, <3>2 DEF BeginTask, Install, TypeOK
  <2>2. CASE ~ cancel
      BY Zenon, <1>1, <1>4, <2>2 DEF BeginTask, TypeOK
  <2> QED
      BY Zenon, <2>1, <2>2
<1>5. CASE Paced
    BY Zenon, <1>1, <1>5 DEF Paced, TypeOK
<1>6. CASE InputsObserved
    BY Zenon, <1>1, <1>6 DEF InputsObserved, TypeOK
<1>7. CASE Launch
  <2> DEFINE m1 == ReserveOutputs(mem, cursor)
             m2 == IF blocked THEN H2DTryStart(m1, FALSE) ELSE m1
  <2>1. cursor \in 1 .. prog.n
      BY <1>1, <1>7 DEF Launch, TypeOK
  <2>2. m2 \in MemType
      BY Zenon, <1>1, <2>1, ReserveOutputsType, H2DTryStartType
  <2> HIDE DEF m2
  <2>3. CASE /\ mem' = m2
             /\ pc' = IF m2.err = "none" THEN "boundary" ELSE "failing"
             /\ outstanding' = IF m2.err = "none" THEN cursor ELSE outstanding
             /\ cursor' = IF m2.err = "none" THEN cursor + 1 ELSE cursor
    <3>1. cursor' \in 1 .. prog.n + 1 /\ outstanding' \in 0 .. prog.n
        BY SMTT(30), <1>1, <2>1, <2>3 DEF TypeOK
    <3> QED
        BY Zenon, <1>7, <2>2, <2>3, <3>1 DEF Launch, TypeOK
  <2>4. CASE Install(Raise(m2, "task")) /\ UNCHANGED <<outstanding, cursor>>
    <3>1. Raise(m2, "task") \in MemType
        BY Zenon, <2>2, RaiseType DEF Errors
    <3> QED
        BY Zenon, <1>7, <2>4, <3>1, InstallType DEF Launch, TypeOK
  <2> QED
      BY Zenon, <1>7, <2>3, <2>4 DEF Launch, m2
<1>8. CASE TakeTaskDone
  <2>1. outstanding \in 1 .. prog.n
      BY <1>1, <1>8 DEF TakeTaskDone, TypeOK
  <2>2. OnTaskDone(mem, outstanding) \in MemType
      BY Zenon, <1>1, <2>1, OnTaskDoneType
  <2>3. outstanding' \in 0 .. prog.n
      BY <1>1, <1>8 DEF TakeTaskDone
  <2> QED
      BY Zenon, <1>8, <2>2, <2>3, InstallType DEF TakeTaskDone, TypeOK
<1>9. CASE TakeH2DDone
  <2>1. OnH2DDone(mem) \in MemType
      BY Zenon, <1>1, <1>9, OnTransferDoneType DEF TakeH2DDone
  <2> QED
      BY Zenon, <1>9, <2>1, InstallType DEF TakeH2DDone, TypeOK
<1>10. CASE TakeD2HDone
  <2>1. OnD2HDone(mem) \in MemType
      BY Zenon, <1>1, <1>10, OnTransferDoneType DEF TakeD2HDone
  <2> QED
      BY Zenon, <1>10, <2>1, InstallType DEF TakeD2HDone, TypeOK
<1>11. CASE EscapeOutputs
  <2>1. Busy \in SUBSET Objects
    <3>1. cursor \in 1 .. prog.n
        BY <1>1, <1>11 DEF EscapeOutputs, TypeOK
    <3>2. prog.out[cursor]["fast"] \in SUBSET Objects
        BY Zenon, <3>1, TaskTypes
    <3> QED
        BY Zenon, <3>2 DEF Busy
  <2> QED
      BY Zenon, <1>1, <1>11, <2>1 DEF EscapeOutputs, TypeOK
<1>12. CASE PumpH2D
  <2>1. Pumped \in MemType
      BY Zenon, <1>1, H2DTryStartType DEF Pumped
  <2> QED
      BY Zenon, <1>12, <2>1, InstallType DEF PumpH2D, TypeOK
<1>13. CASE EscapeHead
  <2>1. EscapeBlockedHead(mem) \in MemType
      BY Zenon, <1>1, EscapeBlockedHeadType
  <2>2. blocked' \in BOOLEAN
      BY Zenon, <1>13 DEF EscapeHead
  <2> QED
      BY Zenon, <1>13, <2>1, <2>2, InstallType DEF EscapeHead, TypeOK
<1>14. CASE EvictForPressure
  <2>1. PICK o \in Objects : Install(Evict(mem, o))
      BY Zenon, <1>14 DEF EvictForPressure, Victims
  <2>2. Evict(mem, o) \in MemType
      BY Zenon, <1>1, EvictType
  <2>3. blocked' \in BOOLEAN
      BY Zenon, <1>14 DEF EvictForPressure
  <2>4. evictions' \in Nat
      BY SMTT(30), <1>14 DEF EvictForPressure, TypeOK
  <2> QED
      BY Zenon, <1>14, <2>1, <2>2, <2>3, <2>4, InstallType DEF EvictForPressure, TypeOK
<1>15. CASE DeclareDeadlock
  <2>1. Raise(mem, "deadlock") \in MemType
      BY Zenon, <1>1, RaiseType DEF Errors
  <2> QED
      BY Zenon, <1>15, <2>1, InstallType DEF DeclareDeadlock, TypeOK
<1>16. CASE BeginDrain
    BY Zenon, <1>1, <1>16 DEF BeginDrain, TypeOK
<1>17. CASE Finish
  <2>1. Raise(mem, "stuck") \in MemType /\ Raise(mem, "final") \in MemType
      BY Zenon, <1>1, RaiseType DEF Errors
  <2>2. CASE \E e \in {"stuck", "final"} : Install(Raise(mem, e))
      BY Zenon, <1>17, <2>1, <2>2, InstallType DEF Finish, TypeOK
  <2>3. CASE mem' = Reclaim(mem) /\ pc' = "end"
    <3>1. Reclaim(mem) \in MemType
        BY Zenon, <1>1, ReclaimType
    <3> QED
        BY Zenon, <1>17, <2>3, <3>1 DEF Finish, TypeOK
  <2> QED
      BY Zenon, <1>17, <2>2, <2>3 DEF Finish
<1>18. CASE FinishFailed
  <2>1. Reclaim(mem) \in MemType
      BY Zenon, <1>1, ReclaimType
  <2>2. mem' \in MemType
    <3> DEFINE r == Reclaim(mem)
    <3>1. mem' = [r EXCEPT !.h2din = Nil, !.d2hin = Nil]
        BY Zenon, <1>18 DEF FinishFailed
    <3> HIDE DEF r
    <3> QED
        BY Zenon, <2>1, <3>1 DEF MemType, r
  <2>3. outstanding' \in 0 .. prog.n
      BY <1>1, <1>18 DEF FinishFailed
  <2> QED
      BY Zenon, <1>18, <2>2, <2>3 DEF FinishFailed, TypeOK
<1>19. CASE RequestCancel
    BY Zenon, <1>1, <1>19 DEF RequestCancel, TypeOK
<1>20. CASE UNCHANGED vars
    BY Zenon, <1>1, <1>20 DEF vars, TypeOK
<1> QED
    BY SMTT(30), <1>2, <1>3, <1>4, <1>5, <1>6, <1>7, <1>8, <1>9, <1>10, <1>11, <1>12, <1>13, <1>14,
       <1>15, <1>16, <1>17, <1>18, <1>19, <1>20 DEF Next, Dispatch

\* In every reachable state of every valid program the dispatcher's locals, the
\* object table, the ledger and the lanes have the types the code gives them;
\* in particular the ledger never goes negative and the cursor never leaves the
\* chain (run_dispatch and the handlers it calls).
THEOREM TypeCorrect == Spec => []TypeOK
<1>1. TypeInv => TypeOK
    BY Zenon DEF TypeInv
<1> QED
    BY <1>1, TypeInit, TypeNext, PTL DEF Spec

-----------------------------------------------------------------------------
(***************************************************************************)
(* Memory safety of assigned offsets: OffsetsDisjoint is an invariant, for *)
(* every set of programs whose placements keep the instances a task brings *)
(* into being together apart.                                              *)
(*                                                                         *)
(* The pool refuses an instance only while one that overlaps it is held,   *)
(* and a task's outputs are checked against what is held before any of     *)
(* them is drawn, not against each other.  That they are apart follows     *)
(* from the packing only for first incarnations, so the invariant has to   *)
(* carry that an object no task has produced yet was never drawn: it has   *)
(* incarnation 1, no slot, and no transfer queued or deferred.             *)
(***************************************************************************)
Fresh(m, o) ==
    /\ m.inc[o] = 1 /\ m.fast[o].st = "none" /\ m.deferred[o] = 0
    /\ o \notin Range(m.h2dq)

Disjoint(m) ==
    \A h, k \in m.held :
        h # k /\ ~ h[3] /\ ~ k[3] => <<<<h[1], h[2]>>, <<k[1], k[2]>>>> \notin prog.clash

\* m is well typed, holds no overlapping instances, and knows only objects of C.
Sound(m, C) ==
    /\ m \in MemType
    /\ Disjoint(m)
    /\ \A o \in Objects \ C : Fresh(m, o)

\* The inductive invariant.
OffsetsInv ==
    /\ TypeInv
    /\ Disjoint(mem)
    /\ outstanding < cursor
    /\ pc = "setup" => mem = EmptyMem
    /\ pc \notin {"failing", "end"} => Sound(mem, CreatedBefore(prog, cursor))

-----------------------------------------------------------------------------
(***************************************************************************)
(* The operators keep memory sound.                                        *)
(***************************************************************************)
\* A step that draws nothing and touches only objects of C.
LEMMA FrameSound ==
    ASSUME NEW C, NEW m, NEW m2 \in MemType, Sound(m, C), m2.held \subseteq m.held,
           \A o \in Objects \ C :
              /\ m2.inc[o] = m.inc[o] /\ m2.fast[o].st = m.fast[o].st
              /\ m2.deferred[o] = m.deferred[o]
              /\ o \in Range(m2.h2dq) => o \in Range(m.h2dq)
    PROVE  Sound(m2, C)
<1>1. Disjoint(m2)
    BY Zenon DEF Sound, Disjoint
<1>2. \A o \in Objects \ C : Fresh(m2, o)
    BY Zenon DEF Sound, Fresh
<1> QED
    BY Zenon, <1>1, <1>2 DEF Sound

\* An error recorded (raise) keeps assigned ranges apart.
LEMMA RaiseSound ==
    ASSUME NEW C, NEW m, Sound(m, C), NEW e \in Errors
    PROVE  Sound(Raise(m, e), C)
<1>1. m \in MemType
    BY Zenon DEF Sound
<1>2. Raise(m, e) \in MemType
    BY Zenon, <1>1, RaiseType
<1>3. /\ Raise(m, e).held = m.held /\ Raise(m, e).inc = m.inc /\ Raise(m, e).fast = m.fast
      /\ Raise(m, e).deferred = m.deferred /\ Raise(m, e).h2dq = m.h2dq
    BY Zenon, <1>1 DEF Raise, MemType
<1> QED
    BY Zenon, <1>2, <1>3, FrameSound

\* The ledger operations change nothing but `used' and `err'.
LEMMA LedgerFrame ==
    ASSUME NEW m \in MemType, NEW l \in Locations, NEW k \in Nat,
           NEW m2 \in {Charge(m, l, k), Release(m, l, k)}
    PROVE  /\ m2.held = m.held /\ m2.inc = m.inc /\ m2.fast = m.fast
           /\ m2.backing = m.backing /\ m2.deferred = m.deferred
           /\ m2.h2dq = m.h2dq /\ m2.d2hq = m.d2hq
    BY Zenon DEF Charge, Release, Raise, MemType

\* An instance that is dynamic, or admitted by can_get, overlaps none that is held.
LEMMA GetDisjoint ==
    ASSUME prog \in Programs, NEW m \in MemType, Disjoint(m), NEW o \in Objects,
           NEW d \in BOOLEAN, d \/ CanGet(m, o)
    PROVE  Disjoint(Get(m, o, d))
<1> DEFINE new == <<o, m.inc[o], d>>
<1>1. Get(m, o, d).held = m.held \cup {new}
    BY Zenon DEF Get, MemType
<1>2. \A e \in prog.clash : <<e[2], e[1]>> \in prog.clash
    BY Zenon, PlansAssumption DEF Coherent
<1>3. \A h \in m.held : ~ d /\ ~ h[3] =>
          /\ <<<<o, m.inc[o]>>, <<h[1], h[2]>>>> \notin prog.clash
          /\ <<<<h[1], h[2]>>, <<o, m.inc[o]>>>> \notin prog.clash
    BY Zenon, <1>2 DEF CanGet
<1>4. new[1] = o /\ new[2] = m.inc[o]
    BY Zenon
<1>5. ~ new[3] => ~ d
    BY Zenon
<1> HIDE DEF new
<1> SUFFICES ASSUME NEW h \in m.held \cup {new}, NEW k \in m.held \cup {new},
                    h # k, ~ h[3], ~ k[3]
             PROVE  <<<<h[1], h[2]>>, <<k[1], k[2]>>>> \notin prog.clash
    BY Zenon, <1>1 DEF Disjoint
<1>6. CASE h \in m.held /\ k \in m.held
    BY Zenon, <1>6 DEF Disjoint
<1>7. CASE h \in m.held /\ k = new
    BY Zenon, <1>3, <1>4, <1>5, <1>7
<1>8. CASE h = new /\ k \in m.held
    BY Zenon, <1>3, <1>4, <1>5, <1>8
<1> QED
    BY Zenon, <1>6, <1>7, <1>8

\* A fetch that starts (try_start, h2d) keeps assigned ranges apart.
LEMMA StartH2DSound ==
    ASSUME prog \in Programs, NEW C, NEW m, Sound(m, C), NEW o \in Objects \cap C,
           NEW d \in BOOLEAN, d \/ CanGet(m, o), m.h2dq # <<>>
    PROVE  Sound(StartH2D(m, o, d), C)
<1> DEFINE c  == Charge(m, "fast", prog.size[o])
           g  == Get(c, o, d)
           m2 == StartH2D(m, o, d)
<1>1. m \in MemType /\ prog.size[o] \in Nat
    BY Zenon, ProgramTypes DEF Sound
<1>2. c \in MemType
    BY Zenon, <1>1, ChargeType DEF Locations
<1>3. /\ c.held = m.held /\ c.inc = m.inc /\ c.fast = m.fast
      /\ c.deferred = m.deferred /\ c.h2dq = m.h2dq
    BY Zenon, <1>1, LedgerFrame DEF Locations
<1> HIDE DEF c
<1>4. Disjoint(g)
  <2>1. Disjoint(c)
      BY Zenon, <1>3 DEF Sound, Disjoint
  <2>2. d \/ CanGet(c, o)
      BY Zenon, <1>3 DEF CanGet
  <2> QED
      BY Zenon, <1>2, <2>1, <2>2, GetDisjoint
<1>5. g \in MemType
    BY Zenon, <1>2, GetType
<1>6. /\ g.fast = c.fast /\ g.deferred = c.deferred /\ g.h2dq = c.h2dq
      /\ \A q \in Objects \ C : g.inc[q] = c.inc[q]
    BY Zenon, <1>2 DEF Get, MemType
<1> HIDE DEF g
<1>7. m2 \in MemType
    BY Zenon, <1>1, StartH2DType
<1>8. /\ m2.held = g.held /\ m2.inc = g.inc /\ m2.deferred = g.deferred
      /\ m2.h2dq = Tail(g.h2dq)
      /\ \A q \in Objects \ C : m2.fast[q] = g.fast[q]
    BY Zenon, <1>5 DEF StartH2D, MemType, g, c
<1>9. Disjoint(m2)
    BY Zenon, <1>4, <1>8 DEF Disjoint
<1>10. \A q : q \in Range(m2.h2dq) => q \in Range(m.h2dq)
    BY SMTT(30), <1>1, <1>3, <1>6, <1>8 DEF MemType, Range
<1>11. \A q \in Objects \ C : Fresh(m2, q)
    BY SMTT(30), <1>3, <1>6, <1>8, <1>10 DEF Sound, Fresh
<1> QED
    BY Zenon, <1>7, <1>9, <1>11 DEF Sound

\* A poke of the inbound lane (try_start, h2d) keeps assigned ranges apart.
LEMMA H2DTryStartSound ==
    ASSUME prog \in Programs, NEW C, NEW m, Sound(m, C), NEW esc \in BOOLEAN
    PROVE  Sound(H2DTryStart(m, esc), C)
<1> DEFINE o == Head(m.h2dq)
<1>1. ASSUME m.h2dq # <<>> PROVE Sound(StartH2D(m, o, ~ CanGet(m, o)), C)
  <2>1. m.h2dq \in Seq(Objects)
      BY Zenon DEF Sound, MemType
  <2>2. o \in Objects /\ o \in Range(m.h2dq)
      BY <1>1, <2>1 DEF Range
  <2>3. o \in C
      BY Zenon, <2>2 DEF Sound, Fresh
  <2>4. (~ CanGet(m, o)) \in BOOLEAN /\ (~ CanGet(m, o) \/ CanGet(m, o))
      BY Zenon DEF CanGet
  <2> QED
      BY Zenon, <1>1, <2>2, <2>3, <2>4, StartH2DSound
<1>2. Sound(Raise(m, "transfer"), C)
    BY Zenon, RaiseSound DEF Errors
<1> QED
    BY Zenon, <1>1, <1>2 DEF H2DTryStart

\* The escape of a blocked fetch (escape_blocked_head) keeps assigned ranges apart.
LEMMA EscapeBlockedHeadSound ==
    ASSUME prog \in Programs, NEW C, NEW m, Sound(m, C)
    PROVE  Sound(EscapeBlockedHead(m), C)
    BY Zenon, H2DTryStartSound DEF EscapeBlockedHead

\* A poke of the outbound lane (try_start, d2h) keeps assigned ranges apart.
LEMMA D2HTryStartSound ==
    ASSUME prog \in Programs, NEW C, NEW m, Sound(m, C)
    PROVE  Sound(D2HTryStart(m), C)
<1> DEFINE o    == Head(m.d2hq)
           need == IF m.backing[o].st = "none" THEN prog.size[o] ELSE 0
           c    == Charge(m, "backing", need)
           m2   == StartD2H(m, o)
<1>1. m \in MemType
    BY Zenon DEF Sound
<1>2. ASSUME m.d2hq # <<>>, m.fast[o].st # "none" PROVE Sound(m2, C)
  <2>1. o \in Objects
      BY <1>1, <1>2 DEF MemType
  <2>2. o \in C
      BY Zenon, <1>2, <2>1 DEF Sound, Fresh
  <2>3. need \in Nat
      BY Zenon, <2>1, ProgramTypes
  <2>4. c \in MemType
      BY ZenonT(40), <1>1, <2>3, ChargeType DEF Locations
  <2>5. /\ c.held = m.held /\ c.inc = m.inc /\ c.fast = m.fast
        /\ c.deferred = m.deferred /\ c.h2dq = m.h2dq
      BY Zenon, <1>1, <2>3, LedgerFrame DEF Locations
  <2> HIDE DEF c
  <2>6. m2 \in MemType
      BY Zenon, <1>1, <1>2, <2>1, StartD2HType
  <2>7. /\ m2.held = c.held /\ m2.inc = c.inc /\ m2.deferred = c.deferred
        /\ m2.h2dq = c.h2dq /\ \A q \in Objects \ C : m2.fast[q] = c.fast[q]
      BY Zenon, <2>2, <2>4 DEF StartD2H, MemType, c
  <2> HIDE DEF m2
  <2> QED
      BY Zenon, <2>5, <2>6, <2>7, FrameSound
<1>3. Sound(Raise(m, "transfer"), C)
    BY Zenon, RaiseSound DEF Errors
<1> QED
    BY Zenon, <1>2, <1>3 DEF D2HTryStart

\* Dropping the fast slots of objects that have one.
LEMMA DropFastSound ==
    ASSUME prog \in Programs, NEW C, NEW m, Sound(m, C), NEW R \in SUBSET Objects,
           \A o \in R : m.fast[o].st # "none"
    PROVE  /\ Sound(DropFast(m, R), C)
           /\ DropFast(m, R).h2dq = m.h2dq
<1> DEFINE d  == Release(m, "fast", Bytes(R))
           m2 == DropFast(m, R)
<1>1. m \in MemType /\ Bytes(R) \in Nat
    BY Zenon, BytesFacts DEF Sound
<1>2. d \in MemType
    BY Zenon, <1>1, ChargeType DEF Locations
<1>3. /\ d.held = m.held /\ d.inc = m.inc /\ d.fast = m.fast
      /\ d.deferred = m.deferred /\ d.h2dq = m.h2dq
    BY Zenon, <1>1, LedgerFrame DEF Locations
<1> HIDE DEF d
<1>4. R \subseteq C
    BY Zenon DEF Sound, Fresh
<1>5. m2 \in MemType
    BY Zenon, <1>1, DropFastType
<1>6. /\ m2.held \subseteq d.held /\ m2.inc = d.inc /\ m2.deferred = d.deferred
      /\ m2.h2dq = d.h2dq /\ \A q \in Objects \ C : m2.fast[q] = d.fast[q]
    BY Zenon, <1>2, <1>4 DEF DropFast, MemType, d
<1> HIDE DEF m2
<1>7. Sound(m2, C)
    BY SMTT(30), <1>3, <1>5, <1>6, FrameSound
<1> QED
    BY Zenon, <1>3, <1>6, <1>7 DEF m2

\* A transfer that completes (TransferEngine.complete) keeps assigned ranges apart.
LEMMA CompleteSound ==
    ASSUME prog \in Programs, NEW C, NEW m, Sound(m, C)
    PROVE  /\ m.h2din # Nil => Sound(CompleteH2D(m), C)
           /\ m.d2hin # Nil => Sound(CompleteD2H(m), C)
<1>1. m \in MemType
    BY Zenon DEF Sound
<1>2. Sound(Raise(m, "assert"), C)
    BY Zenon, RaiseSound DEF Errors
<1>3. ASSUME m.h2din # Nil PROVE Sound(CompleteH2D(m), C)
  <2> DEFINE o == m.h2din
             m2 == CompleteH2D(m)
  <2>1. o \in Objects /\ m2 \in MemType
      BY ZenonT(40), <1>1, <1>3, CompleteType DEF MemType
  <2>2. CASE m.fast[o].st = "none"
      BY Zenon, <1>2, <2>2 DEF CompleteH2D
  <2>3. CASE m.fast[o].st # "none"
    <3>1. o \in C
        BY Zenon, <2>1, <2>3 DEF Sound, Fresh
    <3>2. /\ m2.held = m.held /\ m2.inc = m.inc /\ m2.deferred = m.deferred
          /\ m2.h2dq = m.h2dq /\ \A q \in Objects \ C : m2.fast[q] = m.fast[q]
        BY Zenon, <1>1, <2>3, <3>1 DEF CompleteH2D, MemType
    <3> HIDE DEF m2
    <3>3. Sound(m2, C)
        BY Zenon, <2>1, <3>2, FrameSound
    <3> QED
        BY Zenon, <3>3 DEF m2
  <2> QED
      BY Zenon, <2>2, <2>3
<1>4. ASSUME m.d2hin # Nil PROVE Sound(CompleteD2H(m), C)
  <2> DEFINE o == m.d2hin
             d == DropFast(m, {o})
             m2 == CompleteD2H(m)
  <2>1. o \in Objects /\ m2 \in MemType
      BY Zenon, <1>1, <1>4, CompleteType DEF MemType
  <2>2. CASE m.fast[o].st # "outbound" \/ m.backing[o].st = "none"
      BY Zenon, <1>2, <2>2 DEF CompleteD2H
  <2>3. CASE ~ (m.fast[o].st # "outbound" \/ m.backing[o].st = "none")
    <3>1. Sound(d, C)
        BY Zenon, <2>1, <2>3, DropFastSound
    <3>2. m2 = [d EXCEPT !.backing[o].st = "live", !.d2hin = Nil]
        BY Zenon, <2>3 DEF CompleteD2H
    <3>3. d \in MemType
        BY Zenon, <3>1 DEF Sound
    <3> HIDE DEF d
    <3>4. /\ m2.held = d.held /\ m2.inc = d.inc /\ m2.deferred = d.deferred
          /\ m2.h2dq = d.h2dq /\ m2.fast = d.fast
        BY Zenon, <3>2, <3>3 DEF MemType
    <3> HIDE DEF m2
    <3>5. Sound(m2, C)
        BY Zenon, <2>1, <3>1, <3>4, FrameSound
    <3> QED
        BY Zenon, <3>5 DEF m2
  <2> QED
      BY Zenon, <2>2, <2>3
<1> QED
    BY Zenon, <1>3, <1>4

\* A deferred prefetch that is queued (_on_transfer_done) keeps assigned ranges apart.
LEMMA ActivateDeferredSound ==
    ASSUME NEW C, NEW m, Sound(m, C), NEW o \in Objects
    PROVE  Sound(ActivateDeferred(m, o), C)
<1> DEFINE a  == [i \in 1 .. m.deferred[o] |-> o]
           m2 == ActivateDeferred(m, o)
<1>1. m \in MemType /\ m2 \in MemType
    BY Zenon, ActivateDeferredType DEF Sound
<1>2. CASE m.err # "none"
    BY Zenon, <1>2 DEF ActivateDeferred
<1>3. CASE m.err = "none"
  <2>1. m.deferred[o] \in Nat /\ m.h2dq \in Seq(Objects)
      BY Zenon, <1>1 DEF MemType
  <2>2. /\ m2.held = m.held /\ m2.inc = m.inc /\ m2.fast = m.fast
        /\ m2.h2dq = m.h2dq \o a
        /\ \A q \in Objects : q # o => m2.deferred[q] = m.deferred[q]
        /\ m2.deferred[o] = 0
      BY Zenon, <1>1, <1>3 DEF ActivateDeferred, MemType
  <2>3. \A q \in Range(m2.h2dq) : q \in Range(m.h2dq) \/ (q = o /\ m.deferred[o] # 0)
    <3>1. a \in Seq(Objects) /\ Len(a) = m.deferred[o]
        BY <2>1
    <3>2. \A i \in 1 .. Len(a) : a[i] = o
        BY Zenon, <2>1, <3>1
    <3> HIDE DEF a
    <3>3. \A i \in 1 .. Len(m.h2dq \o a) : \/ i \in 1 .. Len(m.h2dq) /\ (m.h2dq \o a)[i] = m.h2dq[i]
                                           \/ (m.h2dq \o a)[i] = o /\ m.deferred[o] # 0
        BY SMTT(30), <2>1, <3>1, <3>2
    <3> QED
        BY <2>1, <2>2, <3>1, <3>3 DEF Range
  <2> HIDE DEF m2
  <2>4. \A q \in Objects \ C : m.deferred[q] = 0 /\ q \notin Range(m.h2dq)
      BY Zenon DEF Sound, Fresh
  <2>5. \A q \in Objects \ C : m2.deferred[q] = m.deferred[q] /\ q \notin Range(m2.h2dq)
      BY Zenon, <2>2, <2>3, <2>4
  <2>6. Sound(m2, C)
      BY Zenon, <1>1, <2>2, <2>5, FrameSound
  <2> QED
      BY Zenon, <2>6 DEF m2
<1> QED
    BY Zenon, <1>2, <1>3

\* The handler of a finished transfer (_on_transfer_done) keeps assigned ranges apart.
LEMMA OnTransferDoneSound ==
    ASSUME prog \in Programs, NEW C, NEW m, Sound(m, C)
    PROVE  /\ m.h2din # Nil => Sound(OnH2DDone(m), C)
           /\ m.d2hin # Nil => Sound(OnD2HDone(m), C)
<1>1. ASSUME m.h2din # Nil PROVE Sound(OnH2DDone(m), C)
    BY Zenon, <1>1, CompleteSound, H2DTryStartSound DEF OnH2DDone
<1>2. ASSUME m.d2hin # Nil PROVE Sound(OnD2HDone(m), C)
  <2>1. m.d2hin \in Objects
      BY Zenon, <1>2 DEF Sound, MemType
  <2> QED
      BY Zenon, <1>2, <2>1, CompleteSound, ActivateDeferredSound, D2HTryStartSound, H2DTryStartSound
      DEF OnD2HDone
<1> QED
    BY Zenon, <1>1, <1>2

\* What a task creates and names in its directives exists once it is dispatched.
LEMMA KnownTask ==
    ASSUME TypeInv, NEW t \in 1 .. prog.n, t < cursor
    PROVE  /\ prog.out[t]["fast"] \subseteq CreatedBefore(prog, cursor)
           /\ Range(prog.prefetches[t]) \subseteq CreatedBefore(prog, cursor)
<1>1. prog.n \in Nat /\ cursor \in Nat
    BY SMTT(30), ProgramTypes DEF TypeInv, TypeOK
<1>2. Range(prog.prefetches[t]) \subseteq CreatedBefore(prog, t + 1)
  <2>1. ValidProgram(prog)
      BY Zenon, ProgramsAssumption DEF TypeInv
  <2>2. t \in Tasks(prog)
      BY Zenon DEF Tasks
  <2> QED
      BY Zenon, <2>1, <2>2 DEF ValidProgram
<1>3. 1 .. t + 1 - 1 \subseteq 1 .. cursor - 1 /\ t \in 1 .. cursor - 1
    BY <1>1
<1> QED
    BY SMTT(30), <1>2, <1>3 DEF CreatedBefore

\* Outputs that become live (_on_task_done) keeps assigned ranges apart.
LEMMA OutputsLiveSound ==
    ASSUME prog \in Programs, NEW C, NEW m, Sound(m, C), NEW t \in 1 .. prog.n
    PROVE  Sound(OutputsLive(m, t), C)
<1> DEFINE m2 == OutputsLive(m, t)
<1>1. m \in MemType /\ m2 \in MemType
    BY Zenon, OutputsLiveType DEF Sound
<1>2. Sound(Raise(m, "assert"), C)
    BY Zenon, RaiseSound DEF Errors
<1>3. CASE m2 = Raise(m, "assert")
    BY Zenon, <1>2, <1>3
<1>4. CASE m2 # Raise(m, "assert")
  <2>1. \A o \in prog.out[t]["fast"] : m.fast[o].st = "reserved"
      BY Zenon, <1>4 DEF OutputsLive
  <2>2. prog.out[t]["fast"] \cap (Objects \ C) = {}
      BY Zenon, <2>1 DEF Sound, Fresh
  <2>3. /\ m2.held = m.held /\ m2.inc = m.inc /\ m2.deferred = m.deferred
        /\ m2.h2dq = m.h2dq /\ \A q \in Objects \ C : m2.fast[q] = m.fast[q]
      BY Zenon, <1>1, <1>4, <2>2 DEF OutputsLive, MemType
  <2> HIDE DEF m2
  <2>4. Sound(m2, C)
      BY Zenon, <1>1, <2>3, FrameSound
  <2> QED
      BY Zenon, <2>4 DEF m2
<1> QED
    BY Zenon, <1>3, <1>4

\* Inputs that a task has mutated (_on_task_done) keeps assigned ranges apart.
LEMMA MutateSound ==
    ASSUME prog \in Programs, NEW C, NEW m, Sound(m, C), NEW t \in 1 .. prog.n
    PROVE  Sound(Mutate(m, t), C)
<1> DEFINE m2 == Mutate(m, t)
<1>1. m \in MemType /\ m2 \in MemType
    BY Zenon, MutateType DEF Sound
<1>2. Sound(Raise(m, "assert"), C)
    BY Zenon, RaiseSound DEF Errors
<1>3. CASE m2 = m \/ m2 = Raise(m, "assert")
    BY Zenon, <1>2, <1>3
<1>4. CASE m2 # m /\ m2 # Raise(m, "assert")
  <2>1. /\ m.err = "none"
        /\ \A o \in prog.mutates[t] : m.fast[o].st # "none"
      BY Zenon, <1>4 DEF Mutate
  <2>2. prog.mutates[t] \cap (Objects \ C) = {}
      BY Zenon, <2>1 DEF Sound, Fresh
  <2>3. /\ m2.held = m.held /\ m2.inc = m.inc /\ m2.deferred = m.deferred
        /\ m2.h2dq = m.h2dq /\ \A q \in Objects \ C : m2.fast[q] = m.fast[q]
      BY Zenon, <1>1, <2>1, <2>2 DEF Mutate, MemType
  <2> HIDE DEF m2
  <2>4. Sound(m2, C)
      BY Zenon, <1>1, <2>3, FrameSound
  <2> QED
      BY Zenon, <2>4 DEF m2
<1> QED
    BY Zenon, <1>3, <1>4

\* The release directives of a task (_on_task_done) keeps assigned ranges apart.
LEMMA ReleaseDirectivesSound ==
    ASSUME prog \in Programs, NEW C, NEW m, Sound(m, C), NEW t \in 1 .. prog.n
    PROVE  Sound(ReleaseDirectives(m, t), C)
<1> DEFINE R    == prog.releases[t]
           dead == {o \in R : DeadEverywhere(m, o, t)}
           d    == DropFast(m, R)
           e    == Release(d, "backing", Bytes(dead))
           m2   == ReleaseDirectives(m, t)
<1>1. m \in MemType /\ m2 \in MemType
    BY Zenon, ReleaseDirectivesType DEF Sound
<1>2. Sound(Raise(m, "misfire"), C)
    BY Zenon, RaiseSound DEF Errors
<1>3. CASE m2 = m \/ m2 = Raise(m, "misfire")
    BY Zenon, <1>2, <1>3
<1>4. CASE m2 # m /\ m2 # Raise(m, "misfire")
  <2>1. /\ m.err = "none"
        /\ \A o \in R : m.fast[o].st = "live"
      BY Zenon, <1>4 DEF ReleaseDirectives
  <2>2. R \in SUBSET Objects /\ dead \in SUBSET Objects
      BY Zenon, TaskTypes
  <2>3. Sound(d, C)
      BY Zenon, <2>1, <2>2, DropFastSound
  <2>4. d \in MemType /\ Bytes(dead) \in Nat
      BY Zenon, <2>2, <2>3, BytesFacts DEF Sound
  <2> HIDE DEF d, dead
  <2>5. e \in MemType
      BY Zenon, <2>4, ChargeType DEF Locations
  <2>6. /\ e.held = d.held /\ e.inc = d.inc /\ e.fast = d.fast
        /\ e.deferred = d.deferred /\ e.h2dq = d.h2dq
      BY Zenon, <2>4, LedgerFrame DEF Locations
  <2>7. m2 = [e EXCEPT !.backing = [o \in Objects |-> IF o \in dead THEN NoSlot
                                                       ELSE e.backing[o]]]
      BY Zenon, <2>1 DEF ReleaseDirectives, d, dead
  <2> HIDE DEF e
  <2>8. /\ m2.held = e.held /\ m2.inc = e.inc /\ m2.deferred = e.deferred
        /\ m2.h2dq = e.h2dq /\ m2.fast = e.fast
      BY Zenon, <2>5, <2>7 DEF MemType
  <2> HIDE DEF m2
  <2>9. Sound(m2, C)
      BY SMTT(30), <1>1, <2>3, <2>6, <2>8, FrameSound
  <2> QED
      BY Zenon, <2>9 DEF m2
<1> QED
    BY Zenon, <1>3, <1>4

\* The offload directives of a task (_on_task_done) keeps assigned ranges apart.
LEMMA OffloadDirectivesSound ==
    ASSUME prog \in Programs, NEW C, NEW m, Sound(m, C), NEW t \in 1 .. prog.n
    PROVE  Sound(OffloadDirectives(m, t), C)
<1> DEFINE m2 == OffloadDirectives(m, t)
<1>1. m \in MemType /\ m2 \in MemType
    BY Zenon, OffloadDirectivesType DEF Sound
<1>2. Sound(Raise(m, "misfire"), C)
    BY Zenon, RaiseSound DEF Errors
<1>3. CASE m2 = m \/ m2 = Raise(m, "misfire")
    BY Zenon, <1>2, <1>3
<1>4. CASE m2 # m /\ m2 # Raise(m, "misfire")
  <2>1. /\ m.err = "none"
        /\ \A o \in Range(prog.offloads[t]) : m.fast[o].st = "live" /\ m.backing[o].st \in {"none", "live"}
      BY Zenon, <1>4 DEF OffloadDirectives
  <2>2. Range(prog.offloads[t]) \cap (Objects \ C) = {}
      BY Zenon, <2>1 DEF Sound, Fresh
  <2> DEFINE f == [o \in Objects |-> IF o \in Range(prog.offloads[t])
                                     THEN [m.fast[o] EXCEPT !.st = "pending_outbound"]
                                     ELSE m.fast[o]]
             q == m.d2hq \o prog.offloads[t]
  <2>a. m2 = [m EXCEPT !.fast = f, !.d2hq = q]
      BY Zenon, <2>1 DEF OffloadDirectives
  <2>b. \A o \in Objects \ C : f[o] = m.fast[o]
      BY Zenon, <2>2
  <2> HIDE DEF f, q, m2
  <2>3. /\ m2.held = m.held /\ m2.inc = m.inc /\ m2.deferred = m.deferred
        /\ m2.h2dq = m.h2dq /\ m2.fast = f
      BY Zenon, <1>1, <2>a DEF MemType
  <2>4. Sound(m2, C)
      BY Zenon, <1>1, <2>3, <2>b, FrameSound
  <2> QED
      BY Zenon, <2>4 DEF m2
<1> QED
    BY Zenon, <1>3, <1>4

\* The prefetch directives of a task (_on_task_done) keeps assigned ranges apart.
LEMMA PrefetchDirectivesSound ==
    ASSUME prog \in Programs, NEW C, NEW m, Sound(m, C), NEW t \in 1 .. prog.n,
           Range(prog.prefetches[t]) \subseteq C
    PROVE  Sound(PrefetchDirectives(m, t), C)
<1> DEFINE R  == Range(prog.prefetches[t])
           S  == {o \in R : ~ OffloadInFlight(m, o)}
           k  == Pick(prog.prefetches[t], S)
           m2 == PrefetchDirectives(m, t)
<1>1. m \in MemType /\ m2 \in MemType
    BY Zenon, PrefetchDirectivesType DEF Sound
<1>2. Sound(Raise(m, "misfire"), C)
    BY Zenon, RaiseSound DEF Errors
<1>3. CASE m2 = m \/ m2 = Raise(m, "misfire")
    BY Zenon, <1>2, <1>3
<1>4. CASE m2 # m /\ m2 # Raise(m, "misfire")
  <2>1. /\ m.err = "none"
        /\ ~ \E o \in R : \/ m.fast[o].st \in {"live", "inbound"}
                          \/ ~ OffloadInFlight(m, o) /\ m.backing[o].st # "live"
      BY Zenon, <1>4 DEF PrefetchDirectives
  <2>2. k \in Seq(Objects) /\ Range(k) \subseteq C
      BY TaskTypes, PickProperties
  <2> DEFINE later == [o \in Objects |-> IF o \in R /\ OffloadInFlight(m, o)
                                         THEN m.deferred[o] + 1 ELSE m.deferred[o]]
  <2>a. m2 = [m EXCEPT !.deferred = later, !.h2dq = m.h2dq \o k]
      BY Zenon, <2>1 DEF PrefetchDirectives
  <2>b. \A q \in Objects \ C : later[q] = m.deferred[q]
      BY Zenon
  <2> HIDE DEF k, later, m2
  <2>3. /\ m2.held = m.held /\ m2.inc = m.inc /\ m2.fast = m.fast
        /\ m2.h2dq = m.h2dq \o k /\ m2.deferred = later
      BY Zenon, <1>1, <2>a DEF MemType
  <2>4. m.h2dq \in Seq(Objects)
      BY Zenon, <1>1 DEF MemType
  <2>5. \A q \in Range(m.h2dq \o k) : q \in Range(m.h2dq) \/ q \in Range(k)
      BY <2>2, <2>4 DEF Range
  <2>6. Sound(m2, C)
      BY Zenon, <1>1, <2>2, <2>3, <2>b, <2>5, FrameSound
  <2> QED
      BY Zenon, <2>6 DEF m2
<1> QED
    BY Zenon, <1>3, <1>4

\* The handler of a finished task (_on_task_done) keeps assigned ranges apart.
LEMMA OnTaskDoneSound ==
    ASSUME prog \in Programs, NEW C, NEW m, Sound(m, C), NEW t \in 1 .. prog.n,
           Range(prog.prefetches[t]) \subseteq C
    PROVE  Sound(OnTaskDone(m, t), C)
<1> DEFINE m1 == ReleaseDirectives(Mutate(OutputsLive(m, t), t), t)
           m2 == PrefetchDirectives(OffloadDirectives(m1, t), t)
<1>1. Sound(m1, C)
    BY Zenon, OutputsLiveSound, MutateSound, ReleaseDirectivesSound
<1>2. Sound(m2, C)
    BY Zenon, <1>1, OffloadDirectivesSound, PrefetchDirectivesSound
<1>3. Sound(D2HTryStart(H2DTryStart(m2, FALSE)), C)
    BY Zenon, <1>2, H2DTryStartSound, D2HTryStartSound
<1> QED
    BY Zenon, <1>3 DEF OnTaskDone

\* An eviction (_evict_for_pressure) keeps assigned ranges apart.
LEMMA EvictSound ==
    ASSUME prog \in Programs, NEW C, NEW m, Sound(m, C), NEW o \in Objects, m.fast[o].st = "live"
    PROVE  Sound(Evict(m, o), C)
<1> DEFINE d  == DropFast(m, {o})
           q  == Append(d.h2dq, o)
           m2 == Evict(m, o)
<1>1. Sound(d, C) /\ d \in MemType
    BY Zenon, DropFastSound DEF Sound
<1>2. o \in C
    BY Zenon DEF Sound, Fresh
<1>3. m2 \in MemType
    BY Zenon, EvictType DEF Sound
<1>4. m2 = [d EXCEPT !.h2dq = q]
    BY Zenon DEF Evict
<1> HIDE DEF d
<1>5. d.h2dq \in Seq(Objects)
    BY Zenon, <1>1 DEF MemType
<1>6. \A p \in Range(q) : p \in Range(d.h2dq) \/ p = o
    BY <1>5 DEF Range
<1> HIDE DEF q, m2
<1>7. /\ m2.held = d.held /\ m2.inc = d.inc /\ m2.deferred = d.deferred
      /\ m2.fast = d.fast /\ m2.h2dq = q
    BY Zenon, <1>1, <1>4 DEF MemType
<1>8. Sound(m2, C)
    BY SMTT(30), <1>1, <1>2, <1>3, <1>6, <1>7, FrameSound
<1> QED
    BY Zenon, <1>8 DEF m2

\* First incarnations that are packed apart, each dynamic or admitted by can_get.
LEMMA OccupyDisjoint ==
    ASSUME prog \in Programs, NEW m \in MemType, Disjoint(m), NEW st \in SlotStates,
           NEW F \in SUBSET Objects, NEW B \in SUBSET Objects, PackedApart(prog, F),
           \A o \in F : m.inc[o] = 1 /\ (o \in escaped \/ CanGet(m, o))
    PROVE  Disjoint(Occupy(m, F, B, st))
<1> DEFINE new(o) == <<o, m.inc[o], o \in escaped>>
           drawn  == {new(o) : o \in F}
<1>1. Occupy(m, F, B, st).held = m.held \cup drawn
    BY Zenon DEF Occupy, MemType
<1>2. \A e \in prog.clash : <<e[2], e[1]>> \in prog.clash
    BY Zenon, PlansAssumption DEF Coherent
<1>3. \A o \in F : new(o)[1] = o /\ new(o)[2] = 1
    BY Zenon
<1>4. \A o \in F : ~ new(o)[3] => o \notin escaped
    BY Zenon
<1>5. \A o \in F, h \in m.held : o \notin escaped /\ ~ h[3] =>
          /\ <<<<o, 1>>, <<h[1], h[2]>>>> \notin prog.clash
          /\ <<<<h[1], h[2]>>, <<o, 1>>>> \notin prog.clash
    BY Zenon, <1>2 DEF CanGet
<1> HIDE DEF new
<1> SUFFICES ASSUME NEW h \in m.held \cup drawn, NEW k \in m.held \cup drawn,
                    h # k, ~ h[3], ~ k[3]
             PROVE  <<<<h[1], h[2]>>, <<k[1], k[2]>>>> \notin prog.clash
    BY Zenon, <1>1 DEF Disjoint
<1>6. CASE h \in m.held /\ k \in m.held
    BY Zenon, <1>6 DEF Disjoint
<1>7. CASE h \in m.held /\ k \in drawn
  <2>1. PICK o \in F : k = new(o)
      BY Zenon, <1>7
  <2> QED
      BY Zenon, <1>3, <1>4, <1>5, <1>7, <2>1
<1>8. CASE h \in drawn /\ k \in m.held
  <2>1. PICK o \in F : h = new(o)
      BY Zenon, <1>8
  <2> QED
      BY Zenon, <1>3, <1>4, <1>5, <1>8, <2>1
<1>9. CASE h \in drawn /\ k \in drawn
  <2>1. PICK o \in F, q \in F : h = new(o) /\ k = new(q)
      BY Zenon, <1>9
  <2>2. o # q
      BY Zenon, <2>1
  <2> QED
      BY SMTT(30), <1>3, <2>1, <2>2 DEF PackedApart
<1> QED
    BY Zenon, <1>6, <1>7, <1>8, <1>9

\* Loading or reserving slots (_load_initial, run_dispatch) keeps assigned ranges apart.
LEMMA OccupySound ==
    ASSUME prog \in Programs, NEW C, NEW m, Sound(m, C), NEW st \in SlotStates,
           NEW F \in SUBSET Objects, NEW B \in SUBSET Objects, PackedApart(prog, F),
           \A o \in F : m.inc[o] = 1 /\ (o \in escaped \/ CanGet(m, o)),
           NEW D, C \cup F \subseteq D
    PROVE  Sound(Occupy(m, F, B, st), D)
<1> DEFINE m2 == Occupy(m, F, B, st)
<1>1. m \in MemType /\ m2 \in MemType
    BY Zenon, OccupyType DEF Sound
<1>2. Disjoint(m2)
    BY Zenon, <1>1, OccupyDisjoint DEF Sound
<1>3. /\ m2.deferred = m.deferred /\ m2.h2dq = m.h2dq
      /\ \A q \in Objects \ D : m2.inc[q] = m.inc[q] /\ m2.fast[q] = m.fast[q]
    BY Zenon, <1>1 DEF Occupy, MemType
<1> HIDE DEF m2
<1>4. \A q \in Objects \ D : Fresh(m2, q)
    BY Zenon, <1>3 DEF Sound, Fresh
<1>5. Sound(m2, D)
    BY Zenon, <1>1, <1>2, <1>4 DEF Sound
<1> QED
    BY Zenon, <1>5 DEF m2

\* The end of a run (RunScope.reclaim) only gives buffers back.
LEMMA ReclaimDisjoint ==
    ASSUME NEW m \in MemType, Disjoint(m)
    PROVE  Disjoint(Reclaim(m))
<1>1. Reclaim(m).held \subseteq m.held
    BY Zenon DEF Reclaim, MemType
<1> QED
    BY Zenon, <1>1 DEF Disjoint

\* The memory a run starts from keeps assigned ranges apart.
LEMMA EmptyMemSound == Sound(EmptyMem, {})
<1>1. EmptyMem.h2dq = <<>> /\ EmptyMem.held = {}
    BY Zenon DEF EmptyMem
<1>2. \A o \in Objects : Fresh(EmptyMem, o)
    BY DEF Fresh, EmptyMem, Range, NoSlot
<1> QED
    BY Zenon, <1>1, <1>2, EmptyMemType DEF Sound, Disjoint

-----------------------------------------------------------------------------
(***************************************************************************)
(* The invariant is inductive.                                             *)
(***************************************************************************)
\* A step that installs a sound memory and keeps the task in hand.
LEMMA InstallSound ==
    ASSUME TypeInv', pc # "setup", NEW m, Sound(m, CreatedBefore(prog, cursor)), Install(m),
           UNCHANGED <<prog, cursor>>, outstanding' < cursor
    PROVE  OffsetsInv'
<1>1. mem' = m /\ pc' \in {pc, "failing"}
    BY Zenon DEF Install
<1>2. Disjoint(mem)'
    BY Zenon, <1>1 DEF Sound, Disjoint
<1>3. CreatedBefore(prog, cursor)' = CreatedBefore(prog, cursor)
    BY SMTT(30) DEF CreatedBefore
<1>4. Sound(mem, CreatedBefore(prog, cursor))'
    BY Zenon, <1>1, <1>2, <1>3 DEF Sound, Fresh
<1> QED
    BY Zenon, <1>1, <1>2, <1>4 DEF OffsetsInv

\* A step that leaves memory alone.
LEMMA IdleSound ==
    ASSUME OffsetsInv, TypeInv', UNCHANGED <<prog, cursor, mem>>, outstanding' < cursor',
           pc' # "setup" \/ pc' = pc, pc \in {"failing", "end"} => pc' \in {"failing", "end"}
    PROVE  OffsetsInv'
<1>1. Disjoint(mem)'
    BY Zenon DEF OffsetsInv, Disjoint
<1>2. CreatedBefore(prog, cursor)' = CreatedBefore(prog, cursor)
    BY SMTT(30) DEF CreatedBefore
<1>3. Sound(mem, CreatedBefore(prog, cursor)) => Sound(mem, CreatedBefore(prog, cursor))'
    BY Zenon, <1>1, <1>2 DEF Sound, Fresh
<1>4. EmptyMem' = EmptyMem
    BY Zenon DEF EmptyMem
<1> QED
    BY Zenon, <1>1, <1>3, <1>4 DEF OffsetsInv

\* The next task's outputs: none was drawn before, and the pool admits each.
LEMMA ReserveOutputsSound ==
    ASSUME OffsetsInv, pc = "reserve", Busy = {}
    PROVE  Sound(ReserveOutputs(mem, cursor), CreatedBefore(prog, cursor + 1))
<1> DEFINE F == prog.out[cursor]["fast"]
           B == prog.out[cursor]["backing"]
           C == CreatedBefore(prog, cursor)
           D == CreatedBefore(prog, cursor + 1)
<1>1. /\ prog \in Programs /\ prog.n \in Nat /\ cursor \in 1 .. prog.n /\ Sound(mem, C)
    BY SMTT(30), ProgramTypes DEF OffsetsInv, TypeInv, TypeOK
<1>2. F \in SUBSET Objects /\ B \in SUBSET Objects
    BY Zenon, <1>1, TaskTypes
<1>3. F \cap C = {} /\ PackedApart(prog, F)
  <2>1. ValidProgram(prog) /\ Coherent(prog) /\ cursor \in Tasks(prog)
      BY Zenon, <1>1, ProgramsAssumption, PlansAssumption DEF Tasks
  <2>2. F \cap C = {}
      BY Zenon, <2>1 DEF ValidProgram
  <2>3. PackedApart(prog, F)
      BY Zenon, <2>1 DEF Coherent
  <2> QED
      BY Zenon, <2>2, <2>3
<1>4. C \cup F \subseteq D
  <2>1. 1 .. cursor - 1 \subseteq 1 .. cursor + 1 - 1 /\ cursor \in 1 .. cursor + 1 - 1
      BY SMTT(30), <1>1
  <2> QED
      BY <2>1 DEF CreatedBefore
<1>5. \A o \in F : mem.inc[o] = 1 /\ (o \in escaped \/ CanGet(mem, o))
    BY Zenon, <1>1, <1>2, <1>3 DEF Sound, Fresh, Busy
<1> HIDE DEF F, B, C, D
<1>6. Sound(Occupy(mem, F, B, "reserved"), D)
    BY SMTT(30), <1>1, <1>2, <1>3, <1>4, <1>5, OccupySound DEF SlotStates
<1>7. Sound(mem, D)
    BY Zenon, <1>1, <1>4 DEF Sound
<1>8. Sound(Raise(mem, "backing_full"), D) /\ Sound(Raise(mem, "collision"), D)
    BY Zenon, <1>7, RaiseSound DEF Errors
<1> QED
    BY Zenon, <1>6, <1>8 DEF ReserveOutputs, F, B, D

\* Loading any part of the initial objects.
LEMMA LoadSound ==
    ASSUME OffsetsInv, pc = "setup", NEW F \in SUBSET prog.init["fast"],
           NEW B \in SUBSET prog.init["backing"]
    PROVE  Sound(Occupy(mem, F, B, "live"), CreatedBefore(prog, cursor))
<1>1. prog \in Programs /\ mem = EmptyMem
    BY Zenon DEF OffsetsInv, TypeInv
<1>2. F \in SUBSET Objects /\ B \in SUBSET Objects
    BY Zenon, <1>1, ProgramTypes DEF Locations
<1>3. Sound(mem, {})
    BY Zenon, <1>1, EmptyMemSound
<1>4. PackedApart(prog, F)
  <2>1. PackedApart(prog, prog.init["fast"])
      BY Zenon, <1>1, PlansAssumption DEF Coherent
  <2> QED
      BY Zenon, <2>1 DEF PackedApart
<1>5. \A o \in F : mem.inc[o] = 1 /\ CanGet(mem, o)
    BY Zenon, <1>1, <1>2 DEF EmptyMem, CanGet
<1>6. {} \cup F \subseteq CreatedBefore(prog, cursor)
    BY Zenon DEF CreatedBefore
<1> QED
    BY SMTT(30), <1>1, <1>2, <1>3, <1>4, <1>5, <1>6, OccupySound DEF SlotStates

\* OffsetsInv holds before a run is set up.
LEMMA OffsetsInit == Init => OffsetsInv
<1> SUFFICES ASSUME Init PROVE OffsetsInv
    BY Zenon
<1>1. TypeInv
    BY Zenon, TypeInit
<1>2. mem = EmptyMem /\ pc = "setup" /\ outstanding < cursor
    BY DEF Init
<1>3. Sound(mem, CreatedBefore(prog, cursor))
    BY Zenon, <1>2, EmptyMemSound DEF Sound
<1>4. Disjoint(mem)
    BY Zenon, <1>3 DEF Sound
<1> QED
    BY Zenon, <1>1, <1>2, <1>3, <1>4 DEF OffsetsInv

\* No step of the dispatcher breaks OffsetsInv.
LEMMA OffsetsNext == OffsetsInv /\ [Next]_vars => OffsetsInv'
<1> SUFFICES ASSUME OffsetsInv, [Next]_vars PROVE OffsetsInv'
    BY Zenon
<1> DEFINE C == CreatedBefore(prog, cursor)
<1>1. TypeInv'
    BY Zenon, TypeNext DEF OffsetsInv
<1>2. /\ prog \in Programs /\ prog.n \in Nat /\ mem \in MemType /\ Disjoint(mem)
      /\ cursor \in Nat \ {0} /\ outstanding < cursor
      /\ pc \notin {"failing", "end"} => Sound(mem, C)
    BY SMTT(30), ProgramTypes DEF OffsetsInv, TypeInv, TypeOK
<1>3. CASE LoadInitial
  <2>1. /\ pc = "setup" /\ mem' = Occupy(mem, prog.init["fast"], prog.init["backing"], "live")
        /\ pc' = "boundary" /\ UNCHANGED <<prog, cursor, outstanding>>
      BY Zenon, <1>3 DEF LoadInitial
  <2>2. Sound(mem', C)
      BY Zenon, <2>1, LoadSound
  <2>3. Disjoint(mem)'
      BY Zenon, <2>1, <2>2 DEF Sound, Disjoint
  <2>4. C' = C
      BY SMTT(30), <2>1 DEF CreatedBefore
  <2>5. Sound(mem, CreatedBefore(prog, cursor))'
      BY Zenon, <2>2, <2>3, <2>4 DEF Sound, Fresh
  <2>6. outstanding' < cursor' /\ pc' # "setup"
      BY Zenon, <1>2, <2>1
  <2> QED
      BY Zenon, <1>1, <2>3, <2>5, <2>6 DEF OffsetsInv
<1>4. CASE LoadInitialRaises
  <2>1. PICK F \in SUBSET prog.init["fast"], B \in SUBSET prog.init["backing"] :
            mem' = Raise(Occupy(mem, F, B, "live"), "setup")
      BY Zenon, <1>4 DEF LoadInitialRaises
  <2>2. pc = "setup" /\ pc' = "end" /\ UNCHANGED <<prog, cursor, outstanding>>
      BY Zenon, <1>4 DEF LoadInitialRaises
  <2>3. Sound(mem', C)
      BY Zenon, <2>1, <2>2, LoadSound, RaiseSound DEF Errors
  <2>4. Disjoint(mem)'
      BY Zenon, <2>2, <2>3 DEF Sound, Disjoint
  <2> QED
      BY Zenon, <1>1, <1>2, <2>2, <2>4 DEF OffsetsInv
<1>5. CASE BeginTask
  <2>1. pc = "boundary" /\ UNCHANGED <<prog, cursor, outstanding>>
      BY Zenon, <1>5 DEF BeginTask
  <2>2. CASE cancel
    <3>1. Sound(Raise(mem, "cancelled"), C)
        BY Zenon, <1>2, <2>1, RaiseSound DEF Errors
    <3> QED
        BY Zenon, <1>1, <1>2, <1>5, <2>1, <2>2, <3>1, InstallSound DEF BeginTask
  <2>3. CASE ~ cancel
      BY Zenon, <1>1, <1>2, <1>5, <2>1, <2>3, IdleSound DEF BeginTask
  <2> QED
      BY Zenon, <2>2, <2>3
<1>6. CASE Paced \/ InputsObserved \/ EscapeOutputs \/ BeginDrain
    BY Zenon, <1>1, <1>2, <1>6, IdleSound DEF Paced, InputsObserved, EscapeOutputs, BeginDrain
<1>7. CASE RequestCancel \/ UNCHANGED vars
    BY Zenon, <1>1, <1>2, <1>7, IdleSound DEF RequestCancel, vars
<1>8. CASE Launch
  <2> DEFINE D  == CreatedBefore(prog, cursor + 1)
             m1 == ReserveOutputs(mem, cursor)
             m2 == IF blocked THEN H2DTryStart(m1, FALSE) ELSE m1
  <2>1. pc = "reserve" /\ Busy = {} /\ prog' = prog
      BY Zenon, <1>8 DEF Launch
  <2>2. Sound(m1, D)
      BY Zenon, <2>1, ReserveOutputsSound
  <2>3. Sound(m2, D)
      BY ZenonT(40), <1>2, <2>2, H2DTryStartSound
  <2> HIDE DEF m2, D
  <2>4. Sound(Raise(m2, "task"), D)
      BY Zenon, <2>3, RaiseSound DEF Errors
  <2>5. m2 \in MemType
      BY Zenon, <2>3 DEF Sound
  <2>6. CASE /\ mem' = m2
             /\ pc' = IF m2.err = "none" THEN "boundary" ELSE "failing"
             /\ outstanding' = IF m2.err = "none" THEN cursor ELSE outstanding
             /\ cursor' = IF m2.err = "none" THEN cursor + 1 ELSE cursor
    <3>1. Disjoint(mem)'
        BY Zenon, <2>1, <2>3, <2>6 DEF Sound, Disjoint
    <3>2. CASE m2.err = "none"
      <4>1. CreatedBefore(prog, cursor)' = D
          BY SMTT(30), <2>1, <2>6, <3>2 DEF CreatedBefore, D
      <4>2. Sound(mem, CreatedBefore(prog, cursor))'
          BY Zenon, <2>3, <2>6, <3>1, <4>1 DEF Sound, Fresh
      <4> QED
          BY SMTT(30), <1>1, <1>2, <2>6, <3>1, <3>2, <4>2 DEF OffsetsInv
    <3>3. CASE m2.err # "none"
        BY Zenon, <1>1, <1>2, <2>6, <3>1, <3>3 DEF OffsetsInv
    <3> QED
        BY Zenon, <3>2, <3>3
  <2>7. CASE Install(Raise(m2, "task")) /\ UNCHANGED <<outstanding, cursor>>
    <3>1. mem' = Raise(m2, "task") /\ mem'.err = "task"
        BY Zenon, <2>5, <2>7 DEF Install, Raise, MemType
    <3>2. pc' = "failing"
        BY Zenon, <2>7, <3>1 DEF Install
    <3>3. Disjoint(mem)'
        BY Zenon, <2>1, <2>4, <3>1 DEF Sound, Disjoint
    <3> QED
        BY Zenon, <1>1, <1>2, <2>7, <3>2, <3>3 DEF OffsetsInv
  <2> QED
      BY Zenon, <1>8, <2>6, <2>7 DEF Launch, m2
<1>9. CASE TakeTaskDone
  <2>1. /\ Waiting /\ outstanding # 0 /\ Install(OnTaskDone(mem, outstanding))
        /\ outstanding' = 0 /\ UNCHANGED <<prog, cursor>>
      BY Zenon, <1>9 DEF TakeTaskDone
  <2>2. pc \notin {"setup", "failing", "end"}
      BY Zenon, <2>1 DEF Waiting
  <2>3. outstanding \in 1 .. prog.n
      BY SMTT(30), <1>2, <2>1 DEF OffsetsInv, TypeInv, TypeOK
  <2>4. Range(prog.prefetches[outstanding]) \subseteq C
      BY Zenon, <1>2, <2>3, KnownTask DEF OffsetsInv
  <2>5. Sound(OnTaskDone(mem, outstanding), C)
      BY Zenon, <1>2, <2>2, <2>3, <2>4, OnTaskDoneSound
  <2> QED
      BY SMTT(30), <1>1, <1>2, <2>1, <2>2, <2>5, InstallSound
<1>10. CASE TakeH2DDone
  <2>1. pc \notin {"setup", "failing", "end"}
      BY Zenon, <1>10 DEF TakeH2DDone, Waiting
  <2>2. Sound(OnH2DDone(mem), C)
      BY Zenon, <1>2, <1>10, <2>1, OnTransferDoneSound DEF TakeH2DDone
  <2> QED
      BY Zenon, <1>1, <1>2, <1>10, <2>1, <2>2, InstallSound DEF TakeH2DDone
<1>11. CASE TakeD2HDone
  <2>1. pc \notin {"setup", "failing", "end"}
      BY Zenon, <1>11 DEF TakeD2HDone, Waiting
  <2>2. Sound(OnD2HDone(mem), C)
      BY Zenon, <1>2, <1>11, <2>1, OnTransferDoneSound DEF TakeD2HDone
  <2> QED
      BY Zenon, <1>1, <1>2, <1>11, <2>1, <2>2, InstallSound DEF TakeD2HDone
<1>12. CASE PumpH2D
  <2>1. pc \notin {"setup", "failing", "end"}
      BY Zenon, <1>12 DEF PumpH2D, StepIdle
  <2>2. Sound(Pumped, C)
      BY Zenon, <1>2, <2>1, H2DTryStartSound DEF Pumped
  <2> QED
      BY Zenon, <1>1, <1>2, <1>12, <2>1, <2>2, InstallSound DEF PumpH2D
<1>13. CASE EscapeHead
  <2>1. pc \notin {"setup", "failing", "end"}
      BY Zenon, <1>13 DEF EscapeHead, StepIdle
  <2>2. Sound(EscapeBlockedHead(mem), C)
      BY Zenon, <1>2, <2>1, EscapeBlockedHeadSound
  <2> QED
      BY Zenon, <1>1, <1>2, <1>13, <2>1, <2>2, InstallSound DEF EscapeHead
<1>14. CASE EvictForPressure
  <2>1. pc \notin {"setup", "failing", "end"}
      BY Zenon, <1>14 DEF EvictForPressure, StepIdle
  <2>2. PICK o \in Victims : Install(Evict(mem, o))
      BY Zenon, <1>14 DEF EvictForPressure
  <2>3. o \in Objects /\ mem.fast[o].st = "live"
      BY Zenon DEF Victims, Evictable
  <2>4. Sound(Evict(mem, o), C)
      BY Zenon, <1>2, <2>1, <2>3, EvictSound
  <2> QED
      BY Zenon, <1>1, <1>2, <1>14, <2>1, <2>2, <2>4, InstallSound DEF EvictForPressure
<1>15. CASE DeclareDeadlock
  <2>1. pc \notin {"setup", "failing", "end"}
      BY Zenon, <1>15 DEF DeclareDeadlock, StepIdle
  <2>2. Sound(Raise(mem, "deadlock"), C)
      BY Zenon, <1>2, <2>1, RaiseSound DEF Errors
  <2> QED
      BY Zenon, <1>1, <1>2, <1>15, <2>1, <2>2, InstallSound DEF DeclareDeadlock
<1>16. CASE Finish
  <2>1. pc = "drain" /\ UNCHANGED <<prog, cursor, outstanding>>
      BY Zenon, <1>16 DEF Finish
  <2>2. CASE \E e \in {"stuck", "final"} : Install(Raise(mem, e))
    <3>1. PICK e \in {"stuck", "final"} : Install(Raise(mem, e))
        BY Zenon, <2>2
    <3>2. Sound(Raise(mem, e), C)
        BY Zenon, <1>2, <2>1, RaiseSound DEF Errors
    <3> QED
        BY Zenon, <1>1, <1>2, <2>1, <3>1, <3>2, InstallSound
  <2>3. CASE mem' = Reclaim(mem) /\ pc' = "end"
    <3>1. Disjoint(Reclaim(mem))
        BY Zenon, <1>2, ReclaimDisjoint
    <3>2. Disjoint(mem)'
        BY Zenon, <2>1, <2>3, <3>1 DEF Disjoint
    <3> QED
        BY Zenon, <1>1, <1>2, <2>1, <2>3, <3>2 DEF OffsetsInv
  <2> QED
      BY Zenon, <1>16, <2>2, <2>3 DEF Finish
<1>17. CASE FinishFailed
  <2> DEFINE r == Reclaim(mem)
  <2>1. /\ mem' = [r EXCEPT !.h2din = Nil, !.d2hin = Nil]
        /\ pc' = "end" /\ outstanding' = 0 /\ UNCHANGED <<prog, cursor>>
      BY Zenon, <1>17 DEF FinishFailed
  <2>2. Disjoint(r) /\ r \in MemType
      BY Zenon, <1>2, ReclaimDisjoint, ReclaimType
  <2> HIDE DEF r
  <2>3. mem'.held = r.held
      BY Zenon, <2>1, <2>2 DEF MemType
  <2>4. Disjoint(mem)'
      BY Zenon, <2>1, <2>2, <2>3 DEF Disjoint
  <2> QED
      BY SMTT(30), <1>1, <1>2, <2>1, <2>4 DEF OffsetsInv
<1> QED
    BY SMTT(30), <1>3, <1>4, <1>5, <1>6, <1>7, <1>8, <1>9, <1>10, <1>11, <1>12, <1>13, <1>14,
       <1>15, <1>16, <1>17 DEF Next, Dispatch

\* In every reachable state of every set of coherent programs, two buffers held
\* at their assigned offsets never overlap (BufferPool.can_get, the
\* escapes of reserve and of the from_slow lane, and eviction reloads).
THEOREM OffsetsSafe == Spec => []OffsetsDisjoint
<1>1. OffsetsInv => OffsetsDisjoint
    BY Zenon DEF OffsetsInv, Disjoint, OffsetsDisjoint
<1> QED
    BY <1>1, OffsetsInit, OffsetsNext, PTL DEF Spec
=============================================================================
