---------------------------- MODULE EngineSafety ----------------------------
(***************************************************************************)
(* The engine keeps a coherent plan right on a real machine: whatever the  *)
(* order in which transfers and tasks complete, whatever is evicted, and   *)
(* however little memory there is, no directive misfires, tasks read what  *)
(* sequential execution gives them, the ledger is exact, the lanes leave   *)
(* each other alone, every buffer goes back, and ample memory never        *)
(* deadlocks.  The invariant is that memory follows the plan               *)
(* (EngineHandlers), with what the loop knows at each of its steps.        *)
(***************************************************************************)
EXTENDS EngineHandlers

USE ZenonT(40)

-----------------------------------------------------------------------------
(***************************************************************************)
(* Slots for the initial objects and for a task's outputs.                 *)
(***************************************************************************)
\* Slots in state st for the objects of F in fast, and of B in backing memory.
Occupied(m, m2, F, B, st) ==
    /\ \A o \in F : m2.fast[o].st = st /\ m2.fast[o].ver = m.ver[o] /\ m2.fast[o].inc = m.inc[o]
    /\ \A o \in Objects \ F : m2.fast[o] = m.fast[o]
    /\ \A o \in B : m2.backing[o].st = st /\ m2.backing[o].ver = m.ver[o]
    /\ \A o \in Objects \ B : m2.backing[o] = m.backing[o]
    /\ m2.used["fast"] = m.used["fast"] + Bytes(F)
    /\ m2.used["backing"] = m.used["backing"] + Bytes(B)
    /\ m2.held = m.held \cup {<<o, m.inc[o], o \in escaped>> : o \in F}
    /\ m2.ver = m.ver /\ m2.deferred = m.deferred /\ m2.h2dq = m.h2dq /\ m2.h2din = m.h2din
    /\ m2.d2hq = m.d2hq /\ m2.d2hin = m.d2hin /\ m2.err = m.err

\* They come with their bytes and their buffers.
LEMMA OccupyEffect ==
    ASSUME prog \in Programs, NEW m, Kempt(m), NEW F \in SUBSET Objects, NEW B \in SUBSET Objects,
           NEW st \in SlotStates \ {"none"}, F \cap Held(m.fast) = {}, B \cap Held(m.backing) = {},
           m.used["fast"] + Bytes(F) <= prog.cap["fast"],
           m.used["backing"] + Bytes(B) <= prog.cap["backing"]
    PROVE  Occupied(m, Occupy(m, F, B, st), F, B, st) /\ Kempt(Occupy(m, F, B, st))
<1> DEFINE u == [fast |-> m.used["fast"] + Bytes(F), backing |-> m.used["backing"] + Bytes(B)]
           h == m.held \cup {<<o, m.inc[o], o \in escaped>> : o \in F}
           i == [o \in Objects |-> IF o \in F THEN m.inc[o] + 1 ELSE m.inc[o]]
           f == [o \in Objects |->
                   IF o \in F THEN [st |-> st, ver |-> m.ver[o], inc |-> m.inc[o]] ELSE m.fast[o]]
           b == [o \in Objects |->
                   IF o \in B THEN [NoSlot EXCEPT !.st = st, !.ver = m.ver[o]] ELSE m.backing[o]]
           m2 == Occupy(m, F, B, st)
<1>1. m \in MemType /\ m2 \in MemType
    BY OccupyType DEF Kempt
<1>2. m2 = [m EXCEPT !.used = u, !.held = h, !.inc = i, !.fast = f, !.backing = b]
    BY DEF Occupy
<1>3. /\ \A o \in F : f[o].st = st /\ f[o].ver = m.ver[o] /\ f[o].inc = m.inc[o]
      /\ \A o \in Objects \ F : f[o] = m.fast[o]
      /\ \A o \in Objects \ B : b[o] = m.backing[o]
  <2>1. \A o \in F : f[o] = [st |-> st, ver |-> m.ver[o], inc |-> m.inc[o]]
      OBVIOUS
  <2>2. /\ \A o \in Objects \ F : f[o] = m.fast[o]
        /\ \A o \in Objects \ B : b[o] = m.backing[o]
      OBVIOUS
  <2> HIDE DEF f, b
  <2>3. ASSUME NEW o \in F PROVE f[o].st = st /\ f[o].ver = m.ver[o] /\ f[o].inc = m.inc[o]
    <3>1. f[o] = [st |-> st, ver |-> m.ver[o], inc |-> m.inc[o]]
        BY <2>1, <2>3
    <3> QED
        BY ONLY <3>1
  <2> QED
      BY <2>2, <2>3
<1>4. \A o \in B : b[o].st = st /\ b[o].ver = m.ver[o]
  <2>1. \A x : LET y == [NoSlot EXCEPT !.st = st, !.ver = x] IN y.st = st /\ y.ver = x
      BY DEF NoSlot
  <2>2. \A o \in B : b[o] = [NoSlot EXCEPT !.st = st, !.ver = m.ver[o]]
      OBVIOUS
  <2> HIDE DEF b
  <2>3. ASSUME NEW o \in B PROVE b[o].st = st /\ b[o].ver = m.ver[o]
    <3>1. b[o] = [NoSlot EXCEPT !.st = st, !.ver = m.ver[o]]
        BY <2>2, <2>3
    <3> QED
        BY ONLY SMTT(30), <2>1, <3>1
  <2> QED
      BY <2>3
<1>5. u["fast"] = m.used["fast"] + Bytes(F) /\ u["backing"] = m.used["backing"] + Bytes(B)
    OBVIOUS
<1> HIDE DEF u, i, f, b, m2
<1>6. /\ m2.fast = f /\ m2.backing = b /\ m2.used = u /\ m2.held = h
      /\ m2.ver = m.ver /\ m2.deferred = m.deferred /\ m2.h2dq = m.h2dq /\ m2.h2din = m.h2din
      /\ m2.d2hq = m.d2hq /\ m2.d2hin = m.d2hin /\ m2.err = m.err
  <2> HIDE DEF h
  <2> QED
      BY <1>1, <1>2 DEF MemType
<1>7. Occupied(m, m2, F, B, st)
    BY <1>3, <1>4, <1>5, <1>6 DEF Occupied
<1>8. Balanced(m2)
  <2>1. Held(m2.fast) = Held(m.fast) \cup F /\ Held(m2.backing) = Held(m.backing) \cup B
      BY <1>7, SMTT(30) DEF Held, Occupied
  <2>2. Held(m.fast) \in SUBSET Objects /\ Held(m.backing) \in SUBSET Objects
      BY DEF Held
  <2>3. Held(m.fast) \cap F = {} /\ Held(m.backing) \cap B = {}
      OBVIOUS
  <2>4. /\ Bytes(Held(m.fast) \cup F) = Bytes(Held(m.fast)) + Bytes(F)
        /\ Bytes(Held(m.backing) \cup B) = Bytes(Held(m.backing)) + Bytes(B)
      BY <2>2, <2>3, BytesFacts
  <2> QED
      BY <1>7, <2>1, <2>4 DEF Kempt, Balanced, Occupied
<1>9. Owned(m2)
  <2> SUFFICES ASSUME NEW x \in m2.held
               PROVE  m2.fast[x[1]].st # "none" /\ m2.fast[x[1]].inc = x[2]
      BY DEF Owned
  <2>1. CASE x \in m.held
    <3>1. x[1] \in Objects /\ m.fast[x[1]].st # "none" /\ m.fast[x[1]].inc = x[2]
        BY <1>1, <2>1 DEF Kempt, Owned, MemType
    <3>2. x[1] \notin F
        BY <3>1 DEF Held
    <3> QED
        BY <1>7, <3>1, <3>2 DEF Occupied
  <2>2. CASE \E o \in F : x = <<o, m.inc[o], o \in escaped>>
    <3>1. PICK o \in F : x = <<o, m.inc[o], o \in escaped>>
        BY <2>2
    <3>2. x[1] = o /\ x[2] = m.inc[o]
        BY <3>1
    <3> QED
        BY <1>7, <3>2 DEF Occupied
  <2> QED
      BY <1>6, <2>1, <2>2 DEF h
<1>10. Kempt(m2)
    BY <1>1, <1>7, <1>8, <1>9 DEF Kempt, Occupied
<1> QED
    BY <1>7, <1>10 DEF m2

\* The outputs of a task have no slots yet, and await the task in theirs; only a full
\* backing memory can refuse them.
LEMMA ReserveOnPlan ==
    ASSUME prog \in Programs, NEW t \in 1 .. prog.n, NEW m, NEW res, OnPlan(m, 0, res, t - 1),
           \A o \in Objects \ CreatedBefore(prog, t) : ~ res[o].fast /\ res[o].back = "none",
           CanReserve(m, "fast", Bytes(prog.out[t]["fast"])),
           NEW m2, m2 = ReserveOutputs(m, t)
    PROVE  \/ /\ OnPlan(m2, t, res, t - 1) /\ LiveKept(m, m2)
              /\ m2.h2dq = m.h2dq /\ m2.h2din = m.h2din /\ m2.d2hq = m.d2hq /\ m2.d2hin = m.d2hin
           \/ m2 = Raise(m, "backing_full") /\ ~ Ample
<1> DEFINE F == prog.out[t]["fast"]
           B == prog.out[t]["backing"]
<1>1. /\ Kempt(m) /\ m \in MemType /\ F \in SUBSET Objects /\ B \in SUBSET Objects /\ F \cap B = {}
      /\ Produced(prog, t) = F \cup B /\ InFlight(t) = Produced(prog, t) /\ InFlight(0) = {}
      /\ Produced(prog, t) \cap CreatedBefore(prog, t) = {}
  <2>1. m \in MemType /\ Kempt(m)
      BY DEF OnPlan, Kempt
  <2>4. t # 0
      BY TaskNumber
  <2>2. F \in SUBSET Objects /\ B \in SUBSET Objects
      BY ONLY SMTT(30), prog \in Programs, t \in 1 .. prog.n, TaskTypes
  <2>3. F \cap B = {} /\ Produced(prog, t) \cap CreatedBefore(prog, t) = {}
      BY ONLY Zenon, prog \in Programs, t \in 1 .. prog.n, TaskFacts
  <2> QED
      BY <2>1, <2>2, <2>3, <2>4 DEF Produced, InFlight
<1>2. \A o \in F \cup B : AtRest(m, o) /\ m.fast[o].st = "none" /\ m.backing[o].st = "none"
  <2> SUFFICES ASSUME NEW o \in F \cup B
               PROVE  AtRest(m, o) /\ m.fast[o].st = "none" /\ m.backing[o].st = "none"
      OBVIOUS
  <2>1. o \in Objects /\ ~ res[o].fast /\ res[o].back = "none"
      BY <1>1
  <2>2. Follows(m, o, res[o], t - 1)
      BY <1>1, <2>1 DEF OnPlan, Accounted
  <2> QED
      BY <2>1, <2>2 DEF Follows, Absent, Backed
<1>3. F \cap Held(m.fast) = {} /\ B \cap Held(m.backing) = {}
    BY <1>2 DEF Held
<1>4. CASE ~ CanReserve(m, "backing", Bytes(B))
  <2>1. m2 = Raise(m, "backing_full")
      BY <1>4 DEF ReserveOutputs
  <2>2. ~ Ample
      BY <1>1, <1>3, <1>4, AmpleRoom
  <2> QED
      BY <2>1, <2>2
<1>5. CASE CanReserve(m, "backing", Bytes(B))
  <2>1. m2 = Occupy(m, F, B, "reserved")
      BY <1>3, <1>5 DEF ReserveOutputs
  <2>2. /\ m.used["fast"] + Bytes(F) <= prog.cap["fast"]
        /\ m.used["backing"] + Bytes(B) <= prog.cap["backing"]
    <3>1. /\ m.used["fast"] <= prog.cap["fast"] /\ m.used["backing"] <= prog.cap["backing"]
          /\ m.used \in [Locations -> Nat]
        BY <1>1 DEF Kempt, Balanced, MemType
    <3>2. m.used["fast"] \in Nat /\ m.used["backing"] \in Nat
        BY <3>1 DEF Locations
    <3> HIDE DEF F, B
    <3> QED
        BY <1>5, <3>1, <3>2, SMTT(30) DEF CanReserve, F, B
  <2> HIDE DEF F, B
  <2>3. Occupied(m, m2, F, B, "reserved") /\ Kempt(m2)
    <3>1. "reserved" \in SlotStates \ {"none"}
        BY DEF SlotStates
    <3> QED
        BY SMTT(30), <1>1, <1>3, <2>1, <2>2, <3>1, OccupyEffect
  <2>4. ASSUME NEW o \in Objects PROVE Accounted(m2, o, t, res[o], t - 1)
    <3>1. CASE o \in F
      <4>1. m2.fast[o].st = "reserved" /\ m2.fast[o].ver = m.ver[o] /\ o \notin B
          BY <1>1, <2>3, <3>1 DEF Occupied
      <4>2. Awaited(m2, o, t)
          BY <1>2, <2>3, <3>1, <4>1, SMTT(30) DEF Awaited, AtRest, Occupied, F
      <4> QED
          BY <1>1, <3>1, <4>2 DEF Accounted
    <3>2. CASE o \in B
      <4>1. o \notin F
          BY <1>1, <3>2
      <4>2. Awaited(m2, o, t)
          BY <1>2, <2>3, <3>2, <4>1, SMTT(30) DEF Awaited, AtRest, Occupied, B
      <4> QED
          BY <1>1, <3>2, <4>2 DEF Accounted
    <3>3. CASE o \notin F /\ o \notin B
      <4>1. Untouched(m, m2, o)
          BY <2>3, <3>3 DEF Untouched, Occupied
      <4>2. Accounted(m, o, 0, res[o], t - 1)
          BY DEF OnPlan
      <4>3. Accounted(m2, o, 0, res[o], t - 1)
          BY <4>1, <4>2, UntouchedAccounted
      <4> QED
          BY <1>1, <3>3, <4>3 DEF Accounted
    <3> QED
        BY <3>1, <3>2, <3>3
  <2>5. OnPlan(m2, t, res, t - 1)
      BY <2>3, <2>4 DEF OnPlan
  <2>6. LiveKept(m, m2)
      BY <1>1, <1>2, <2>3 DEF LiveKept, Occupied
  <2> QED
      BY <2>3, <2>5, <2>6 DEF Occupied
<1> QED
    BY <1>4, <1>5

\* A run starts with nothing held.
LEMMA EmptyKempt ==
    ASSUME prog \in Programs
    PROVE  Kempt(EmptyMem)
<1>1. Held(EmptyMem.fast) = {} /\ Held(EmptyMem.backing) = {}
    BY DEF Held, EmptyMem, NoSlot
<1>2. /\ EmptyMem.used["fast"] = 0 /\ EmptyMem.used["backing"] = 0 /\ EmptyMem.held = {}
      /\ EmptyMem.h2dq = <<>> /\ EmptyMem.d2hq = <<>> /\ EmptyMem.err = "none"
    BY DEF EmptyMem, Locations
<1>3. prog.cap["fast"] \in Nat /\ prog.cap["backing"] \in Nat /\ Bytes({}) = 0
    BY ProgramTypes, BytesFacts DEF Locations
<1>4. Balanced(EmptyMem)
    BY <1>1, <1>2, <1>3, SMTT(30) DEF Balanced
<1> HIDE DEF EmptyMem
<1> QED
    BY <1>2, <1>4, EmptyMemType, SMTT(30) DEF Kempt, Owned, NoRepeats

\* Any initial objects that fit are loaded.
LEMMA LoadEffect ==
    ASSUME prog \in Programs, NEW F \in SUBSET prog.init["fast"],
           NEW B \in SUBSET prog.init["backing"],
           Bytes(F) <= prog.cap["fast"], Bytes(B) <= prog.cap["backing"],
           NEW m2, m2 = Occupy(EmptyMem, F, B, "live")
    PROVE  /\ Kempt(m2) /\ Occupied(EmptyMem, m2, F, B, "live")
           /\ F \in SUBSET Objects /\ B \in SUBSET Objects
<1>1. F \in SUBSET Objects /\ B \in SUBSET Objects
    BY ProgramTypes DEF Locations
<1>2. F \cap Held(EmptyMem.fast) = {} /\ B \cap Held(EmptyMem.backing) = {}
    BY DEF Held, EmptyMem, NoSlot
<1>3. EmptyMem.used["fast"] = 0 /\ EmptyMem.used["backing"] = 0
    BY DEF EmptyMem, Locations
<1>4. Bytes(F) \in Nat /\ Bytes(B) \in Nat
    BY <1>1, BytesFacts
<1>5. "live" \in SlotStates \ {"none"}
    BY DEF SlotStates
<1>6. EmptyMem.used["fast"] + Bytes(F) <= prog.cap["fast"]
      /\ EmptyMem.used["backing"] + Bytes(B) <= prog.cap["backing"]
    BY <1>3, <1>4, SMTT(30)
<1> HIDE DEF EmptyMem
<1> QED
    BY <1>1, <1>2, <1>5, <1>6, EmptyKempt, OccupyEffect

\* The residency a plan starts from is the one the set-up makes.
LEMMA LoadOnPlan ==
    ASSUME prog \in Programs, Bytes(prog.init["fast"]) <= prog.cap["fast"],
           Bytes(prog.init["backing"]) <= prog.cap["backing"],
           NEW m2, m2 = Occupy(EmptyMem, prog.init["fast"], prog.init["backing"], "live")
    PROVE  /\ OnPlan(m2, 0, prog.plan[0], 0) /\ LanesBusy(m2)
           /\ \A o \in Objects : m2.ver[o] = 0
<1> DEFINE F == prog.init["fast"]
           B == prog.init["backing"]
<1>1. Kempt(m2) /\ Occupied(EmptyMem, m2, F, B, "live")
    BY LoadEffect
<1>2. /\ m2.ver = EmptyMem.ver /\ m2.deferred = EmptyMem.deferred
      /\ m2.h2dq = <<>> /\ m2.h2din = Nil /\ m2.d2hq = <<>> /\ m2.d2hin = Nil
      /\ \A o \in Objects : EmptyMem.ver[o] = 0 /\ EmptyMem.deferred[o] = 0
                            /\ EmptyMem.fast[o] = NoSlot /\ EmptyMem.backing[o] = NoSlot
    BY <1>1 DEF Occupied, EmptyMem
<1>3. ASSUME NEW o \in Objects PROVE Accounted(m2, o, 0, prog.plan[0][o], 0)
  <2>1. /\ prog.plan[0][o].fast <=> o \in F
        /\ prog.plan[0][o].back = IF o \in B THEN "current" ELSE "none"
    <3>1. prog.plan[0][o] = [fast |-> o \in F, settled |-> o \in F,
                             back |-> IF o \in B THEN "current" ELSE "none"]
        BY PlansAssumption DEF Coherent
    <3> DEFINE r == prog.plan[0][o]
               x == o \in F
    <3>2. r = [fast |-> x, settled |-> x, back |-> IF o \in B THEN "current" ELSE "none"]
        BY <3>1
    <3> HIDE DEF r, x
    <3>3. r.fast = x /\ r.back = IF o \in B THEN "current" ELSE "none"
        BY ONLY Zenon, <3>2
    <3> QED
        BY <3>3 DEF r, x
  <2>2. AtRest(m2, o)
    <3>1. Nil \notin Objects /\ Range(<<>>) = {}
        BY ProgramsAssumption, SMTT(30) DEF Range
    <3> QED
        BY <1>2, <3>1 DEF AtRest
  <2>3. /\ o \in F => m2.fast[o].st = "live" /\ m2.fast[o].ver = m2.ver[o]
        /\ o \notin F => m2.fast[o].st = "none"
        /\ o \in B => m2.backing[o].st = "live" /\ m2.backing[o].ver = m2.ver[o]
        /\ o \notin B => m2.backing[o].st = "none"
    <3> HIDE DEF F, B
    <3>1. NoSlot.st = "none"
        BY DEF NoSlot
    <3>2. /\ o \in F => m2.fast[o].st = "live" /\ m2.fast[o].ver = EmptyMem.ver[o]
          /\ o \notin F => m2.fast[o] = EmptyMem.fast[o]
          /\ o \in B => m2.backing[o].st = "live" /\ m2.backing[o].ver = EmptyMem.ver[o]
          /\ o \notin B => m2.backing[o] = EmptyMem.backing[o]
        BY <1>1 DEF Occupied
    <3> HIDE DEF EmptyMem
    <3> QED
        BY <1>2, <3>1, <3>2
  <2>4. Backed(m2, o, prog.plan[0][o].back)
      BY <2>1, <2>3 DEF Backed
  <2>5. InFlight(0) = {}
      BY DEF InFlight
  <2>6. CASE o \in F
      BY <2>1, <2>2, <2>3, <2>4, <2>5, <2>6 DEF Accounted, Follows, Present
  <2>7. CASE o \notin F
      BY <2>1, <2>2, <2>3, <2>4, <2>5, <2>7 DEF Accounted, Follows, Absent
  <2> QED
      BY <2>6, <2>7
<1> QED
    BY <1>1, <1>2, <1>3 DEF OnPlan, LanesBusy

-----------------------------------------------------------------------------
(***************************************************************************)
(* The inductive invariant.                                                *)
(***************************************************************************)
Running == pc \notin {"setup", "failing", "end"}

Blank(r) == ~ r.fast /\ r.back = "none"

\* Until the run ends or fails, memory is on plan, holds the versions of sequential
\* execution and the inputs of the task in flight; in ample memory no lane stands idle.
OnTrack(m, t, c, k) ==
    /\ OnPlan(m, t, prog.plan[k], k)
    /\ \A o \in Objects \ CreatedBefore(prog, c) : Blank(prog.plan[k][o])
    /\ \A o \in Objects : m.ver[o] = SequentialVersion(o, k + 1)
    /\ t # 0 => \A o \in prog.inputs[t] : m.fast[o].st = "live"
    /\ Ample => LanesBusy(m)

\* Where the dispatcher can be, and what it has seen there.
Control ==
    /\ outstanding \in {0, cursor - 1}
    /\ pc \in {"inputs", "reserve"} => outstanding = 0
    /\ pc = "drain" => cursor = prog.n + 1
    /\ pc = "reserve" => InputsReady
    /\ pc = "setup" => mem = EmptyMem /\ cursor = 1 /\ outstanding = 0

\* A copy in flight has its source and its destination; a queued one has no fast copy.
Undisturbed(m) ==
    /\ m.h2din # Nil => /\ m.fast[m.h2din].st = "inbound" /\ m.backing[m.h2din].st = "live"
                        /\ m.fast[m.h2din].ver = m.backing[m.h2din].ver
    /\ m.d2hin # Nil => /\ m.fast[m.d2hin].st = "outbound" /\ m.backing[m.d2hin].st = "inbound"
                        /\ m.fast[m.d2hin].ver = m.backing[m.d2hin].ver
    /\ \A i, j \in 1 .. Len(m.h2dq) : m.h2dq[i] = m.h2dq[j] => i = j
    /\ \A i \in 1 .. Len(m.h2dq) : m.fast[m.h2dq[i]].st \notin {"live", "inbound"}

\* How a run may fail.
Honest(e) ==
    /\ e \notin {"misfire", "transfer", "assert", "ledger", "collision", "final"}
    /\ Ample => e \notin {"deadlock", "stuck", "backing_full"}

\* The state a run is left in.
Left ==
    /\ Balanced(mem) /\ Undisturbed(mem) /\ Honest(mem.err) /\ ReadsSequential
    /\ pc = "failing" => Owned(mem)
    /\ PoolReturned

PlanInv ==
    /\ TypeInv /\ Control
    /\ Running => OnTrack(mem, outstanding, cursor, LastRetired)
    /\ pc \in {"failing", "end"} => Left

\* Memory on plan leaves the lanes undisturbed.
LEMMA OnPlanUndisturbed ==
    ASSUME NEW m, NEW t, NEW res, NEW k, OnPlan(m, t, res, k)
    PROVE  Undisturbed(m)
<1>1. /\ m \in MemType /\ m.h2dq \in Seq(Objects) /\ m.h2din \in Objects \cup {Nil}
      /\ m.d2hin \in Objects \cup {Nil} /\ NoRepeats(m.h2dq)
    BY DEF OnPlan, Kempt, MemType
<1>2. \A o \in Objects : Accounted(m, o, t, res[o], k)
    BY DEF OnPlan
<1>3. ASSUME m.h2din # Nil
      PROVE  /\ m.fast[m.h2din].st = "inbound" /\ m.backing[m.h2din].st = "live"
             /\ m.fast[m.h2din].ver = m.backing[m.h2din].ver
  <2> DEFINE o == m.h2din
  <2>1. Accounted(m, o, t, res[o], k)
      BY <1>1, <1>2, <1>3
  <2> QED
      BY <2>1 DEF Accounted, Awaited, Follows, Present, Absent, AtRest, Leaving, Fetching
<1>4. ASSUME m.d2hin # Nil
      PROVE  /\ m.fast[m.d2hin].st = "outbound" /\ m.backing[m.d2hin].st = "inbound"
             /\ m.fast[m.d2hin].ver = m.backing[m.d2hin].ver
  <2> DEFINE o == m.d2hin
  <2>1. Accounted(m, o, t, res[o], k)
      BY <1>1, <1>2, <1>4
  <2> QED
      BY <2>1 DEF Accounted, Awaited, Follows, Present, Absent, AtRest, Leaving, Fetching
<1>5. ASSUME NEW i \in 1 .. Len(m.h2dq) PROVE m.fast[m.h2dq[i]].st \notin {"live", "inbound"}
  <2> DEFINE o == m.h2dq[i]
  <2>1. o \in Objects /\ o \in Range(m.h2dq)
      BY <1>1, SMTT(30) DEF Range
  <2>2. Accounted(m, o, t, res[o], k)
      BY <1>2, <2>1
  <2> HIDE DEF o
  <2>3. m.fast[o].st \notin {"live", "inbound"}
      BY <2>1, <2>2 DEF Accounted, Awaited, Follows, Present, Absent, AtRest, Leaving, Fetching
  <2> QED
      BY <2>3 DEF o
<1> QED
    BY <1>1, <1>3, <1>4, <1>5 DEF Undisturbed, NoRepeats

\* An input of the task in flight is in fast memory, in the version the plan's chain
\* would read.
LEMMA InputsCurrent ==
    ASSUME prog \in Programs, NEW t \in 1 .. prog.n, NEW m, NEW c, OnTrack(m, t, c, t - 1),
           NEW o \in prog.inputs[t]
    PROVE  m.fast[o].st = "live" /\ m.fast[o].ver = SequentialVersion(o, t)
<1>1. o \in Objects /\ o \notin Produced(prog, t)
    BY TaskTypes, TaskFacts
<1>2. /\ m.fast[o].st = "live" /\ m.ver[o] = SequentialVersion(o, (t - 1) + 1)
      /\ Accounted(m, o, t, prog.plan[t - 1][o], t - 1)
    BY <1>1, SMTT(30) DEF OnTrack, OnPlan
<1>3. (t - 1) + 1 = t
    BY SMTT(30)
<1>4. o \notin InFlight(t)
    BY <1>1 DEF InFlight
<1>5. m.fast[o].ver = m.ver[o]
    BY <1>2, <1>4 DEF Accounted, Follows, Present, Absent, Leaving, Fetching
<1> QED
    BY <1>2, <1>3, <1>5

\* With both lanes empty, memory is where the plan says.
LEMMA SettledAtRest ==
    ASSUME NEW m, NEW res, NEW k, OnPlan(m, 0, res, k), m.h2din = Nil, m.d2hin = Nil,
           m.h2dq = <<>>, m.d2hq = <<>>, NEW o \in Objects
    PROVE  /\ Backed(m, o, res[o].back) /\ m.deferred[o] = 0
           /\ res[o].fast => m.fast[o].st = "live" /\ m.fast[o].ver = m.ver[o]
<1>1. Follows(m, o, res[o], k)
    BY DEF OnPlan, Accounted, InFlight
<1>2. Range(<<>>) = {} /\ o # Nil
    BY ProgramsAssumption, SMTT(30) DEF Range
<1>3. ~ Fetching(m, o) /\ ~ Leaving(m, o)
    BY <1>2 DEF Fetching, Leaving
<1> QED
    BY <1>1, <1>3 DEF Follows, Present, Absent, AtRest

\* The chain up to task t mutates o once more if t does.
LEMMA SequentialStep ==
    ASSUME prog \in Programs, NEW t \in 1 .. prog.n, NEW o
    PROVE  SequentialVersion(o, t + 1) = IF o \in prog.mutates[t] THEN SequentialVersion(o, t) + 1
                                         ELSE SequentialVersion(o, t)
<1> DEFINE S == {u \in 1 .. t - 1 : o \in prog.mutates[u]}
           T == {u \in 1 .. t + 1 - 1 : o \in prog.mutates[u]}
<1>1. IsFiniteSet(S) /\ Cardinality(S) \in Nat /\ t \notin S
  <2>1. IsFiniteSet(1 .. t - 1) /\ S \subseteq 1 .. t - 1
      BY FS_Interval, SMTT(30)
  <2> QED
      BY <2>1, FS_Subset, FS_CardinalityType, SMTT(30)
<1>2. SequentialVersion(o, t) = Cardinality(S) /\ SequentialVersion(o, t + 1) = Cardinality(T)
    BY SMTT(30) DEF SequentialVersion
<1>3. CASE o \in prog.mutates[t]
  <2>1. T = S \cup {t}
      BY <1>3, SMTT(30)
  <2>2. Cardinality(S \cup {t}) = Cardinality(S) + 1
      BY <1>1, FS_AddElement
  <2> HIDE DEF S, T
  <2> QED
      BY <1>2, <1>3, <2>1, <2>2
<1>4. CASE o \notin prog.mutates[t]
  <2>1. T = S
      BY <1>4, SMTT(30)
  <2> HIDE DEF S, T
  <2> QED
      BY <1>2, <1>4, <2>1
<1> QED
    BY <1>3, <1>4

\* Before the first task nothing has been mutated.
LEMMA SequentialStart ==
    ASSUME NEW o
    PROVE  SequentialVersion(o, 1) = 0
<1>1. {u \in 1 .. 1 - 1 : o \in prog.mutates[u]} = {}
    BY SMTT(30)
<1> QED
    BY <1>1, FS_EmptySet DEF SequentialVersion

\* What exists before a task, and what it produces, exists before the next one.
LEMMA CreatedGrows ==
    ASSUME prog \in Programs, NEW t \in 1 .. prog.n
    PROVE  /\ CreatedBefore(prog, t) \in SUBSET CreatedBefore(prog, t + 1)
           /\ Produced(prog, t) \in SUBSET CreatedBefore(prog, t + 1)
<1>1. 1 .. t - 1 \subseteq 1 .. t + 1 - 1 /\ t \in 1 .. t + 1 - 1
    BY SMTT(30)
<1> QED
    BY <1>1, SMTT(30) DEF CreatedBefore, Produced

\* A task says nothing of an object that does not exist yet.
LEMMA BlankStep ==
    ASSUME prog \in Programs, NEW t \in 1 .. prog.n, NEW o \in Objects,
           o \notin CreatedBefore(prog, t + 1), Blank(prog.plan[t - 1][o])
    PROVE  Blank(prog.plan[t][o])
<1>1. o \notin CreatedBefore(prog, t)
    BY CreatedGrows
<1>2. o \notin Produced(prog, t)
    BY CreatedGrows
<1>3. /\ o \notin prog.releases[t] \cup Range(prog.offloads[t]) /\ o \notin Range(prog.prefetches[t])
    BY TaskFacts
<1>4. prog.plan[t][o] = Ran(prog, t, o)
  <2>1. CoherentTask(prog, t)
      BY TaskFacts
  <2>2. Retired(prog, t, o) = Ran(prog, t, o)
      BY <1>3, RetiredArms
  <2> QED
      BY <1>3, <2>1, <2>2 DEF CoherentTask, Prefetched
<1> DEFINE r == prog.plan[t - 1][o]
<1>5. Ran(prog, t, o).fast = r.fast
      /\ Ran(prog, t, o).back = IF o \in prog.mutates[t] /\ r.back = "current" THEN "stale" ELSE r.back
    BY <1>2 DEF Ran
<1> QED
    BY <1>4, <1>5 DEF Blank

\* A task retires on track.
LEMMA TaskDoneOnTrack ==
    ASSUME prog \in Programs, NEW t \in 1 .. prog.n, NEW m, OnTrack(m, t, t + 1, t - 1),
           NEW m2, m2 = OnTaskDone(m, t)
    PROVE  OnTrack(m2, 0, t + 1, t)
<1>1. OnPlan(m, t, prog.plan[t - 1], t - 1) /\ \A o \in prog.inputs[t] : m.fast[o].st = "live"
    BY SMTT(30) DEF OnTrack
<1>2. /\ OnPlan(m2, 0, prog.plan[t], t) /\ (Ample => LanesBusy(m2))
      /\ \A o \in Objects : m2.ver[o] = IF o \in prog.mutates[t] THEN m.ver[o] + 1 ELSE m.ver[o]
    BY <1>1, TaskDoneOnPlan, SMTT(30)
<1>3. \A o \in Objects \ CreatedBefore(prog, t + 1) : Blank(prog.plan[t][o])
    BY BlankStep DEF OnTrack
<1>4. ASSUME NEW o \in Objects PROVE m2.ver[o] = SequentialVersion(o, t + 1)
  <2>1. m.ver[o] = SequentialVersion(o, (t - 1) + 1) /\ (t - 1) + 1 = t
      BY SMTT(30) DEF OnTrack
  <2> QED
      BY <1>2, <2>1, SequentialStep
<1> QED
    BY <1>2, <1>3, <1>4 DEF OnTrack

\* A step that keeps to the plan, what is live and the versions keeps on track.
LEMMA KeptOnTrack ==
    ASSUME prog \in Programs, NEW t \in 0 .. prog.n, NEW c, NEW k, NEW m, OnTrack(m, t, c, k),
           NEW m2, OnPlan(m2, t, prog.plan[k], k), LiveKept(m, m2), Ample => LanesBusy(m2)
    PROVE  OnTrack(m2, t, c, k)
<1>1. ASSUME t # 0 PROVE \A o \in prog.inputs[t] : m2.fast[o].st = "live"
  <2>1. t \in 1 .. prog.n
      BY <1>1, ProgramTypes, SMTT(30)
  <2>2. prog.inputs[t] \in SUBSET Objects
      BY <2>1, TaskTypes
  <2> QED
      BY <1>1, <2>2 DEF OnTrack, LiveKept
<1> QED
    BY <1>1 DEF OnTrack, LiveKept

\* In ample memory the dispatcher never waits with nothing in flight.
LEMMA AmpleNeverIdle ==
    ASSUME PlanInv, Ample
    PROVE  ~ StepIdle
<1> SUFFICES ASSUME StepIdle PROVE FALSE
    OBVIOUS
<1>1. /\ prog \in Programs /\ cursor \in 1 .. prog.n /\ pc \in {"inputs", "reserve"}
      /\ outstanding = 0 /\ mem.h2din = Nil /\ mem.d2hin = Nil
    BY ProgramTypes, SMTT(30) DEF PlanInv, TypeInv, TypeOK, StepIdle, Quiescent
<1>2. LastRetired = cursor - 1
    BY <1>1 DEF LastRetired
<1> DEFINE k == cursor - 1
<1>3. OnTrack(mem, 0, cursor, k)
    BY <1>1, <1>2 DEF PlanInv, Running
<1>4. OnPlan(mem, 0, prog.plan[k], k) /\ mem.h2dq = <<>> /\ mem.d2hq = <<>>
    BY <1>1, <1>3 DEF OnTrack, LanesBusy
<1>5. InputsReady
  <2> SUFFICES ASSUME NEW o \in prog.inputs[cursor] PROVE mem.fast[o].st = "live"
      BY DEF InputsReady
  <2>1. o \in Objects /\ prog.plan[k][o].fast
      BY <1>1, TaskTypes, TaskFacts DEF CoherentTask
  <2> HIDE DEF k
  <2> QED
      BY <1>1, <1>4, <2>1, SettledAtRest
<1>6. FastAdmitted
  <2> DEFINE F == prog.out[cursor]["fast"]
  <2>1. F \in SUBSET Objects /\ Kempt(mem)
      BY <1>1, <1>4, TaskTypes DEF OnPlan
  <2>2. F \cap Held(mem.fast) = {}
    <3> SUFFICES ASSUME NEW o \in F PROVE mem.fast[o].st = "none"
        BY DEF Held
    <3>1. o \in Objects /\ o \notin CreatedBefore(prog, cursor)
        BY <1>1, <2>1, TaskFacts DEF Produced
    <3>2. Blank(prog.plan[k][o])
        BY <1>3, <3>1 DEF OnTrack
    <3>3. Follows(mem, o, prog.plan[k][o], k)
        BY <1>4, <3>1 DEF OnPlan, Accounted, InFlight
    <3> QED
        BY <3>2, <3>3 DEF Blank, Follows, Absent
  <2> QED
      BY <1>1, <2>1, <2>2, AmpleRoom DEF FastAdmitted
<1> QED
    BY <1>5, <1>6 DEF StepIdle

-----------------------------------------------------------------------------
(***************************************************************************)
(* The invariant is inductive.  The program never changes, so what is said *)
(* of the next memory under it is what the invariant says after the step.  *)
(***************************************************************************)
\* Bytes of the next state.
LEMMA SameBalance ==
    ASSUME prog' = prog, Balanced(mem')
    PROVE  Balanced(mem)'
<1>1. Bytes(Held(mem.fast))' = Bytes(Held(mem'.fast))
    BY DEF Bytes, Held
<1>2. Bytes(Held(mem.backing))' = Bytes(Held(mem'.backing))
    BY DEF Bytes, Held
<1> QED
    BY <1>1, <1>2 DEF Balanced

\* Being accounted for, in the next state.
LEMMA SameAccount ==
    ASSUME prog' = prog, NEW o \in Objects, NEW k, LastRetired' = k,
           Accounted(mem', o, outstanding', prog.plan[k][o], k)
    PROVE  Accounted(mem, o, outstanding, prog.plan[LastRetired][o], LastRetired)'
<1>1. AtRest(mem, o)' <=> AtRest(mem', o)
    BY DEF AtRest
<1>2. Present(mem, o)' <=> Present(mem', o)
    BY <1>1 DEF Present
<1>3. Absent(mem, o)' <=> Absent(mem', o)
    BY <1>1 DEF Absent
<1>4. Awaited(mem, o, outstanding)' <=> Awaited(mem', o, outstanding')
    BY <1>1 DEF Awaited
<1>5. Fetching(mem, o)' <=> Fetching(mem', o)
    BY DEF Fetching
<1>6. Leaving(mem, o)' <=> Leaving(mem', o)
    BY DEF Leaving
<1>7. Backed(mem, o, prog.plan[LastRetired][o].back)' <=> Backed(mem', o, prog.plan[k][o].back)
    BY DEF Backed
<1>8. UsedFirst(o, LastRetired)' <=> UsedFirst(o, k)
  <2>1. DirectivesOf(o)' = DirectivesOf(o)
      BY DEF DirectivesOf, Tasks
  <2>2. UsesOf(o)' = UsesOf(o)
      BY DEF UsesOf, Tasks
  <2> QED
      BY <2>1, <2>2 DEF UsedFirst
<1>9. InFlight(outstanding)' = InFlight(outstanding')
    BY DEF InFlight, Produced
<1> QED
    BY <1>2, <1>3, <1>4, <1>5, <1>6, <1>7, <1>8, <1>9 DEF Accounted, Follows

\* Ample memory stays ample.
LEMMA SameAmple ==
    ASSUME prog' = prog
    PROVE  Ample' <=> Ample
<1>1. Bytes(Objects)' = Bytes(Objects)
    BY DEF Bytes
<1> QED
    BY <1>1 DEF Ample

\* Being on track, in the next state.
LEMMA SameOnTrack ==
    ASSUME prog' = prog, NEW k, LastRetired' = k, OnTrack(mem', outstanding', cursor', k)
    PROVE  OnTrack(mem, outstanding, cursor, LastRetired)'
<1>1. Kempt(mem)'
  <2>1. Kempt(mem')
      BY DEF OnTrack, OnPlan
  <2>2. Balanced(mem)'
      BY <2>1, SameBalance DEF Kempt
  <2> QED
      BY <2>1, <2>2 DEF Kempt, Owned, NoRepeats
<1>2. ASSUME NEW o \in Objects
      PROVE  Accounted(mem, o, outstanding, prog.plan[LastRetired][o], LastRetired)'
  <2>1. Accounted(mem', o, outstanding', prog.plan[k][o], k)
      BY DEF OnTrack, OnPlan
  <2> QED
      BY <2>1, SameAccount
<1>3. OnPlan(mem, outstanding, prog.plan[LastRetired], LastRetired)'
    BY <1>1, <1>2 DEF OnPlan
<1>4. (\A o \in Objects \ CreatedBefore(prog, cursor) : Blank(prog.plan[LastRetired][o]))'
    BY DEF OnTrack, CreatedBefore, Blank
<1>5. (\A o \in Objects : mem.ver[o] = SequentialVersion(o, LastRetired + 1))'
    BY DEF OnTrack, SequentialVersion
<1>6. (outstanding # 0 => \A o \in prog.inputs[outstanding] : mem.fast[o].st = "live")'
    BY DEF OnTrack
<1>7. (Ample => LanesBusy(mem))'
    BY SameAmple DEF OnTrack, LanesBusy
<1> QED
    BY <1>3, <1>4, <1>5, <1>6, <1>7 DEF OnTrack

\* A handler that keeps on track, and the inputs the dispatcher has seen.
LEMMA InstallOnTrack ==
    ASSUME PlanInv, Running, TypeInv', NEW m, NEW k, Install(m), UNCHANGED <<prog, cursor>>,
           outstanding' \in {0, outstanding}, LastRetired' = k, OnTrack(m, outstanding', cursor, k),
           pc = "reserve" => \A o \in prog.inputs[cursor] : m.fast[o].st = "live"
    PROVE  PlanInv'
<1>1. m.err = "none"
    BY DEF OnTrack, OnPlan, Kempt
<1>2. mem' = m /\ pc' = pc
    BY <1>1 DEF Install
<1>3. OnTrack(mem', outstanding', cursor', k)
    BY <1>2
<1>4. OnTrack(mem, outstanding, cursor, LastRetired)'
    BY <1>3, SameOnTrack
<1>5. Control'
    BY <1>2 DEF PlanInv, Control, InputsReady, Running
<1> QED
    BY <1>2, <1>4, <1>5 DEF PlanInv, Running

\* A run that fails in a state that is on plan.
LEMMA FailOnPlan ==
    ASSUME PlanInv, TypeInv', NEW m, NEW t, NEW res, NEW k, NEW e, OnPlan(m, t, res, k), Honest(e),
           mem' = Raise(m, e), pc' = "failing", prog' = prog, outstanding' \in {0, cursor' - 1},
           ReadsSequential'
    PROVE  PlanInv'
<1>1. Kempt(m) /\ m \in MemType /\ Undisturbed(m)
    BY OnPlanUndisturbed DEF OnPlan, Kempt
<1>2. /\ mem'.fast = m.fast /\ mem'.backing = m.backing /\ mem'.used = m.used
      /\ mem'.held = m.held /\ mem'.h2dq = m.h2dq /\ mem'.h2din = m.h2din
      /\ mem'.d2hin = m.d2hin /\ mem'.err = e
    BY <1>1 DEF Raise, MemType
<1>3. Balanced(mem)'
  <2>1. Balanced(mem')
      BY <1>1, <1>2 DEF Kempt, Balanced
  <2> QED
      BY <2>1, SameBalance
<1>4. Undisturbed(mem)' /\ Owned(mem)'
    BY <1>1, <1>2, SMTT(30) DEF Undisturbed, Owned, Kempt
<1>5. Honest(mem.err)'
    BY <1>2, SameAmple DEF Honest
<1>6. Left'
    BY <1>3, <1>4, <1>5 DEF Left, PoolReturned
<1>7. Control'
    BY DEF Control
<1> QED
    BY <1>6, <1>7 DEF PlanInv, Running

\* A step of the dispatcher that leaves memory and tasks alone.
LEMMA IdleOnTrack ==
    ASSUME PlanInv, Running, TypeInv', UNCHANGED <<prog, cursor, outstanding, mem>>,
           pc' \in {"boundary", "pacing", "inputs", "reserve", "drain"},
           pc' \in {"inputs", "reserve"} => outstanding = 0,
           pc' = "drain" => cursor = prog.n + 1,
           pc' = "reserve" => InputsReady
    PROVE  PlanInv'
<1>1. LastRetired' = LastRetired
    BY DEF LastRetired
<1>2. OnTrack(mem', outstanding', cursor', LastRetired)
    BY DEF PlanInv
<1> DEFINE k == LastRetired
<1>3. OnTrack(mem', outstanding', cursor', k) /\ LastRetired' = k
    BY <1>1, <1>2
<1>4. OnTrack(mem, outstanding, cursor, LastRetired)'
  <2>1. PICK j : j = k
      OBVIOUS
  <2>2. OnTrack(mem', outstanding', cursor', j) /\ LastRetired' = j
      BY <1>3, <2>1
  <2> HIDE DEF k
  <2> QED
      BY <2>2, SameOnTrack
<1>5. Control'
    BY DEF PlanInv, Control, InputsReady
<1> QED
    BY <1>4, <1>5 DEF PlanInv, Running

\* A cancel request, or nothing at all.
LEMMA SamePlanInv ==
    ASSUME PlanInv, TypeInv', UNCHANGED <<prog, pc, cursor, outstanding, mem>>
    PROVE  PlanInv'
<1>1. Control'
    BY DEF PlanInv, Control, InputsReady
<1>2. CASE Running
  <2>1. pc \in {"boundary", "pacing", "inputs", "reserve", "drain"}
      BY <1>2 DEF PlanInv, TypeInv, TypeOK, Running
  <2> QED
      BY <1>2, <2>1, IdleOnTrack DEF PlanInv, Control
<1>3. CASE ~ Running
  <2>1. ASSUME Left PROVE Left'
    <3>1. Balanced(mem)'
        BY <2>1, SameBalance DEF Left
    <3>2. Undisturbed(mem)' /\ (pc = "failing" => Owned(mem))' /\ PoolReturned'
        BY <2>1 DEF Left, Undisturbed, Owned, PoolReturned
    <3>3. Honest(mem.err)'
        BY <2>1, SameAmple DEF Left, Honest
    <3>4. ReadsSequential'
        BY <2>1 DEF Left, ReadsSequential, SequentialVersion
    <3> QED
        BY <3>1, <3>2, <3>3, <3>4 DEF Left
  <2> QED
      BY <1>1, <1>3, <2>1 DEF PlanInv, Running
<1> QED
    BY <1>2, <1>3

\* A run that starts is on plan.
LEMMA LoadStep ==
    ASSUME PlanInv, TypeInv', LoadInitial
    PROVE  PlanInv'
<1>1. /\ prog \in Programs /\ mem = EmptyMem /\ cursor = 1 /\ outstanding = 0 /\ prog' = prog
      /\ cursor' = 1 /\ outstanding' = 0 /\ pc' = "boundary"
      /\ Bytes(prog.init["fast"]) <= prog.cap["fast"] /\ Bytes(prog.init["backing"]) <= prog.cap["backing"]
      /\ mem' = Occupy(EmptyMem, prog.init["fast"], prog.init["backing"], "live")
    BY DEF PlanInv, TypeInv, Control, LoadInitial, Locations
<1>2. /\ OnPlan(mem', 0, prog.plan[0], 0) /\ LanesBusy(mem')
      /\ \A o \in Objects : mem'.ver[o] = 0
    BY <1>1, LoadOnPlan
<1>3. \A o \in Objects \ CreatedBefore(prog, 1) : Blank(prog.plan[0][o])
  <2> SUFFICES ASSUME NEW o \in Objects \ CreatedBefore(prog, 1) PROVE Blank(prog.plan[0][o])
      OBVIOUS
  <2>1. o \notin prog.init["fast"] /\ o \notin prog.init["backing"]
      BY DEF CreatedBefore
  <2> DEFINE r == prog.plan[0][o]
             x == o \in prog.init["fast"]
  <2>2. r = [fast |-> x, settled |-> x, back |-> IF o \in prog.init["backing"] THEN "current" ELSE "none"]
      BY <1>1, PlansAssumption DEF Coherent
  <2> HIDE DEF r, x
  <2>3. r.fast = x /\ r.back = "none"
      BY ONLY SMTT(30), <2>1, <2>2
  <2> QED
      BY <2>1, <2>3 DEF Blank, r, x
<1>4. \A o \in Objects : SequentialVersion(o, 0 + 1) = 0
    BY SequentialStart, SMTT(30)
<1>5. OnTrack(mem', outstanding', cursor', 0)
    BY <1>1, <1>2, <1>3, <1>4 DEF OnTrack
<1>6. LastRetired' = 0
    BY <1>1, SMTT(30) DEF LastRetired
<1>7. OnTrack(mem, outstanding, cursor, LastRetired)'
    BY <1>1, <1>5, <1>6, SameOnTrack
<1>8. Control'
    BY <1>1 DEF Control
<1> QED
    BY <1>1, <1>7, <1>8 DEF PlanInv, Running

\* A run that cannot load its initial objects leaves an exact ledger behind.
LEMMA LoadRaisesStep ==
    ASSUME PlanInv, TypeInv', LoadInitialRaises
    PROVE  PlanInv'
<1>1. /\ prog \in Programs /\ mem = EmptyMem /\ cursor = 1 /\ outstanding = 0 /\ prog' = prog
      /\ cursor' = 1 /\ outstanding' = 0 /\ pc' = "end"
    BY DEF PlanInv, TypeInv, Control, LoadInitialRaises
<1>2. PICK F \in SUBSET prog.init["fast"], B \in SUBSET prog.init["backing"] :
         /\ Bytes(F) <= prog.cap["fast"] /\ Bytes(B) <= prog.cap["backing"]
         /\ mem' = Raise(Occupy(EmptyMem, F, B, "live"), "setup")
    BY <1>1 DEF LoadInitialRaises
<1> DEFINE m == Occupy(EmptyMem, F, B, "live")
<1>3. Kempt(m) /\ Occupied(EmptyMem, m, F, B, "live")
    BY <1>1, <1>2, LoadEffect
<1>4. m.h2dq = <<>> /\ m.h2din = Nil /\ m.d2hin = Nil
    BY <1>3 DEF Occupied, EmptyMem
<1> HIDE DEF m
<1>5. /\ mem'.fast = m.fast /\ mem'.backing = m.backing /\ mem'.used = m.used
      /\ mem'.h2dq = <<>> /\ mem'.h2din = Nil /\ mem'.d2hin = Nil /\ mem'.err = "setup"
    BY <1>2, <1>3, <1>4 DEF Kempt, Raise, MemType, m
<1>6. Balanced(mem)'
  <2>1. Balanced(mem')
      BY <1>3, <1>5 DEF Kempt, Balanced
  <2> QED
      BY <1>1, <2>1, SameBalance
<1>7. Undisturbed(mem)' /\ Honest(mem.err)' /\ ReadsSequential' /\ PoolReturned'
    BY <1>1, <1>5, SMTT(30) DEF Undisturbed, Honest, ReadsSequential, PoolReturned
<1>8. Control'
    BY <1>1 DEF Control
<1> QED
    BY <1>1, <1>6, <1>7, <1>8 DEF PlanInv, Left, Running

\* The state in which the dispatcher has nothing outstanding.
LEMMA AtCursor ==
    ASSUME PlanInv, Running, outstanding = 0
    PROVE  /\ LastRetired = cursor - 1 /\ OnTrack(mem, 0, cursor, cursor - 1)
           /\ OnPlan(mem, 0, prog.plan[cursor - 1], cursor - 1)
           /\ Ample => LanesBusy(mem)
    BY DEF PlanInv, LastRetired, OnTrack

\* A task is launched on track, or fails honestly.
LEMMA LaunchStep ==
    ASSUME PlanInv, TypeInv', Launch
    PROVE  PlanInv'
<1> DEFINE k  == cursor - 1
           m1 == ReserveOutputs(mem, cursor)
           m2 == IF blocked THEN H2DTryStart(m1, FALSE) ELSE m1
<1>1. /\ prog \in Programs /\ cursor \in 1 .. prog.n /\ outstanding = 0 /\ InputsReady /\ Running
      /\ prog' = prog /\ mem \in MemType /\ prog.n \in Nat
      /\ CanReserve(mem, "fast", Bytes(prog.out[cursor]["fast"]))
    BY ProgramTypes, SMTT(30) DEF PlanInv, TypeInv, TypeOK, Control, Launch, Running, FastAdmitted
<1>2. /\ OnTrack(mem, 0, cursor, k) /\ OnPlan(mem, 0, prog.plan[k], k)
      /\ Ample => LanesBusy(mem)
    BY <1>1, AtCursor
<1>3. \A o \in Objects \ CreatedBefore(prog, cursor) :
         ~ prog.plan[k][o].fast /\ prog.plan[k][o].back = "none"
    BY <1>2 DEF OnTrack, Blank
<1>4. \/ /\ OnPlan(m1, cursor, prog.plan[k], k) /\ LiveKept(mem, m1)
         /\ m1.h2dq = mem.h2dq /\ m1.h2din = mem.h2din
         /\ m1.d2hq = mem.d2hq /\ m1.d2hin = mem.d2hin
      \/ m1 = Raise(mem, "backing_full") /\ ~ Ample
  <2> DEFINE res == prog.plan[cursor - 1]
  <2>1. OnPlan(mem, 0, res, cursor - 1)
      BY <1>2
  <2>2. \A o \in Objects \ CreatedBefore(prog, cursor) : ~ res[o].fast /\ res[o].back = "none"
      BY <1>3
  <2> HIDE DEF res
  <2>3. \/ /\ OnPlan(m1, cursor, res, cursor - 1) /\ LiveKept(mem, m1)
           /\ m1.h2dq = mem.h2dq /\ m1.h2din = mem.h2din
           /\ m1.d2hq = mem.d2hq /\ m1.d2hin = mem.d2hin
        \/ m1 = Raise(mem, "backing_full") /\ ~ Ample
      BY ONLY SMTT(30), <1>1, <2>1, <2>2, ReserveOnPlan
  <2> QED
      BY <2>3 DEF res
<1>5. \/ /\ mem' = m2
         /\ pc' = IF m2.err = "none" THEN "boundary" ELSE "failing"
         /\ outstanding' = IF m2.err = "none" THEN cursor ELSE outstanding
         /\ cursor' = IF m2.err = "none" THEN cursor + 1 ELSE cursor
      \/ /\ m2.err = "none" /\ Install(Raise(m2, "task"))
         /\ UNCHANGED <<outstanding, cursor>>
    BY DEF Launch
<1>6. CASE m1 = Raise(mem, "backing_full") /\ ~ Ample
  <2>1. m1.err = "backing_full"
      BY <1>1, <1>6 DEF Raise, MemType
  <2>2. m2 = m1
      BY <2>1 DEF H2DTryStart
  <2>3. mem' = Raise(mem, "backing_full") /\ pc' = "failing" /\ outstanding' = 0 /\ cursor' = cursor
      BY <1>1, <1>5, <1>6, <2>1, <2>2
  <2>4. Honest("backing_full") /\ ReadsSequential'
      BY <1>6, <2>3 DEF Honest, ReadsSequential
  <2> DEFINE res == prog.plan[k]
  <2>5. OnPlan(mem, 0, res, k)
      BY <1>2
  <2> HIDE DEF res, k
  <2> QED
      BY <1>1, <2>3, <2>4, <2>5, FailOnPlan
<1>7. CASE /\ OnPlan(m1, cursor, prog.plan[k], k) /\ LiveKept(mem, m1)
           /\ m1.h2dq = mem.h2dq /\ m1.h2din = mem.h2din
           /\ m1.d2hq = mem.d2hq /\ m1.d2hin = mem.d2hin
  <2> DEFINE res == prog.plan[k]
  <2>1. OnPlan(m1, cursor, res, k)
      BY <1>7
  <2> HIDE DEF m1, res, k
  <2>2. /\ OnPlan(m2, cursor, res, k) /\ LiveKept(m1, m2)
        /\ m2.d2hq = m1.d2hq /\ m2.d2hin = m1.d2hin
        /\ Ample /\ m2.h2din = Nil => m2.h2dq = <<>>
    <3>1. CASE blocked
      <4>1. m2 = H2DTryStart(m1, FALSE)
          BY <3>1
      <4> HIDE DEF m2
      <4> QED
          BY ONLY <1>1, <2>1, <4>1, FALSE \in BOOLEAN, H2DTryStartOnPlan, ZenonT(40)
    <3>2. CASE ~ blocked
        BY <1>2, <1>7, <2>1, <3>2 DEF LiveKept, LanesBusy
    <3> QED
        BY <3>1, <3>2
  <2> HIDE DEF m2
  <2>3. m2.err = "none" /\ m2 \in MemType
      BY <2>2 DEF OnPlan, Kempt
  <2>4. CASE Install(Raise(m2, "task")) /\ UNCHANGED <<outstanding, cursor>>
    <3>1. Raise(m2, "task").err = "task"
        BY <2>3 DEF Raise, MemType
    <3>2. mem' = Raise(m2, "task") /\ pc' = "failing"
        BY <2>4, <3>1 DEF Install
    <3>3. Honest("task") /\ ReadsSequential' /\ outstanding' = 0
        BY <1>1, <2>4 DEF Honest, ReadsSequential
    <3> QED
        BY <1>1, <2>2, <2>4, <3>2, <3>3, FailOnPlan
  <2>5. CASE mem' = m2 /\ pc' = "boundary" /\ outstanding' = cursor /\ cursor' = cursor + 1
    <3>1. LastRetired' = k
        BY SMTT(30), <1>1, <2>5 DEF LastRetired, k
    <3>2. \A o \in Objects \ CreatedBefore(prog, cursor + 1) : Blank(prog.plan[k][o])
      <4>1. CreatedBefore(prog, cursor) \in SUBSET CreatedBefore(prog, cursor + 1)
          BY <1>1, CreatedGrows
      <4> QED
          BY <1>3, <4>1 DEF Blank
    <3>3. \A o \in prog.inputs[cursor] : m2.fast[o].st = "live"
      <4>1. prog.inputs[cursor] \in SUBSET Objects
          BY <1>1, TaskTypes
      <4> QED
          BY <1>1, <1>7, <2>2, <4>1 DEF InputsReady, LiveKept
    <3>4. \A o \in Objects : m2.ver[o] = SequentialVersion(o, k + 1)
        BY <1>2, <1>7, <2>2 DEF OnTrack, LiveKept
    <3>5. Ample => LanesBusy(m2)
        BY <1>2, <1>7, <2>2 DEF LanesBusy
    <3>6. OnTrack(mem', outstanding', cursor', k)
        BY <2>2, <2>5, <3>2, <3>3, <3>4, <3>5 DEF OnTrack, res
    <3>7. OnTrack(mem, outstanding, cursor, LastRetired)'
        BY <1>1, <3>1, <3>6, SameOnTrack
    <3>8. Control'
        BY SMTT(30), <1>1, <2>5 DEF Control
    <3> QED
        BY <2>5, <3>7, <3>8 DEF PlanInv, Running
  <2> QED
      BY <1>5, <2>3, <2>4, <2>5
<1> QED
    BY <1>4, <1>6, <1>7

\* A task in flight reads what sequential execution gives it.
LEMMA RunningReads ==
    ASSUME PlanInv, Running
    PROVE  ReadsSequential
<1> SUFFICES ASSUME outstanding # 0, NEW o \in prog.inputs[outstanding]
             PROVE  /\ mem.fast[o].st = "live"
                    /\ mem.fast[o].ver = SequentialVersion(o, outstanding)
    BY DEF ReadsSequential
<1>1. /\ prog \in Programs /\ outstanding \in 1 .. prog.n /\ LastRetired = outstanding - 1
      /\ OnTrack(mem, outstanding, cursor, LastRetired)
    BY SMTT(30), ProgramTypes DEF PlanInv, TypeInv, TypeOK, LastRetired
<1> QED
    BY <1>1, InputsCurrent

\* A handler that keeps memory on plan and what is live in place.
LEMMA KeptStep ==
    ASSUME PlanInv, Running, TypeInv', NEW m2, Install(m2), UNCHANGED <<prog, cursor, outstanding>>,
           OnPlan(m2, outstanding, prog.plan[LastRetired], LastRetired), LiveKept(mem, m2),
           Ample => LanesBusy(m2)
    PROVE  PlanInv'
<1>1. PICK k : k = LastRetired
    OBVIOUS
<1>2. PICK t : t = outstanding
    OBVIOUS
<1>3. LastRetired' = k /\ t \in 0 .. prog.n /\ prog \in Programs
    BY <1>1, <1>2 DEF LastRetired, PlanInv, TypeInv, TypeOK
<1>4. OnTrack(mem, t, cursor, k) /\ OnPlan(m2, t, prog.plan[k], k)
    BY <1>1, <1>2 DEF PlanInv
<1>5. OnTrack(m2, t, cursor, k)
    BY <1>3, <1>4, KeptOnTrack
<1>6. pc = "reserve" => \A o \in prog.inputs[cursor] : m2.fast[o].st = "live"
  <2> SUFFICES ASSUME pc = "reserve" PROVE \A o \in prog.inputs[cursor] : m2.fast[o].st = "live"
      OBVIOUS
  <2>1. cursor \in 1 .. prog.n /\ InputsReady
      BY SMTT(30), ProgramTypes DEF PlanInv, TypeInv, TypeOK, Control
  <2>2. prog.inputs[cursor] \in SUBSET Objects
      BY <1>3, <2>1, TaskTypes
  <2> QED
      BY <2>1, <2>2 DEF InputsReady, LiveKept
<1>7. OnTrack(m2, outstanding', cursor, k) /\ outstanding' \in {0, outstanding}
    BY <1>2, <1>5
<1> QED
    BY <1>3, <1>6, <1>7, InstallOnTrack

\* The dispatcher takes the completion of its task.
LEMMA TaskDoneStep ==
    ASSUME PlanInv, TypeInv', TakeTaskDone
    PROVE  PlanInv'
<1>1. PICK t : t = outstanding
    OBVIOUS
<1>2. /\ Running /\ pc # "reserve" /\ prog \in Programs /\ t \in 1 .. prog.n /\ cursor = t + 1
      /\ Install(OnTaskDone(mem, t)) /\ outstanding' = 0 /\ UNCHANGED <<prog, cursor>>
    BY SMTT(30), <1>1, ProgramTypes
       DEF PlanInv, TypeInv, TypeOK, Control, TakeTaskDone, Waiting, Running
<1>3. LastRetired = t - 1 /\ LastRetired' = t
    BY SMTT(30), <1>1, <1>2 DEF LastRetired
<1>4. OnTrack(mem, t, t + 1, t - 1)
    BY <1>1, <1>2, <1>3 DEF PlanInv
<1> DEFINE m2 == OnTaskDone(mem, t)
<1>5. OnTrack(m2, 0, t + 1, t)
    BY <1>2, <1>4, TaskDoneOnTrack
<1>6. OnTrack(m2, outstanding', cursor, t) /\ Install(m2)
    BY <1>2, <1>5
<1> HIDE DEF m2
<1> QED
    BY <1>2, <1>3, <1>6, InstallOnTrack

\* The dispatcher takes the completion of a transfer.
LEMMA TransferDoneStep ==
    ASSUME PlanInv, TypeInv', TakeH2DDone \/ TakeD2HDone
    PROVE  PlanInv'
<1> DEFINE res == prog.plan[LastRetired]
           k   == LastRetired
<1>1. PICK m2 : /\ Install(m2)
                /\ \/ mem.h2din # Nil /\ m2 = OnH2DDone(mem)
                   \/ mem.d2hin # Nil /\ m2 = OnD2HDone(mem)
    BY DEF TakeH2DDone, TakeD2HDone
<1>2. /\ Running /\ prog \in Programs /\ UNCHANGED <<prog, cursor, outstanding>>
    BY DEF PlanInv, TypeInv, TakeH2DDone, TakeD2HDone, Waiting, Running
<1>3. OnPlan(mem, outstanding, res, k) /\ (Ample => LanesBusy(mem))
    BY <1>2 DEF PlanInv, OnTrack
<1> HIDE DEF res, k
<1>4. OnPlan(m2, outstanding, res, k) /\ LiveKept(mem, m2) /\ (Ample => LanesBusy(m2))
    BY ONLY <1>1, <1>2, <1>3, TransferDoneOnPlan, ZenonT(40)
<1>5. OnPlan(m2, outstanding, prog.plan[LastRetired], LastRetired)
    BY <1>4 DEF res, k
<1> QED
    BY <1>1, <1>2, <1>4, <1>5, KeptStep

\* The recovery steps of a dispatcher that is stuck for memory.
LEMMA ValveStep ==
    ASSUME PlanInv, TypeInv', PumpH2D \/ EscapeHead \/ EvictForPressure \/ DeclareDeadlock
    PROVE  PlanInv'
<1>1. StepIdle /\ prog \in Programs /\ UNCHANGED <<prog, cursor, outstanding>>
    BY DEF PlanInv, TypeInv, PumpH2D, EscapeHead, EvictForPressure, DeclareDeadlock
<1>2. ~ Ample
    BY <1>1, AmpleNeverIdle
<1>3. Running /\ outstanding = 0
    BY <1>1 DEF StepIdle, Quiescent, Running
<1>4. /\ LastRetired = cursor - 1 /\ OnTrack(mem, 0, cursor, cursor - 1)
      /\ OnPlan(mem, 0, prog.plan[cursor - 1], cursor - 1)
    BY <1>3, AtCursor
<1> DEFINE res == prog.plan[LastRetired]
           k   == LastRetired
<1>5. OnPlan(mem, outstanding, res, k)
    BY <1>3, <1>4
<1>6. CASE PumpH2D
  <2>1. PICK m2 : m2 = Pumped
      OBVIOUS
  <2>2. OnPlan(m2, outstanding, res, k) /\ LiveKept(mem, m2)
    <3> HIDE DEF res, k
    <3>1. CASE pc = "inputs"
      <4>1. m2 = H2DTryStart(mem, FALSE)
          BY <2>1, <3>1 DEF Pumped
      <4> QED
          BY ONLY <1>1, <1>5, <4>1, FALSE \in BOOLEAN, H2DTryStartOnPlan, ZenonT(40)
    <3>2. CASE pc # "inputs"
        BY <1>5, <2>1, <3>2 DEF Pumped, LiveKept
    <3> QED
        BY <3>1, <3>2
  <2>3. Install(m2)
      BY <1>6, <2>1 DEF PumpH2D
  <2> QED
      BY <1>1, <1>2, <1>3, <2>2, <2>3, KeptStep
<1>7. CASE EscapeHead
  <2>1. PICK m2 : m2 = EscapeBlockedHead(mem)
      OBVIOUS
  <2>2. OnPlan(m2, outstanding, res, k) /\ LiveKept(mem, m2)
    <3> HIDE DEF res, k
    <3> QED
        BY ONLY <1>1, <1>5, <2>1, EscapeBlockedHeadOnPlan, ZenonT(40)
  <2>3. Install(m2)
      BY <1>7, <2>1 DEF EscapeHead
  <2> QED
      BY <1>1, <1>2, <1>3, <2>2, <2>3, KeptStep
<1>8. CASE EvictForPressure
  <2>1. PICK o \in Objects : Evictable(o) /\ Install(Evict(mem, o))
      BY <1>8 DEF EvictForPressure, Victims
  <2>2. PICK m2 : m2 = Evict(mem, o)
      OBVIOUS
  <2> DEFINE p == prog.plan[cursor - 1]
  <2>3. OnPlan(mem, 0, p, cursor - 1) /\ TypeInv
      BY <1>4 DEF PlanInv
  <2> HIDE DEF p
  <2>4. /\ OnPlan(m2, 0, p, cursor - 1) /\ m2.ver = mem.ver
        /\ \A q \in Objects \ {o} : m2.fast[q] = mem.fast[q]
      BY ONLY SMTT(30), <2>1, <2>2, <2>3, EvictOnPlan
  <2>5. OnTrack(m2, 0, cursor, cursor - 1)
      BY <1>2, <1>4, <2>4 DEF OnTrack, p
  <2>6. pc = "reserve" => \A q \in prog.inputs[cursor] : m2.fast[q].st = "live"
    <3> SUFFICES ASSUME pc = "reserve" PROVE \A q \in prog.inputs[cursor] : m2.fast[q].st = "live"
        OBVIOUS
    <3>1. cursor \in 1 .. prog.n /\ InputsReady /\ o \notin prog.inputs[cursor]
        BY SMTT(30), <2>1, ProgramTypes DEF PlanInv, TypeInv, TypeOK, Control, Evictable
    <3>2. prog.inputs[cursor] \in SUBSET Objects
        BY <1>1, <3>1, TaskTypes
    <3> QED
        BY <2>4, <3>1, <3>2 DEF InputsReady
  <2>7. PICK j : j = cursor - 1
      OBVIOUS
  <2>8. LastRetired' = j /\ outstanding' = 0
      BY <1>1, <1>3, <2>7 DEF LastRetired
  <2>9. OnTrack(m2, outstanding', cursor, j) /\ Install(m2)
      BY <2>1, <2>2, <2>5, <2>7, <2>8
  <2> QED
      BY <1>1, <1>3, <2>6, <2>8, <2>9, InstallOnTrack
<1>9. CASE DeclareDeadlock
  <2>1. Raise(mem, "deadlock").err = "deadlock"
      BY DEF PlanInv, TypeInv, TypeOK, Raise, MemType
  <2>2. mem' = Raise(mem, "deadlock") /\ pc' = "failing"
      BY <1>9, <2>1 DEF DeclareDeadlock, Install
  <2>3. Honest("deadlock") /\ ReadsSequential' /\ outstanding' = 0
      BY <1>1, <1>2, <1>3 DEF Honest, ReadsSequential
  <2> HIDE DEF res, k
  <2> QED
      BY <1>1, <1>5, <2>2, <2>3, FailOnPlan
<1> QED
    BY <1>6, <1>7, <1>8, <1>9

\* Returning the buffers leaves none behind.
LEMMA ReclaimEffect ==
    ASSUME NEW m \in MemType, Owned(m)
    PROVE  /\ Reclaim(m).held = {} /\ Reclaim(m) \in MemType
           /\ Reclaim(m).fast = m.fast /\ Reclaim(m).backing = m.backing /\ Reclaim(m).used = m.used
           /\ Reclaim(m).h2dq = m.h2dq /\ Reclaim(m).h2din = m.h2din /\ Reclaim(m).d2hin = m.d2hin
           /\ Reclaim(m).err = m.err
<1> DEFINE h == {x \in m.held : m.fast[x[1]].st = "none" \/ m.fast[x[1]].inc # x[2]}
<1>1. h = {}
    BY DEF Owned
<1>2. Reclaim(m) = [m EXCEPT !.held = h]
    BY DEF Reclaim
<1> HIDE DEF h
<1> QED
    BY <1>1, <1>2, ReclaimType DEF MemType

\* A drained run is where its plan ends, and gives every buffer back.
LEMMA FinishStep ==
    ASSUME PlanInv, TypeInv', Finish
    PROVE  PlanInv'
<1>1. /\ Running /\ outstanding = 0 /\ prog \in Programs /\ cursor = prog.n + 1 /\ prog.n \in Nat
      /\ mem \in MemType /\ mem.h2din = Nil /\ mem.d2hin = Nil
      /\ UNCHANGED <<prog, cursor, outstanding>>
    BY ProgramTypes DEF PlanInv, TypeInv, TypeOK, Control, Finish, Quiescent, Running
<1> DEFINE k   == cursor - 1
           res == prog.plan[k]
<1>2. OnPlan(mem, 0, res, k) /\ (Ample => LanesBusy(mem)) /\ k = prog.n
    BY SMTT(30), <1>1, AtCursor
<1>3. ReadsSequential' /\ outstanding' = 0
    BY <1>1 DEF ReadsSequential
<1> HIDE DEF k, res
<1>4. CASE Stuck
  <2>1. ~ Ample
    <3> SUFFICES ASSUME Ample PROVE FALSE
        OBVIOUS
    <3>1. mem.h2dq = <<>> /\ mem.d2hq = <<>>
        BY <1>1, <1>2 DEF LanesBusy
    <3>2. \A o \in Objects : mem.deferred[o] = 0
        BY <1>1, <1>2, <3>1, SettledAtRest
    <3> QED
        BY SMTT(30), <1>4, <3>1, <3>2 DEF Stuck
  <2>2. Raise(mem, "stuck").err = "stuck"
      BY <1>1 DEF Raise, MemType
  <2>3. mem' = Raise(mem, "stuck") /\ pc' = "failing"
      BY <1>4, <2>2 DEF Finish, Install
  <2>4. Honest("stuck")
      BY <2>1 DEF Honest
  <2> QED
      BY <1>1, <1>2, <1>3, <2>3, <2>4, FailOnPlan
<1>5. CASE ~ Stuck
  <2>1. mem.h2dq = <<>> /\ mem.d2hq = <<>>
      BY <1>5 DEF Stuck
  <2>2. \A o \in Objects : /\ Backed(mem, o, res[o].back)
                           /\ res[o].fast => mem.fast[o].st = "live" /\ mem.fast[o].ver = mem.ver[o]
      BY <1>1, <1>2, <2>1, SettledAtRest
  <2>3. FinalLocationsHold
    <3>1. /\ prog.final["fast"] \in SUBSET Objects /\ prog.final["backing"] \in SUBSET Objects
          /\ \A o \in prog.final["fast"] : res[o].fast
          /\ \A o \in prog.final["backing"] : res[o].back = "current"
      <4>1. WellTyped(prog) /\ Coherent(prog)
          BY <1>1, ProgramsAssumption, PlansAssumption DEF ValidProgram
      <4>2. prog.final["fast"] \in SUBSET Objects /\ prog.final["backing"] \in SUBSET Objects
          BY <4>1 DEF WellTyped, Locations
      <4>3. res = prog.plan[prog.n]
          BY <1>2 DEF res
      <4> QED
          BY <4>1, <4>2, <4>3 DEF Coherent
    <3> QED
        BY <2>2, <3>1 DEF FinalLocationsHold, Backed
  <2>4. mem' = Reclaim(mem) /\ pc' = "end"
      BY <1>5, <2>3 DEF Finish
  <2>5. Kempt(mem) /\ Undisturbed(mem)
      BY <1>2, OnPlanUndisturbed DEF OnPlan
  <2>6. /\ mem'.held = {} /\ mem'.fast = mem.fast /\ mem'.backing = mem.backing
        /\ mem'.used = mem.used /\ mem'.h2dq = mem.h2dq /\ mem'.h2din = mem.h2din
        /\ mem'.d2hin = mem.d2hin /\ mem'.err = "none"
      BY <1>1, <2>4, <2>5, ReclaimEffect DEF Kempt
  <2>7. Balanced(mem)'
    <3>1. Balanced(mem')
        BY <2>5, <2>6 DEF Kempt, Balanced
    <3> QED
        BY <1>1, <3>1, SameBalance
  <2>8. Undisturbed(mem)' /\ Honest(mem.err)' /\ PoolReturned'
      BY <2>5, <2>6 DEF Undisturbed, Honest, PoolReturned
  <2>9. Control'
      BY <1>1, <2>4 DEF Control
  <2> QED
      BY <1>3, <2>4, <2>7, <2>8, <2>9 DEF PlanInv, Left, Running
<1> QED
    BY <1>4, <1>5

\* So does a run that fails, whatever was in flight.
LEMMA FinishFailedStep ==
    ASSUME PlanInv, TypeInv', FinishFailed
    PROVE  PlanInv'
<1>1. /\ Left /\ Owned(mem) /\ mem \in MemType /\ prog' = prog /\ cursor' = cursor
      /\ outstanding' = 0 /\ pc' = "end"
      /\ mem' = [Reclaim(mem) EXCEPT !.h2din = Nil, !.d2hin = Nil]
    BY DEF PlanInv, TypeInv, TypeOK, Left, FinishFailed
<1> DEFINE r == Reclaim(mem)
<1>2. /\ r.held = {} /\ r \in MemType
      /\ r.fast = mem.fast /\ r.backing = mem.backing /\ r.used = mem.used
      /\ r.h2dq = mem.h2dq /\ r.err = mem.err
    BY <1>1, ReclaimEffect
<1> HIDE DEF r
<1>3. mem' = [r EXCEPT !.h2din = Nil, !.d2hin = Nil]
    BY <1>1 DEF r
<1>4. /\ mem'.held = {} /\ mem'.fast = mem.fast /\ mem'.backing = mem.backing
      /\ mem'.used = mem.used /\ mem'.h2dq = mem.h2dq /\ mem'.h2din = Nil /\ mem'.d2hin = Nil
      /\ mem'.err = mem.err
    BY <1>2, <1>3 DEF MemType
<1>5. Balanced(mem)'
  <2>1. Balanced(mem')
      BY <1>1, <1>4 DEF Left, Balanced
  <2> QED
      BY <1>1, <2>1, SameBalance
<1>6. Undisturbed(mem)' /\ PoolReturned' /\ ReadsSequential'
    BY SMTT(30), <1>1, <1>4 DEF Left, Undisturbed, PoolReturned, ReadsSequential
<1>7. Honest(mem.err)'
    BY <1>1, <1>4, SameAmple DEF Left, Honest
<1>8. Control'
    BY <1>1 DEF Control
<1> QED
    BY <1>1, <1>5, <1>6, <1>7, <1>8 DEF PlanInv, Left, Running

\* A cancelled run fails at the boundary between two tasks.
LEMMA BeginTaskStep ==
    ASSUME PlanInv, TypeInv', BeginTask
    PROVE  PlanInv'
<1>1. /\ Running /\ prog \in Programs /\ mem \in MemType /\ pc = "boundary"
      /\ UNCHANGED <<prog, cursor, outstanding>>
    BY DEF PlanInv, TypeInv, TypeOK, BeginTask, Running
<1>2. CASE cancel
  <2>1. /\ Raise(mem, "cancelled").err = "cancelled"
        /\ Raise(mem, "cancelled").fast = mem.fast
      BY <1>1 DEF Raise, MemType
  <2>2. mem' = Raise(mem, "cancelled") /\ pc' = "failing"
      BY <1>2, <2>1 DEF BeginTask, Install
  <2>3. Honest("cancelled")
      BY DEF Honest
  <2>4. ReadsSequential'
    <3>1. ReadsSequential
        BY <1>1, RunningReads
    <3>2. mem'.fast = mem.fast
        BY <2>1, <2>2
    <3> QED
        BY <1>1, <3>1, <3>2 DEF ReadsSequential, SequentialVersion
  <2> DEFINE k   == LastRetired
             res == prog.plan[k]
  <2>5. OnPlan(mem, outstanding, res, k) /\ outstanding' \in {0, cursor' - 1}
      BY <1>1 DEF PlanInv, OnTrack, Control
  <2> HIDE DEF k, res
  <2> QED
      BY <1>1, <2>2, <2>3, <2>4, <2>5, FailOnPlan
<1>3. CASE ~ cancel
  <2>1. mem' = mem /\ pc' = "pacing"
      BY <1>3 DEF BeginTask
  <2> QED
      BY <1>1, <2>1, IdleOnTrack
<1> QED
    BY <1>2, <1>3

\* A run starts with nothing held, before its set-up.
LEMMA PlanInit == Init => PlanInv
<1> SUFFICES ASSUME Init PROVE PlanInv
    OBVIOUS
<1>1. TypeInv
    BY TypeInit
<1>2. Control
    BY DEF Init, Control
<1> QED
    BY <1>1, <1>2 DEF Init, PlanInv, Running

\* Every step keeps the invariant.
LEMMA PlanNext == PlanInv /\ [Next]_vars => PlanInv'
<1> SUFFICES ASSUME PlanInv, [Next]_vars PROVE PlanInv'
    OBVIOUS
<1>1. TypeInv'
    BY TypeNext DEF PlanInv
<1>2. CASE LoadInitial
    BY <1>1, <1>2, LoadStep
<1>3. CASE LoadInitialRaises
    BY <1>1, <1>3, LoadRaisesStep
<1>4. CASE BeginTask
    BY <1>1, <1>4, BeginTaskStep
<1>5. CASE Paced
    BY <1>1, <1>5, IdleOnTrack DEF Paced, Running
<1>6. CASE InputsObserved
  <2>1. outstanding = 0
      BY <1>6 DEF InputsObserved, PlanInv, Control
  <2> QED
      BY <1>1, <1>6, <2>1, IdleOnTrack DEF InputsObserved, Running
<1>7. CASE Launch
    BY <1>1, <1>7, LaunchStep
<1>8. CASE TakeTaskDone
    BY <1>1, <1>8, TaskDoneStep
<1>9. CASE TakeH2DDone \/ TakeD2HDone
    BY <1>1, <1>9, TransferDoneStep
<1>10. CASE EscapeOutputs
  <2>1. outstanding = 0 /\ InputsReady
      BY <1>10 DEF EscapeOutputs, PlanInv, Control
  <2> QED
      BY <1>1, <1>10, <2>1, IdleOnTrack DEF EscapeOutputs, Running
<1>11. CASE PumpH2D \/ EscapeHead \/ EvictForPressure \/ DeclareDeadlock
    BY <1>1, <1>11, ValveStep
<1>12. CASE BeginDrain
  <2>1. cursor = prog.n + 1
    <3>1. prog \in Programs
        BY DEF PlanInv, TypeInv
    <3>2. prog.n \in Nat
        BY <3>1, ProgramTypes
    <3>3. cursor \in 1 .. prog.n + 1
        BY DEF PlanInv, TypeInv, TypeOK
    <3>4. cursor > prog.n
        BY <1>12 DEF BeginDrain
    <3>5. \A n \in Nat : \A c \in 1 .. n + 1 : c > n => c = n + 1
        BY SMTT(30)
    <3> QED
        BY <3>2, <3>3, <3>4, <3>5
  <2> QED
      BY <1>1, <1>12, <2>1, IdleOnTrack DEF BeginDrain, Running
<1>13. CASE Finish
    BY <1>1, <1>13, FinishStep
<1>14. CASE FinishFailed
    BY <1>1, <1>14, FinishFailedStep
<1>15. CASE RequestCancel
    BY <1>1, <1>15, SamePlanInv DEF RequestCancel
<1>16. CASE UNCHANGED vars
    BY <1>1, <1>16, SamePlanInv DEF vars
<1> QED
    BY <1>2, <1>3, <1>4, <1>5, <1>6, <1>7, <1>8, <1>9, <1>10, <1>11, <1>12, <1>13, <1>14,
       <1>15, <1>16 DEF Next, Dispatch

\* The invariant implies the properties: of a state before the set-up, of one on track, and
\* of one that a run is left in.
LEMMA PlanInvSafe ==
    ASSUME PlanInv
    PROVE  /\ Balanced(mem) /\ Undisturbed(mem) /\ Honest(mem.err) /\ ReadsSequential
           /\ PoolReturned
<1>1. CASE pc = "setup"
  <2>1. mem = EmptyMem /\ outstanding = 0 /\ prog \in Programs
      BY <1>1 DEF PlanInv, Control, TypeInv
  <2>2. Balanced(mem)
      BY <2>1, EmptyKempt DEF Kempt
  <2>3. mem.h2dq = <<>> /\ mem.h2din = Nil /\ mem.d2hin = Nil /\ mem.err = "none"
      BY <2>1 DEF EmptyMem
  <2> QED
      BY SMTT(30), <1>1, <2>1, <2>2, <2>3 DEF Undisturbed, Honest, ReadsSequential, PoolReturned
<1>2. CASE Running
  <2> DEFINE k   == LastRetired
             res == prog.plan[k]
  <2>1. OnPlan(mem, outstanding, res, k)
      BY <1>2 DEF PlanInv, OnTrack
  <2> HIDE DEF k, res
  <2>2. Undisturbed(mem)
      BY <2>1, OnPlanUndisturbed
  <2>3. Balanced(mem) /\ mem.err = "none"
      BY <2>1 DEF OnPlan, Kempt
  <2> QED
      BY <1>2, <2>2, <2>3, RunningReads DEF Honest, PoolReturned, Running
<1>3. CASE pc \in {"failing", "end"}
    BY <1>3 DEF PlanInv, Left
<1> QED
    BY <1>1, <1>2, <1>3 DEF Running

-----------------------------------------------------------------------------
(***************************************************************************)
(* What holds of every run of every set of coherent programs.              *)
(***************************************************************************)
\* The ledger is exact and within capacity in every state of every run: no handler of
\* the engine or of the transfer lanes forgets a charge or a release (ledger.py).
THEOREM LedgerIsExact == Spec => []LedgerExact
<1>1. PlanInv => LedgerExact
    BY PlanInvSafe DEF LedgerExact, Balanced
<1> QED
    BY <1>1, PlanInit, PlanNext, PTL DEF Spec

\* No completion order makes a directive of a coherent plan misfire, a lane lose its
\* source, an assertion fail or a final location go unmet (_on_task_done, try_start,
\* complete, _final_location_violations).
THEOREM PlansNeverMisfire == Spec => []NoMisfire
<1>1. PlanInv => NoMisfire
    BY PlanInvSafe DEF NoMisfire, Honest
<1> QED
    BY <1>1, PlanInit, PlanNext, PTL DEF Spec

\* From launch to retirement a task's inputs stay live and hold what the chain, run one
\* task at a time, would give it (run_dispatch, _evict_for_pressure, the lanes).
THEOREM TasksReadSequentially == Spec => []ReadsSequential
<1>1. PlanInv => ReadsSequential
    BY PlanInvSafe
<1> QED
    BY <1>1, PlanInit, PlanNext, PTL DEF Spec

\* The lanes leave each other's copies alone and fetch nothing that is there already
\* (try_start and complete of the two lanes, _on_transfer_done).
THEOREM LanesStayApart == Spec => []LanesUndisturbed
<1>1. PlanInv => LanesUndisturbed
    BY PlanInvSafe DEF LanesUndisturbed, Undisturbed
<1> QED
    BY <1>1, PlanInit, PlanNext, PTL DEF Spec

\* However a run ends that got past its set-up, every buffer goes back to the pool
\* (RunScope.reclaim).
THEOREM BuffersReturn == Spec => []PoolReturned
<1>1. PlanInv => PoolReturned
    BY PlanInvSafe
<1> QED
    BY <1>1, PlanInit, PlanNext, PTL DEF Spec

\* With memory for every object at once no completion order deadlocks the dispatcher or
\* leaves a transfer queued (run_dispatch, the deadlock report, the drain).
THEOREM AmpleNeverDeadlocks == Spec => []AmpleMemorySuffices
<1>1. PlanInv => AmpleMemorySuffices
    BY PlanInvSafe DEF AmpleMemorySuffices, Honest, Ample
<1> QED
    BY <1>1, PlanInit, PlanNext, PTL DEF Spec

=============================================================================
