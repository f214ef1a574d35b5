------------------------------- MODULE Engine -------------------------------
(***************************************************************************)
(* The dataflow engine: one control thread (the dispatcher) walks a chain  *)
(* of tasks whose operands live in a small fast memory, while two FIFO     *)
(* transfer lanes move objects between fast and backing memory.            *)
(*                                                                         *)
(* Compute and the two lanes run asynchronously; the dispatcher learns of  *)
(* their progress only by taking completion tokens, and the device may     *)
(* complete outstanding work in any order, so the order in which tokens    *)
(* are taken is nondeterministic here.  Everything between two tokens is   *)
(* one thread's straight-line code, modelled by operators on the record    *)
(* `mem' (object table, ledger, pool and lanes) that actions compose in    *)
(* the order the handlers call them.                                       *)
(***************************************************************************)
EXTENDS Integers, Sequences, FiniteSets, Functions

CONSTANTS
    Objects,   \* the object ids a program may mention
    Nil,       \* "no transfer in flight"
    Programs   \* the annotated programs the engine may be asked to execute

VARIABLES
    prog,         \* the program under execution
    pc,           \* where the dispatcher is in its loop
    cursor,       \* position of the task being dispatched (state.cursor)
    outstanding,  \* the launched, unretired task, 0 if there is none
    mem,          \* object table, ledger, pool and transfer lanes
    blocked,      \* was_reserve_blocked of the current task
    escaped,      \* escaped_outputs of the current task
    evictions,    \* state.pressure_evictions
    cancel        \* the service's cancel_event

vars == <<prog, pc, cursor, outstanding, mem, blocked, escaped, evictions, cancel>>

-----------------------------------------------------------------------------
(***************************************************************************)
(* Programs.  Capacities are numbers: an unbounded location (None in the   *)
(* code) is a capacity no program can reach.  `clash' is a placement: the  *)
(* pairs of fast instances <<object, incarnation>> whose assigned offset   *)
(* ranges overlap; it is empty in dynamic mode.                            *)
(***************************************************************************)
Locations == {"fast", "backing"}

Tasks(p) == 1 .. p.n

NoRepeats(s) == \A i, j \in 1 .. Len(s) : s[i] = s[j] => i = j

\* Objects in existence when task t of p is dispatched.
CreatedBefore(p, t) ==
    p.init["fast"] \cup p.init["backing"]
      \cup UNION {p.out[u]["fast"] \cup p.out[u]["backing"] : u \in 1 .. t - 1}

WellTyped(p) ==
    /\ p.n \in Nat \ {0}
    /\ p.size \in [Objects -> Nat \ {0}]
    /\ p.cap \in [Locations -> Nat]
    /\ p.init \in [Locations -> SUBSET Objects]
    /\ p.final \in [Locations -> SUBSET Objects]
    /\ p.inputs \in [Tasks(p) -> SUBSET Objects]
    /\ p.mutates \in [Tasks(p) -> SUBSET Objects]
    /\ p.out \in [Tasks(p) -> [Locations -> SUBSET Objects]]
    /\ p.releases \in [Tasks(p) -> SUBSET Objects]
    /\ p.offloads \in [Tasks(p) -> Seq(Objects)]
    /\ p.prefetches \in [Tasks(p) -> Seq(Objects)]
    /\ p.clash \subseteq (Objects \X Nat) \X (Objects \X Nat)

\* validate_program: structure only, never the state a directive will meet.
ValidProgram(p) ==
    /\ WellTyped(p)
    /\ p.final["fast"] \cap p.final["backing"] = {}
    /\ \A t \in Tasks(p) :
         LET before == CreatedBefore(p, t)
             known  == CreatedBefore(p, t + 1)
         IN  /\ p.inputs[t] \subseteq before
             /\ p.mutates[t] \subseteq p.inputs[t]
             /\ (p.out[t]["fast"] \cup p.out[t]["backing"]) \cap before = {}
             /\ p.out[t]["fast"] \cap p.out[t]["backing"] = {}
             /\ NoRepeats(p.offloads[t]) /\ NoRepeats(p.prefetches[t])
             /\ p.releases[t] \cup Range(p.offloads[t]) \cup Range(p.prefetches[t])
                  \subseteq known
             /\ p.releases[t] \cap (Range(p.offloads[t]) \cup Range(p.prefetches[t])) = {}

ASSUME ProgramsAssumption ==
    /\ IsFiniteSet(Objects)
    /\ Nil \notin Objects
    /\ \A p \in Programs : ValidProgram(p)

\* ChainIndex: positions of an object's uses, of its directives, and its last
\* reference (a release is not a reference).
UsesOf(o) == {t \in Tasks(prog) : o \in prog.inputs[t]}

DirectivesOf(o) ==
    {t \in Tasks(prog) : o \in prog.releases[t] \cup Range(prog.offloads[t])
                                  \cup Range(prog.prefetches[t])}

ReferencedAfter(o, t) ==
    \E u \in Tasks(prog) :
        /\ u > t
        /\ o \in prog.inputs[u] \cup Range(prog.offloads[u]) \cup Range(prog.prefetches[u])

-----------------------------------------------------------------------------
(***************************************************************************)
(* Ledger.  Bytes(R) is the total size of the objects in R.                *)
(***************************************************************************)
Bytes(R) == Cardinality(UNION {{o} \X (1 .. prog.size[o]) : o \in R})

Raise(m, e) == [m EXCEPT !.err = e]

CanReserve(m, loc, n) == n = 0 \/ m.used[loc] + n <= prog.cap[loc]

Charge(m, loc, n) ==
    IF CanReserve(m, loc, n) THEN [m EXCEPT !.used[loc] = @ + n] ELSE Raise(m, "ledger")

Release(m, loc, n) ==
    IF n <= m.used[loc] THEN [m EXCEPT !.used[loc] = @ - n] ELSE Raise(m, "ledger")

(***************************************************************************)
(* Pool.  Every fast buffer is an instance <<o, i, dynamic>> of its tag;   *)
(* `held' is the set of instances handed out and not put back.  In         *)
(* assigned mode an instance is refused while one whose range overlaps is  *)
(* held at its assigned offset; a dynamic instance occupies no offset.     *)
(***************************************************************************)
CanGet(m, o) ==
    \A h \in m.held : \/ h[3]
                      \/ <<<<o, m.inc[o]>>, <<h[1], h[2]>>>> \notin prog.clash

Get(m, o, dynamic) ==
    [m EXCEPT !.held = @ \cup {<<o, m.inc[o], dynamic>>}, !.inc[o] = @ + 1]

(***************************************************************************)
(* Object table: one slot per object and location.                         *)
(***************************************************************************)
SlotStates == {"none", "reserved", "live", "pending_outbound", "outbound", "inbound"}

NoSlot == [st |-> "none", ver |-> 0, inc |-> 0]

Held(slots) == {o \in Objects : slots[o].st # "none"}

\* Free the fast slots of the objects in R: ledger, pool and table.
DropFast(m, R) ==
    [Release(m, "fast", Bytes(R)) EXCEPT
        !.held = {h \in @ : ~ (h[1] \in R /\ h[2] = m.fast[h[1]].inc)},
        !.fast = [o \in Objects |-> IF o \in R THEN NoSlot ELSE @[o]]]

-----------------------------------------------------------------------------
(***************************************************************************)
(* Transfer lanes: FIFO, one transfer in flight each, destination bytes    *)
(* charged at start.  h2d is from_slow (prefetch), d2h is to_slow          *)
(* (offload).                                                              *)
(***************************************************************************)
StartH2D(m, o, dynamic) ==
    [Get(Charge(m, "fast", prog.size[o]), o, dynamic) EXCEPT
        !.h2dq = Tail(@), !.h2din = o,
        !.fast[o] = [st |-> "inbound", ver |-> m.backing[o].ver, inc |-> m.inc[o]]]

\* Fault: an escaped destination still takes its assigned offset.
H2DTryStartAtOffset(m, escape) ==
    LET o == Head(m.h2dq) IN
    IF m.err # "none" \/ m.h2din # Nil \/ m.h2dq = <<>> THEN m
    ELSE IF m.backing[o].st = "none" THEN Raise(m, "transfer")
    ELSE IF CanReserve(m, "fast", prog.size[o]) /\ (CanGet(m, o) \/ escape)
         THEN StartH2D(m, o, FALSE)
         ELSE m

H2DTryStart(m, escape) ==
    LET o == Head(m.h2dq) IN
    IF m.err # "none" \/ m.h2din # Nil \/ m.h2dq = <<>> THEN m
    ELSE IF m.backing[o].st = "none" THEN Raise(m, "transfer")
    ELSE IF CanReserve(m, "fast", prog.size[o]) /\ (CanGet(m, o) \/ escape)
         THEN StartH2D(m, o, ~ CanGet(m, o))
         ELSE m

EscapeBlockedHead(m) ==
    LET o == Head(m.h2dq) IN
    IF /\ m.h2dq # <<>> /\ m.h2din = Nil
       /\ CanReserve(m, "fast", prog.size[o]) /\ ~ CanGet(m, o)
    THEN H2DTryStart(m, TRUE)
    ELSE m

StartD2H(m, o) ==
    LET need == IF m.backing[o].st = "none" THEN prog.size[o] ELSE 0 IN
    [Charge(m, "backing", need) EXCEPT
        !.d2hq = Tail(@), !.d2hin = o,
        !.backing[o] = [NoSlot EXCEPT !.st = "inbound", !.ver = m.fast[o].ver],
        !.fast[o].st = "outbound"]

D2HTryStart(m) ==
    LET o    == Head(m.d2hq)
        need == IF m.backing[o].st = "none" THEN prog.size[o] ELSE 0
    IN  IF m.err # "none" \/ m.d2hin # Nil \/ m.d2hq = <<>> THEN m
        ELSE IF m.fast[o].st = "none" THEN Raise(m, "transfer")
        ELSE IF CanReserve(m, "backing", need) THEN StartD2H(m, o)
        ELSE m

CompleteH2D(m) ==
    LET o == m.h2din IN
    IF m.fast[o].st = "none" THEN Raise(m, "assert")
    ELSE [m EXCEPT !.fast[o].st = "live", !.h2din = Nil]

CompleteD2H(m) ==
    LET o == m.d2hin IN
    IF m.fast[o].st # "outbound" \/ m.backing[o].st = "none" THEN Raise(m, "assert")
    ELSE [DropFast(m, {o}) EXCEPT !.backing[o].st = "live", !.d2hin = Nil]

OnH2DDone(m) == H2DTryStart(CompleteH2D(m), FALSE)

\* A finished offload activates the prefetches deferred on it.
ActivateDeferred(m, o) ==
    IF m.err # "none" THEN m
    ELSE [m EXCEPT !.h2dq = @ \o [i \in 1 .. m.deferred[o] |-> o], !.deferred[o] = 0]

OnD2HDone(m) ==
    H2DTryStart(D2HTryStart(ActivateDeferred(CompleteD2H(m), m.d2hin)), FALSE)

-----------------------------------------------------------------------------
(***************************************************************************)
(* Task end: outputs live, versions bumped, then the directives.  A raise  *)
(* ends the run, so the stages after it see err # "none" and do nothing;   *)
(* what the raising loop did for earlier objects is not kept, as the       *)
(* cleanup that follows reclaims the same buffers either way.              *)
(***************************************************************************)
OutputsLive(m, t) ==
    LET outF == prog.out[t]["fast"]
        outB == prog.out[t]["backing"]
    IN  IF \E o \in outF : m.fast[o].st # "reserved" THEN Raise(m, "assert")
        ELSE IF \E o \in outB : m.backing[o].st # "reserved" THEN Raise(m, "assert")
        ELSE [m EXCEPT
                !.fast = [o \in Objects |->
                            IF o \in outF THEN [@[o] EXCEPT !.st = "live"] ELSE @[o]],
                !.backing = [o \in Objects |->
                            IF o \in outB THEN [@[o] EXCEPT !.st = "live"] ELSE @[o]]]

Mutate(m, t) ==
    IF m.err # "none" THEN m
    ELSE IF \E o \in prog.mutates[t] : m.fast[o].st = "none" THEN Raise(m, "assert")
    ELSE [m EXCEPT
            !.ver = [o \in Objects |-> IF o \in prog.mutates[t] THEN @[o] + 1 ELSE @[o]],
            !.fast = [o \in Objects |-> IF o \in prog.mutates[t]
                                        THEN [@[o] EXCEPT !.ver = m.ver[o] + 1]
                                        ELSE @[o]]]

\* No later reference and no terminal placement: the backing copy frees too.
DeadEverywhere(m, o, t) ==
    /\ ~ ReferencedAfter(o, t)
    /\ o \notin prog.final["fast"] \cup prog.final["backing"]
    /\ m.backing[o].st = "live"

ReleaseDirectives(m, t) ==
    LET R    == prog.releases[t]
        dead == {o \in R : DeadEverywhere(m, o, t)}
    IN  IF m.err # "none" THEN m
        ELSE IF \E o \in R : m.fast[o].st # "live" THEN Raise(m, "misfire")
        ELSE [Release(DropFast(m, R), "backing", Bytes(dead)) EXCEPT
                !.backing = [o \in Objects |-> IF o \in dead THEN NoSlot ELSE @[o]]]

OffloadDirectives(m, t) ==
    LET R == Range(prog.offloads[t]) IN
    IF m.err # "none" THEN m
    ELSE IF \E o \in R : \/ m.fast[o].st # "live"
                         \/ m.backing[o].st \notin {"none", "live"}
    THEN Raise(m, "misfire")
    ELSE [m EXCEPT
            !.fast = [o \in Objects |->
                        IF o \in R THEN [@[o] EXCEPT !.st = "pending_outbound"] ELSE @[o]],
            !.d2hq = @ \o prog.offloads[t]]

\* Fault: an offload that is queued but not started does not defer a prefetch.
OffloadStarted(m, o) == m.fast[o].st = "outbound" \/ m.backing[o].st = "inbound"

OffloadInFlight(m, o) ==
    \/ m.fast[o].st \in {"pending_outbound", "outbound"}
    \/ m.backing[o].st = "inbound"

\* The members of s that belong to S, in their order in s.
Pick(s, S) ==
    LET f[i \in 0 .. Len(s)] ==
            IF i = 0 THEN <<>>
            ELSE IF s[i] \in S THEN Append(f[i - 1], s[i]) ELSE f[i - 1]
    IN  f[Len(s)]

PrefetchDirectives(m, t) ==
    LET R == Range(prog.prefetches[t]) IN
    IF m.err # "none" THEN m
    ELSE IF \E o \in R : \/ m.fast[o].st \in {"live", "inbound"}
                         \/ ~ OffloadInFlight(m, o) /\ m.backing[o].st # "live"
    THEN Raise(m, "misfire")
    ELSE [m EXCEPT
            !.deferred = [o \in Objects |->
                            IF o \in R /\ OffloadInFlight(m, o) THEN @[o] + 1 ELSE @[o]],
            !.h2dq = @ \o Pick(prog.prefetches[t], {o \in R : ~ OffloadInFlight(m, o)})]

\* Fault: the to_slow lane is not poked at task end.
OnTaskDoneNoPoke(m, t) ==
    LET m1 == ReleaseDirectives(Mutate(OutputsLive(m, t), t), t)
        m2 == PrefetchDirectives(OffloadDirectives(m1, t), t)
    IN  H2DTryStart(m2, FALSE)

OnTaskDone(m, t) ==
    LET m1 == ReleaseDirectives(Mutate(OutputsLive(m, t), t), t)
        m2 == PrefetchDirectives(OffloadDirectives(m1, t), t)
    IN  D2HTryStart(H2DTryStart(m2, FALSE))

-----------------------------------------------------------------------------
(***************************************************************************)
(* The eviction valve.                                                     *)
(***************************************************************************)
NextUse(o) == CHOOSE t \in UsesOf(o) :
                 t >= cursor /\ \A u \in UsesOf(o) : u >= cursor => t <= u

\* Fault: directives that fire before the next use are not looked at.
EvictableIgnoringPlan(o) ==
    /\ o \notin prog.inputs[cursor]
    /\ mem.fast[o].st = "live" /\ mem.backing[o].st = "live"
    /\ mem.fast[o].ver = mem.ver[o] /\ mem.backing[o].ver = mem.ver[o]
    /\ \E t \in UsesOf(o) : t >= cursor

Evictable(o) ==
    /\ o \notin prog.inputs[cursor]
    /\ mem.fast[o].st = "live" /\ mem.backing[o].st = "live"
    /\ mem.fast[o].ver = mem.ver[o] /\ mem.backing[o].ver = mem.ver[o]
    /\ \E t \in UsesOf(o) : t >= cursor
    /\ DirectivesOf(o) \cap (cursor .. NextUse(o) - 1) = {}

EvictBefore(o, q) ==
    \/ NextUse(o) > NextUse(q)
    \/ NextUse(o) = NextUse(q) /\ prog.size[o] >= prog.size[q]

\* Farthest next use, then largest; table order breaks the remaining ties.
Victims == {o \in Objects : Evictable(o) /\ \A q \in Objects : Evictable(q) => EvictBefore(o, q)}

ThrashLimit == 10 * prog.n

\* Fault: the slot is dropped without telling the ledger.
EvictUncounted(m, o) ==
    [m EXCEPT !.fast[o] = NoSlot, !.h2dq = Append(@, o)]

Evict(m, o) == [DropFast(m, {o}) EXCEPT !.h2dq = Append(@, o)]

-----------------------------------------------------------------------------
(***************************************************************************)
(* Set-up and reservation of a task's outputs.                             *)
(***************************************************************************)
EmptyMem ==
    [fast |-> [o \in Objects |-> NoSlot], backing |-> [o \in Objects |-> NoSlot],
     ver |-> [o \in Objects |-> 0], used |-> [l \in Locations |-> 0],
     held |-> {}, inc |-> [o \in Objects |-> 1],
     h2dq |-> <<>>, h2din |-> Nil, d2hq |-> <<>>, d2hin |-> Nil,
     deferred |-> [o \in Objects |-> 0], err |-> "none"]

\* Bring the objects of F into fast and those of B into backing slots in state st.
Occupy(m, F, B, st) ==
    [m EXCEPT
        !.used = [fast |-> @["fast"] + Bytes(F), backing |-> @["backing"] + Bytes(B)],
        !.held = @ \cup {<<o, m.inc[o], o \in escaped>> : o \in F},
        !.inc = [o \in Objects |-> IF o \in F THEN @[o] + 1 ELSE @[o]],
        !.fast = [o \in Objects |->
                    IF o \in F THEN [st |-> st, ver |-> m.ver[o], inc |-> m.inc[o]] ELSE @[o]],
        !.backing = [o \in Objects |->
                    IF o \in B THEN [NoSlot EXCEPT !.st = st, !.ver = m.ver[o]] ELSE @[o]]]

\* The collision is met in an output's turn, after its charge and its draw; a
\* valid program creates an id once, so this raise is never reached.
ReserveOutputs(m, t) ==
    LET F == prog.out[t]["fast"]
        B == prog.out[t]["backing"]
        collides == (F \cap Held(m.fast)) \cup (B \cap Held(m.backing))
    IN  IF ~ CanReserve(m, "backing", Bytes(B)) THEN Raise(m, "backing_full")
        ELSE IF collides # {} THEN Raise(m, "collision")
        ELSE Occupy(m, F, B, "reserved")

\* End of the run: every instance an object still holds goes back to the pool.
Reclaim(m) ==
    [m EXCEPT !.held = {h \in @ : m.fast[h[1]].st = "none" \/ m.fast[h[1]].inc # h[2]}]

FinalLocationsHold ==
    /\ \A o \in prog.final["fast"] : mem.fast[o].st = "live" /\ mem.fast[o].ver = mem.ver[o]
    /\ \A o \in prog.final["backing"] :
          mem.backing[o].st = "live" /\ mem.backing[o].ver = mem.ver[o]

-----------------------------------------------------------------------------
(***************************************************************************)
(* The dispatcher.                                                         *)
(***************************************************************************)
InputsReady == \A o \in prog.inputs[cursor] : mem.fast[o].st = "live"

FastAdmitted == CanReserve(mem, "fast", Bytes(prog.out[cursor]["fast"]))

Busy == {o \in prog.out[cursor]["fast"] \ escaped : ~ CanGet(mem, o)}

Quiescent == outstanding = 0 /\ mem.h2din = Nil /\ mem.d2hin = Nil

\* The loops in which the dispatcher takes completion tokens.
Waiting ==
    \/ pc = "pacing" /\ outstanding # 0
    \/ pc = "inputs" /\ ~ InputsReady
    \/ pc = "reserve" /\ (~ FastAdmitted \/ Busy # {})
    \/ pc = "drain"

\* Install m as the run's state; an exception leaves the loop.
Install(m) ==
    /\ mem' = m
    /\ pc' = IF m.err = "none" THEN pc ELSE "failing"

Init ==
    /\ prog \in Programs
    /\ pc = "setup" /\ cursor = 1 /\ outstanding = 0
    /\ mem = EmptyMem
    /\ blocked = FALSE /\ escaped = {} /\ evictions = 0 /\ cancel = FALSE

LoadInitial ==
    /\ pc = "setup"
    /\ \A l \in Locations : Bytes(prog.init[l]) <= prog.cap[l]
    /\ mem' = Occupy(mem, prog.init["fast"], prog.init["backing"], "live")
    /\ pc' = "boundary"
    /\ UNCHANGED <<prog, cursor, outstanding, blocked, escaped, evictions, cancel>>

\* Charging some initial object overflows a capacity after F and B were loaded.
\* The run's scope does not exist yet, so nothing is reclaimed.
LoadInitialRaises ==
    /\ pc = "setup"
    /\ \E F \in SUBSET prog.init["fast"], B \in SUBSET prog.init["backing"] :
          /\ Bytes(F) <= prog.cap["fast"] /\ Bytes(B) <= prog.cap["backing"]
          /\ \/ \E o \in prog.init["fast"] \ F : Bytes(F \cup {o}) > prog.cap["fast"]
             \/ \E o \in prog.init["backing"] \ B : Bytes(B \cup {o}) > prog.cap["backing"]
          /\ mem' = Raise(Occupy(mem, F, B, "live"), "setup")
    /\ pc' = "end"
    /\ UNCHANGED <<prog, cursor, outstanding, blocked, escaped, evictions, cancel>>

RequestCancel ==
    /\ pc # "end" /\ ~ cancel
    /\ cancel' = TRUE
    /\ UNCHANGED <<prog, pc, cursor, outstanding, mem, blocked, escaped, evictions>>

BeginTask ==
    /\ pc = "boundary" /\ cursor <= prog.n
    /\ IF cancel THEN Install(Raise(mem, "cancelled")) ELSE pc' = "pacing" /\ mem' = mem
    /\ blocked' = FALSE /\ escaped' = {}
    /\ UNCHANGED <<prog, cursor, outstanding, evictions, cancel>>

\* Fault: the next task is dispatched before the previous one has retired.
NotPaced ==
    /\ pc = "pacing"
    /\ pc' = "inputs"
    /\ UNCHANGED <<prog, cursor, outstanding, mem, blocked, escaped, evictions, cancel>>

Paced ==
    /\ pc = "pacing" /\ outstanding = 0
    /\ pc' = "inputs"
    /\ UNCHANGED <<prog, cursor, outstanding, mem, blocked, escaped, evictions, cancel>>

InputsObserved ==
    /\ pc = "inputs" /\ InputsReady
    /\ pc' = "reserve"
    /\ UNCHANGED <<prog, cursor, outstanding, mem, blocked, escaped, evictions, cancel>>

\* Reserve, restart a parked lane head, launch; the executable may raise.
Launch ==
    /\ pc = "reserve" /\ FastAdmitted /\ Busy = {}
    /\ LET m1 == ReserveOutputs(mem, cursor)
           m2 == IF blocked THEN H2DTryStart(m1, FALSE) ELSE m1
       IN  \/ /\ mem' = m2
              /\ pc' = IF m2.err = "none" THEN "boundary" ELSE "failing"
              /\ outstanding' = IF m2.err = "none" THEN cursor ELSE outstanding
              /\ cursor' = IF m2.err = "none" THEN cursor + 1 ELSE cursor
           \/ /\ m2.err = "none"
              /\ Install(Raise(m2, "task"))
              /\ UNCHANGED <<outstanding, cursor>>
    /\ UNCHANGED <<prog, blocked, escaped, evictions, cancel>>

TakeTaskDone ==
    /\ Waiting /\ outstanding # 0
    /\ Install(OnTaskDone(mem, outstanding))
    /\ outstanding' = 0
    /\ UNCHANGED <<prog, cursor, blocked, escaped, evictions, cancel>>

TakeH2DDone ==
    /\ Waiting /\ mem.h2din # Nil
    /\ Install(OnH2DDone(mem))
    /\ UNCHANGED <<prog, cursor, outstanding, blocked, escaped, evictions, cancel>>

TakeD2HDone ==
    /\ Waiting /\ mem.d2hin # Nil
    /\ Install(OnD2HDone(mem))
    /\ UNCHANGED <<prog, cursor, outstanding, blocked, escaped, evictions, cancel>>

-----------------------------------------------------------------------------
(***************************************************************************)
(* Nothing in flight and the dispatcher still blocked: the recovery steps, *)
(* in the order the code tries them.                                       *)
(***************************************************************************)
\* Ledger room but offsets busy: serve the blocked outputs dynamically.
EscapeOutputs ==
    /\ pc = "reserve" /\ Quiescent /\ FastAdmitted /\ Busy # {}
    /\ escaped' = escaped \cup Busy
    /\ UNCHANGED <<prog, pc, cursor, outstanding, mem, blocked, evictions, cancel>>

StepIdle ==
    /\ Quiescent
    /\ \/ pc = "inputs" /\ ~ InputsReady
       \/ pc = "reserve" /\ ~ FastAdmitted

\* Only input waits pump the from_slow lane.
Pumped == IF pc = "inputs" THEN H2DTryStart(mem, FALSE) ELSE mem

PumpH2D ==
    /\ StepIdle /\ Pumped # mem
    /\ Install(Pumped)
    /\ UNCHANGED <<prog, cursor, outstanding, blocked, escaped, evictions, cancel>>

EscapeHead ==
    /\ StepIdle /\ Pumped = mem /\ EscapeBlockedHead(mem) # mem
    /\ Install(EscapeBlockedHead(mem))
    /\ blocked' = (pc = "reserve")
    /\ UNCHANGED <<prog, cursor, outstanding, escaped, evictions, cancel>>

EvictForPressure ==
    /\ StepIdle /\ Pumped = mem /\ EscapeBlockedHead(mem) = mem
    /\ evictions < ThrashLimit
    /\ \E o \in Victims : Install(Evict(mem, o))
    /\ evictions' = evictions + 1
    /\ blocked' = (pc = "reserve")
    /\ UNCHANGED <<prog, cursor, outstanding, escaped, cancel>>

\* Fault: the stalled loop polls again instead of raising.
PollAgain ==
    /\ StepIdle /\ Pumped = mem /\ EscapeBlockedHead(mem) = mem
    /\ evictions >= ThrashLimit \/ Victims = {}
    /\ UNCHANGED vars

DeclareDeadlock ==
    /\ StepIdle /\ Pumped = mem /\ EscapeBlockedHead(mem) = mem
    /\ evictions >= ThrashLimit \/ Victims = {}
    /\ Install(Raise(mem, "deadlock"))
    /\ UNCHANGED <<prog, cursor, outstanding, blocked, escaped, evictions, cancel>>

-----------------------------------------------------------------------------
(***************************************************************************)
(* Drain and terminal cleanup.                                             *)
(***************************************************************************)
BeginDrain ==
    /\ pc = "boundary" /\ cursor > prog.n
    /\ pc' = "drain"
    /\ UNCHANGED <<prog, cursor, outstanding, mem, blocked, escaped, evictions, cancel>>

Stuck == mem.h2dq # <<>> \/ mem.d2hq # <<>> \/ \E o \in Objects : mem.deferred[o] > 0

Finish ==
    /\ pc = "drain" /\ Quiescent
    /\ IF Stuck THEN Install(Raise(mem, "stuck"))
       ELSE IF ~ FinalLocationsHold THEN Install(Raise(mem, "final"))
       ELSE mem' = Reclaim(mem) /\ pc' = "end"
    /\ UNCHANGED <<prog, cursor, outstanding, blocked, escaped, evictions, cancel>>

\* Fault: a failed run discards its tokens but keeps its buffers.
FinishFailedUnreclaimed ==
    /\ pc = "failing"
    /\ mem' = [mem EXCEPT !.h2din = Nil, !.d2hin = Nil]
    /\ outstanding' = 0
    /\ pc' = "end"
    /\ UNCHANGED <<prog, cursor, blocked, escaped, evictions, cancel>>

\* RunScope: discard the device's pending tokens, then reclaim.
FinishFailed ==
    /\ pc = "failing"
    /\ mem' = [Reclaim(mem) EXCEPT !.h2din = Nil, !.d2hin = Nil]
    /\ outstanding' = 0
    /\ pc' = "end"
    /\ UNCHANGED <<prog, cursor, blocked, escaped, evictions, cancel>>

Dispatch ==
    \/ LoadInitial \/ LoadInitialRaises
    \/ BeginTask \/ Paced \/ InputsObserved \/ Launch
    \/ TakeTaskDone \/ TakeH2DDone \/ TakeD2HDone
    \/ EscapeOutputs \/ PumpH2D \/ EscapeHead \/ EvictForPressure \/ DeclareDeadlock
    \/ BeginDrain \/ Finish \/ FinishFailed

Next == Dispatch \/ RequestCancel

Spec == Init /\ [][Next]_vars

\* The control thread keeps running, and work handed to the device completes.
FairSpec == Spec /\ WF_vars(Dispatch)

-----------------------------------------------------------------------------
(***************************************************************************)
(* Properties.                                                             *)
(***************************************************************************)
Errors == {"none", "misfire", "transfer", "assert", "ledger", "collision", "backing_full",
           "deadlock", "stuck", "final", "cancelled", "task", "setup"}

Slot == [st : SlotStates, ver : Nat, inc : Nat]

MemType ==
    [fast : [Objects -> Slot], backing : [Objects -> Slot], ver : [Objects -> Nat],
     used : [Locations -> Nat], held : SUBSET (Objects \X Nat \X BOOLEAN),
     inc : [Objects -> Nat], h2dq : Seq(Objects), h2din : Objects \cup {Nil},
     d2hq : Seq(Objects), d2hin : Objects \cup {Nil}, deferred : [Objects -> Nat],
     err : Errors]

\* The types of the dispatcher's locals, the object table, the ledger and the lanes.
TypeOK ==
    /\ pc \in {"setup", "boundary", "pacing", "inputs", "reserve", "drain", "failing", "end"}
    /\ cursor \in 1 .. prog.n + 1
    /\ outstanding \in 0 .. prog.n
    /\ mem \in MemType
    /\ blocked \in BOOLEAN
    /\ escaped \in SUBSET Objects
    /\ evictions \in Nat
    /\ cancel \in BOOLEAN

\* The ledger counts exactly the bytes of the slots in the object table, in
\* every state of a run and for both locations, and never more than the
\* capacity: no handler forgets a charge or a release, or makes one twice
\* (ledger.py, and every call site in engine.py and transfers.py).
LedgerExact ==
    /\ mem.used["fast"] = Bytes(Held(mem.fast)) /\ mem.used["fast"] <= prog.cap["fast"]
    /\ mem.used["backing"] = Bytes(Held(mem.backing))
    /\ mem.used["backing"] <= prog.cap["backing"]

\* No completion order makes a directive misfire, a lane lose its source, an
\* assertion fail or a final location go unmet: capacity is the only thing that
\* can stop the run of a coherent plan (the raises of _on_task_done, try_start,
\* complete, charge, release and _final_location_violations are unreachable).
NoMisfire == mem.err \notin {"misfire", "transfer", "assert", "ledger", "collision", "final"}

\* The version of o that task t reads when the chain is run one task at a time.
SequentialVersion(o, t) == Cardinality({u \in 1 .. t - 1 : o \in prog.mutates[u]})

\* From its launch to its retirement a task's inputs stay live in fast memory
\* and hold the bytes sequential execution would give it, whatever was moved,
\* evicted and reloaded meanwhile (the strict pacing of run_dispatch).
ReadsSequential ==
    outstanding # 0 =>
        \A o \in prog.inputs[outstanding] :
            /\ mem.fast[o].st = "live"
            /\ mem.fast[o].ver = SequentialVersion(o, outstanding)

\* The lanes do not interfere.  While a copy is in flight its source is not
\* freed, overwritten or handed out and its destination belongs to it; and an
\* object in, or coming into, fast memory is not fetched again: it is queued once
\* at most, and not at all while its fast copy is live or inbound (the prefetch
\* loop of _on_task_done, _on_transfer_done, the reload of an eviction).
LanesUndisturbed ==
    /\ mem.h2din # Nil => /\ mem.fast[mem.h2din].st = "inbound"
                         /\ mem.backing[mem.h2din].st = "live"
                         /\ mem.fast[mem.h2din].ver = mem.backing[mem.h2din].ver
    /\ mem.d2hin # Nil => /\ mem.fast[mem.d2hin].st = "outbound"
                         /\ mem.backing[mem.d2hin].st = "inbound"
                         /\ mem.fast[mem.d2hin].ver = mem.backing[mem.d2hin].ver
    /\ \A i, j \in 1 .. Len(mem.h2dq) : mem.h2dq[i] = mem.h2dq[j] => i = j
    /\ \A i \in 1 .. Len(mem.h2dq) : mem.fast[mem.h2dq[i]].st \notin {"live", "inbound"}

\* Two instances held at their assigned offsets never overlap, escapes and
\* eviction reloads (which shift the incarnation numbers) included.
OffsetsDisjoint ==
    \A h, k \in mem.held :
        h # k /\ ~ h[3] /\ ~ k[3] => <<<<h[1], h[2]>>, <<k[1], k[2]>>>> \notin prog.clash

\* However a run ends that got past its set-up, every fast buffer it took is
\* back in the pool: a leak would bleed the slab that a Session shares between
\* runs (RunScope.reclaim).
PoolReturned == pc = "end" /\ mem.err # "setup" => mem.held = {}

\* With memory for every object at once in both locations, and no placement, no
\* completion order deadlocks the dispatcher or leaves a transfer queued: the
\* FIFO lanes, the deferred prefetches and the pacing never wait on each other.
AmpleMemorySuffices ==
    (\A l \in Locations : Bytes(Objects) <= prog.cap[l]) /\ prog.clash = {}
        => mem.err \notin {"deadlock", "stuck", "backing_full"}

\* Every run comes to an end: no wait on tokens, and no cycle of evictions and
\* reloads, lasts for ever (the thrash guard of _evict_for_pressure).
Terminates == <>(pc = "end")

-----------------------------------------------------------------------------
(***************************************************************************)
(* What the engine promises about a coherent plan.                         *)
(*                                                                         *)
(* A planner annotates a program with release, offload and prefetch        *)
(* directives by reasoning as if every transfer took no time.  p.plan[t]   *)
(* is the residency that reasoning predicts once task t has retired.  The  *)
(* plan is coherent when every directive is legal in the predicted         *)
(* residency, every input is predicted to be in fast memory, and a fast    *)
(* copy is only given up after some task has been seen to use it.  Nothing *)
(* is assumed about capacities or timing.                                  *)
(***************************************************************************)
\* settled: a task has used the fast copy, so the dispatcher has seen it live.
Residency == [fast : BOOLEAN, settled : BOOLEAN, back : {"none", "stale", "current"}]

Produced(p, t) == p.out[t]["fast"] \cup p.out[t]["backing"]

Kept(p, o, t) ==
    \/ o \in p.final["fast"] \cup p.final["backing"]
    \/ \E u \in t + 1 .. p.n :
          o \in p.inputs[u] \cup Range(p.offloads[u]) \cup Range(p.prefetches[u])

\* Residency of o when task t has run, before its directives.
Ran(p, t, o) ==
    LET r == p.plan[t - 1][o] IN
    IF o \in Produced(p, t)
    THEN [fast    |-> o \in p.out[t]["fast"],
          settled |-> o \in p.out[t]["fast"],
          back    |-> IF o \in p.out[t]["fast"] THEN "none" ELSE "current"]
    ELSE [fast    |-> r.fast,
          settled |-> r.settled \/ o \in p.inputs[t],
          back    |-> IF o \in p.mutates[t] /\ r.back = "current" THEN "stale" ELSE r.back]

\* ... once its release or offload has been applied.
Retired(p, t, o) ==
    LET r == Ran(p, t, o) IN
    CASE o \in p.releases[t] ->
           [fast |-> FALSE, settled |-> FALSE,
            back |-> IF Kept(p, o, t) THEN r.back ELSE "none"]
      [] o \in Range(p.offloads[t]) ->
           [fast |-> FALSE, settled |-> FALSE, back |-> "current"]
      [] OTHER -> r

Prefetched(p, t, o) ==
    IF o \in Range(p.prefetches[t])
    THEN [fast |-> TRUE, settled |-> FALSE, back |-> Retired(p, t, o).back]
    ELSE Retired(p, t, o)

CoherentTask(p, t) ==
    /\ \A o \in p.inputs[t] : p.plan[t - 1][o].fast
    /\ \A o \in p.releases[t] \cup Range(p.offloads[t]) :
          Ran(p, t, o).fast /\ Ran(p, t, o).settled
    /\ \A o \in Range(p.prefetches[t]) :
          ~ Retired(p, t, o).fast /\ Retired(p, t, o).back = "current"
    /\ \A o \in Objects : p.plan[t][o] = Prefetched(p, t, o)

\* Instances a task brings into being together are packed apart.
PackedApart(p, S) == \A o, q \in S : o # q => <<<<o, 1>>, <<q, 1>>>> \notin p.clash

Coherent(p) ==
    /\ p.plan \in [0 .. p.n -> [Objects -> Residency]]
    /\ \A o \in Objects : p.plan[0][o] =
          [fast |-> o \in p.init["fast"], settled |-> o \in p.init["fast"],
           back |-> IF o \in p.init["backing"] THEN "current" ELSE "none"]
    /\ \A t \in Tasks(p) : CoherentTask(p, t)
    /\ \A o \in p.final["fast"] : p.plan[p.n][o].fast
    /\ \A o \in p.final["backing"] : p.plan[p.n][o].back = "current"
    /\ PackedApart(p, p.init["fast"])
    /\ \A t \in Tasks(p) : PackedApart(p, p.out[t]["fast"])
    /\ \A e \in p.clash : <<e[2], e[1]>> \in p.clash

ASSUME PlansAssumption == \A p \in Programs : Coherent(p)
=============================================================================
