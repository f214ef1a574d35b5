------------------------------ MODULE Policies ------------------------------
(***************************************************************************)
(* Planning with any of the automatic policies get_all_policies() offers:   *)
(* a chain and a policy are chosen, the policy plans, and the plan it       *)
(* returns is replayed step by step. PressureFit's variables are shared:    *)
(* reducer holds whatever the policy is building, best the plan.            *)
(***************************************************************************)
EXTENDS PressureFit, MaxReduce, MinGrow, Roundtrip, Belady

CONSTANTS
  Planned,          \* the policies looked at: a subset of Policies
  Suits(_, _),      \* which of them plan which workload
  Orders(_)         \* the walks of a chain's objects a set of strings may give

VARIABLES
  policy,           \* the policy asked for
  order             \* the walk of this process's string sets

allVars == <<vars, policy, order>>

PolicyInit ==
  /\ Init
  /\ policy \in Planned
  /\ Suits(policy, source)
  /\ policy # "pressurefit" => mode = "greedy"
  /\ order \in IF policy \in {"max_reduce", "min_grow", "belady_reactive"} THEN Orders(source)
               ELSE {Ascending(Objects(source))}

Building == UNCHANGED <<source, mode, tried, fitted, extra, repairs, failures, policy, order>>

ToReplay(plan) ==
  /\ stage' = "replay"
  /\ best' = [makespan |-> 0, chain |-> plan]
  /\ reducer' = <<>>
  /\ sim' = FirstState(plan)

Refuse == stage' = "refused" /\ UNCHANGED <<reducer, best, sim>>

Build(from, to, what) ==
  /\ stage = from
  /\ stage' = to /\ reducer' = what
  /\ UNCHANGED <<best, sim>>

-----------------------------------------------------------------------------
PressureFitPlans == policy = "pressurefit" /\ Next /\ UNCHANGED <<policy, order>>

MaxReduceStart ==
  /\ policy = "max_reduce" /\ stage = "admit"
  /\ IF MinPoolFits(source) THEN Build("admit", "reduce", FullSpans(source)) ELSE Refuse
  /\ Building

MaxReduceCut ==
  /\ policy = "max_reduce" /\ stage = "reduce"
  /\ \E at \in {Worst(source, LAMBDA b : OverflowAt(source, reducer, b))} :
       /\ OverflowAt(source, reducer, at) > 0
       /\ IF CutsAt(source, reducer, at) = {} THEN Refuse
          ELSE Build("reduce", "reduce",
                     Reduced(reducer, BestCut(CutsAt(source, reducer, at), order)))
  /\ Building

MaxReduceReturn ==
  /\ policy = "max_reduce" /\ stage = "reduce"
  /\ \A b \in Boundaries(source) : OverflowAt(source, reducer, b) <= 0
  /\ ToReplay(MaxReduceChain(source, PackedEntries(source, reducer), order))
  /\ Building

MinGrowStart ==
  /\ policy = "min_grow" /\ stage = "admit"
  /\ LET max == MaxPlan(source)
     IN IF ~RespectsStaticCap(source, MinPlan(source)) THEN Refuse
        ELSE IF RespectsStaticCap(source, max) /\ Score(source, max, order) < INF
        THEN ToReplay(DeriveSchedule(source, max, order))
        ELSE Build("admit", "search", NewSearch(source, order))
  /\ Building

MinGrowStep ==
  /\ policy = "min_grow" /\ stage = "search" /\ reducer.phase # "found"
  /\ \E s \in CASE reducer.phase = "shrink" -> Shrink(source, reducer, order)
                [] reducer.phase = "repair" -> Merge(source, reducer, order)
                [] reducer.phase = "beam" -> BeamStep(source, reducer, order) :
       Build("search", "search", s)
  /\ Building

MinGrowReturn ==
  /\ policy = "min_grow" /\ stage = "search" /\ reducer.phase = "found"
  /\ ToReplay(DeriveSchedule(source, FoundPlan(source, reducer), order))
  /\ Building

RoundtripPlans ==
  /\ policy = "roundtrip_planner" /\ stage = "admit"
  /\ LET plan == RoundtripChain(source)
     IN IF PlannerPlacementFits(source) /\ Verified(plan) THEN ToReplay(plan) ELSE Refuse
  /\ Building

BeladyStart ==
  /\ policy = "belady_reactive" /\ stage = "admit"
  /\ IF BeladyAdmits(source)
     THEN Build("admit", "walk", NewShadow(source, SmartPlacement(source), order))
     ELSE Refuse
  /\ Building

BeladyTask ==
  /\ policy = "belady_reactive" /\ stage = "walk"
  /\ reducer.ran < TaskCount(source) /\ ~reducer.failed
  /\ Build("walk", "walk", BeladyStep(source, reducer, reducer.ran + 1))
  /\ Building

BeladyReturn ==
  /\ policy = "belady_reactive" /\ stage = "walk"
  /\ reducer.failed \/ reducer.ran = TaskCount(source)
  /\ IF reducer.failed \/ ~Verified(BeladyChain(source, reducer)) THEN Refuse
     ELSE ToReplay(BeladyChain(source, reducer))
  /\ Building

(* The caller runs what it was given. *)
RunReturned ==
  /\ policy # "pressurefit" /\ stage = "replay"
  /\ IF Ended(sim) THEN /\ stage' = (IF sim.pc = "done" THEN "returned" ELSE "raised")
                        /\ UNCHANGED sim
     ELSE sim' = Step(best.chain, sim) /\ UNCHANGED stage
  /\ UNCHANGED <<reducer, best>>
  /\ Building

PolicyNext ==
  \/ PressureFitPlans
  \/ MaxReduceStart \/ MaxReduceCut \/ MaxReduceReturn
  \/ MinGrowStart \/ MinGrowStep \/ MinGrowReturn
  \/ RoundtripPlans
  \/ BeladyStart \/ BeladyTask \/ BeladyReturn
  \/ RunReturned

PolicySpec == PolicyInit /\ [][PolicyNext]_allVars
-----------------------------------------------------------------------------
(* Properties; Fits and ReadsLatest are PressureFit's and hold of every      *)
(* policy's plan; of belady_reactive's and roundtrip_planner's ReadsLatest   *)
(* holds only where no task rewrites its inputs, as both assume, and Fits    *)
(* only where no task has scratch, which both lose.                          *)

(* min_grow: through the shrinks, merges and beam rounds the best plan kept  *)
(* is one that replays in the time noted for it, and no plan in the beam is  *)
(* faster; so wherever the time runs out, in the middle of a round too, a    *)
(* chain whose forced spans replay gets a plan that replays no slower.       *)
SearchKeepsBest ==
  policy = "min_grow" =>
    /\ stage = "search" /\ reducer.bestMs < INF =>
         /\ Score(source, reducer.best, order) = reducer.bestMs
         /\ \A e \in ToSet(reducer.beam) : reducer.bestMs <= e.ms
    /\ stage \in {"returned", "raised"} /\ Score(source, MinPlan(source), order) < INF =>
         stage = "returned" /\ sim.makespan <= Score(source, MinPlan(source), order)

(* belady_reactive: every copy its shadow of the streams takes to be under   *)
(* way has its transfer queued.                                              *)
ShadowTracked ==
  policy = "belady_reactive" /\ stage = "walk" =>
    /\ \A o \in DOMAIN reducer.fast :
         /\ reducer.fast[o].state = "pending_inbound" => EndIn(reducer.sched["from_slow"], o) < INF
         /\ reducer.fast[o].state = "pending_outbound" =>
              EndIn(reducer.sched["to_slow"], o) < INF /\ State(reducer.backing, o) = "pending_inbound"
    /\ \A o \in DOMAIN reducer.backing :
         reducer.backing[o].state = "pending_inbound" => EndIn(reducer.sched["to_slow"], o) < INF

(* What a policy keeps by difference agrees with what it stands for: the     *)
(* reducer's boundary sums, lazily popped heap and cached options with the   *)
(* spans it holds, through every cut (_apply_split), and the shadow's states *)
(* with its schedules, whatever was inserted into the past, so that no later *)
(* task waits for a transfer that never comes (shadow.py).                   *)
BookkeepingExact == ReducerExact /\ ShadowTracked
=============================================================================
