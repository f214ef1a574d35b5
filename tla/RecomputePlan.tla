---------------------------- MODULE RecomputePlan ----------------------------
(***************************************************************************)
(* The choice of activations to recompute                                  *)
(* (dataflow_sim/planning/recompute.py): plan_with_recompute evaluates the *)
(* plan that saves everything and two seed plans, then converts batches of *)
(* blamed activations to recomputation as long as the simulated makespan   *)
(* falls, and returns the best plan it has seen.                           *)
(*                                                                         *)
(* A plan is a level per activation.  makespan gives what the policy and   *)
(* the simulator make of a plan, 0 when they refuse it: any function, as   *)
(* are the stall reports that rank the candidates.  The clock may exceed   *)
(* the time budget between any two evaluations.                            *)
(***************************************************************************)
EXTENDS Integers, Sequences, FiniteSets, FiniteSetsExt, SequencesExt

CONSTANTS
    Objects,        \* the activations of the rewrite table, a sequence
    MaxLevel,       \* the highest option of each
    MaxIters,       \* rounds of the evidence loop
    Makespans       \* functions from plans to makespans, 0 for refused

VARIABLES makespan, search

searchVars == <<makespan, search>>

ObjectSet == {Objects[n] : n \in DOMAIN Objects}
Plans == [ObjectSet -> 0 .. MaxLevel]
AllSaved == [o \in ObjectSet |-> 0]
SeedAll == [o \in ObjectSet |-> MaxLevel]
SeedHalf == [o \in ObjectSet |-> IF \E n \in DOMAIN Objects : Objects[n] = o /\ n % 2 = 1 THEN MaxLevel ELSE 0]

(* A finite table of rewrites, and a makespan for every choice from it.    *)
ASSUME TableAssumption == Objects \in Seq(ObjectSet) /\ MaxLevel \in Nat

ASSUME MakespansAssumption == \A f \in Makespans : f \in [Plans -> Nat]

Feasible(plan) == makespan[plan] > 0

(* best and current are <<plan>>, or <<>> before one is found; evaluated   *)
(* are the plans that were simulated.                                      *)
SearchInit ==
    /\ makespan \in Makespans
    /\ search = [at |-> "baseline", best |-> <<>>, current |-> <<>>, iter |-> 0,
                 candidates |-> <<>>, batch |-> 0, evaluated |-> {}]

Better(plan) == search.best = <<>> \/ makespan[plan] < makespan[search.best[1]]

(* A refused baseline is not fatal.                                        *)
Baseline ==
    /\ search.at = "baseline"
    /\ search' = [search EXCEPT !.at = "seed_all", !.evaluated = {AllSaved},
                                !.best = IF Feasible(AllSaved) THEN <<AllSaved>> ELSE <<>>,
                                !.current = IF Feasible(AllSaved) THEN <<AllSaved>> ELSE <<>>]

Seeded(plan) == IF Feasible(plan) /\ Better(plan) THEN <<plan>> ELSE search.best

Seed(at, plan, then) ==
    /\ search.at = at
    /\ search' = [search EXCEPT !.at = then, !.evaluated = @ \cup {plan}, !.best = Seeded(plan)]

(* The loop refines the plan that saves everything, or the best seed.      *)
StartLoop ==
    /\ search.at = "start"
    /\ search' = [search EXCEPT !.at = IF search.best = <<>> THEN "failed" ELSE "iterate",
                                !.current = IF @ = <<>> THEN search.best ELSE @]

Convertible == {o \in ObjectSet : search.current[1][o] < MaxLevel}

(* Ranked by the report: some activations not yet at their last level.     *)
RankedCandidates == UNION {SetToSeqs(some) : some \in SUBSET Convertible}

Iterate ==
    /\ search.at = "iterate"
    /\ \E ranked \in RankedCandidates :
         search' = [search EXCEPT !.iter = @ + 1, !.candidates = ranked, !.batch = Max({1, Len(ranked) \div 2}),
                                  !.at = IF ranked = <<>> THEN "done" ELSE "trial"]

(* The next level of every object of the batch.                            *)
Trial ==
    [o \in ObjectSet |->
       search.current[1][o] + IF \E n \in 1 .. search.batch : search.candidates[n] = o THEN 1 ELSE 0]

AfterAccept == IF search.iter < MaxIters THEN "iterate" ELSE "done"

\* Fault seeded for SearchNeverLoses: an accepted trial replaces a better seed
TryAcceptedAsBest ==
    /\ search.at = "trial" /\ Feasible(Trial) /\ makespan[Trial] < makespan[search.current[1]]
    /\ search' = [search EXCEPT !.evaluated = @ \cup {Trial}, !.current = <<Trial>>,
                                !.best = <<Trial>>, !.at = AfterAccept]

(* Accepted when it improves on the plan it was made from; otherwise half  *)
(* the batch is tried, and the search ends when nothing is left of it.     *)
TryAccepted ==
    /\ search.at = "trial" /\ Feasible(Trial) /\ makespan[Trial] < makespan[search.current[1]]
    /\ search' = [search EXCEPT !.evaluated = @ \cup {Trial}, !.current = <<Trial>>,
                                !.best = IF Better(Trial) THEN <<Trial>> ELSE @, !.at = AfterAccept]

TryRejected ==
    /\ search.at = "trial" /\ ~(Feasible(Trial) /\ makespan[Trial] < makespan[search.current[1]])
    /\ search' = [search EXCEPT !.evaluated = @ \cup {Trial}, !.batch = @ \div 2,
                                !.at = IF search.batch \div 2 = 0 THEN "done" ELSE "trial"]

OverBudget ==
    /\ search.at \in {"iterate", "trial"}
    /\ search' = [search EXCEPT !.at = "done"]

SearchNext ==
    /\ \/ Baseline
       \/ Seed("seed_all", SeedAll, "seed_half")
       \/ Seed("seed_half", SeedHalf, "start")
       \/ StartLoop \/ Iterate \/ TryAccepted \/ TryRejected \/ OverBudget
    /\ UNCHANGED makespan

(* plan_with_recompute never loses to a choice it looked at: the plan it   *)
(* returns, also one cut short by the time budget, is feasible and at      *)
(* least as fast as everything simulated on the way, the saved-everything  *)
(* plan and the seeds included; it fails only if those are all refused.    *)
SearchNeverLoses ==
    /\ search.at = "done" =>
         /\ Feasible(search.best[1])
         /\ {AllSaved, SeedAll, SeedHalf} \subseteq search.evaluated
         /\ \A plan \in search.evaluated : Feasible(plan) => makespan[search.best[1]] <= makespan[plan]
    /\ search.at = "failed" => \A plan \in {AllSaved, SeedAll, SeedHalf} : ~Feasible(plan)

=============================================================================
