----------------------------- MODULE SimBuilder -----------------------------
(***************************************************************************)
(* The training builder of the workload generator                          *)
(* (dataflow_sim/workloads/training_builder.py): it schedules a stack of   *)
(* layer specs into a program of tasks over named objects, checks every    *)
(* task as dataflow.py does, and prices the program for a machine.         *)
(*                                                                         *)
(* An object is named by a tuple, <<"A", k, j, i>> for A_k_j_i.  What a    *)
(* task computes is read off its lists: every output, and every increment  *)
(* of an accumulated gradient, depends on all inputs the task does not     *)
(* mutate.  meaning[o] is that provenance: for an activation the set of    *)
(* data and weight versions it was computed from, for a gradient the       *)
(* sequence of the contributions summed into it, for weights and optimizer *)
(* state their version.                                                    *)
(*                                                                         *)
(* cfg is the configuration, specs what the families say of it, todo the   *)
(* emissions left of the current step, prog the program so far: its task   *)
(* names, its blocks with their number of instances and the tasks' prices; *)
(* refused tells that the build raised.  A duplicated object or an unknown *)
(* final location is refused by the program at the very end, here at once. *)
(***************************************************************************)
EXTENDS SimModels

CONSTANTS
    Configs,    \* what is built: family, dims, call c, steps, rounds, ...
    Hw          \* microseconds per flop by unit, per byte by lane

VARIABLES cfg, specs, phase, step, todo, prog, meaning, updates, rewrites

vars == <<cfg, specs, phase, step, todo, prog, meaning, updates, rewrites>>

-----------------------------------------------------------------------------
(* Configuration.                                                          *)

Optimizes == cfg.optimizer # "none"
Interleaved == cfg.placement = "interleaved"
Embeds == cfg.embedding # "none"
Tied == cfg.embedding = "tied"
HeadOptimizes == Optimizes /\ ~Tied
LastRound == cfg.rounds - 1
Layers == 0 .. cfg.dims.n_layers - 1
Spec_(i) == specs.layers[i + 1]

SavedIds == {<<"A", k, j, i>> : k \in 0 .. cfg.steps - 1, j \in 0 .. LastRound, i \in Layers}

(* selected_recompute_ids: unknown objects and levels above 1 are refused. *)
LevelsValid == DOMAIN cfg.levels \subseteq SavedIds /\ \A o \in DOMAIN cfg.levels : cfg.levels[o] \in {0, 1}
Recomputed(o) == o \in DOMAIN cfg.levels /\ cfg.levels[o] = 1

TrainingConfigValid == cfg.steps >= 1 /\ cfg.rounds >= 1 /\ cfg.placement \in {"interleaved", "tail"}

(* The embedding the builder makes up for a family: a table as large as    *)
(* the head, gathered and scattered in bf16.                               *)
AutoEmbedding(c, d) ==
    [ops |-> [fwd |-> <<MemoryOp("embedding_gather", "fwd", 2 * c.t * d.d_model * Widths.bf16)>>,
              bwd |-> <<MemoryOp("embedding_scatter_accum", "bwd", 16 * c.t * d.d_model)>>],
     wBytes |-> HalfUp(HeadParams(d) * c.P.wt), gBytes |-> HalfUp(HeadParams(d) * c.P.grad),
     oBytes |-> [o \in {"none", "adamw", "muon", "sgd"} |-> OptimizerStateBytes(HalfUp(HeadParams(d) * c.P.state), o)]]

SpecsOf(g) ==
    [layers |-> [n \in 1 .. g.dims.n_layers |-> LayerOf(g.family, g.c, g.dims, n - 1)],
     head |-> HeadSpec(g.c, g.dims), embed |-> AutoEmbedding(g.c, g.dims)]

(* A cost needs flops or bytes, a block at least one cost.                 *)
Costs(ops) == \A n \in DOMAIN ops : ops[n].flops > 0 \/ ops[n].bytes > 0

SpecsCost(s) ==
    /\ Len(s.layers) > 0
    /\ \A n \in DOMAIN s.layers :
         /\ Costs(s.layers[n].ops.fwd) /\ Costs(s.layers[n].ops.bwd) /\ Costs(s.layers[n].ops.rec)
         /\ Costs(s.layers[n].opt[cfg.optimizer])
         /\ s.layers[n].wBytes > 0
    /\ Costs(s.head.ops.fwd) /\ Costs(s.head.ops.bwd) /\ s.head.wBytes > 0

-----------------------------------------------------------------------------
(* Initial objects and their versions.                                     *)

LayerObjects == {<<"W", i>> : i \in Layers} \cup {<<"O", i>> : i \in {n \in Layers : Spec_(n).oBytes[cfg.optimizer] > 0}}

EmbedState == Embeds /\ Optimizes /\ specs.embed.oBytes[cfg.optimizer] > 0
HeadState == HeadOptimizes /\ specs.head.oBytes["adamw"] > 0

EmbedObjects == (IF Embeds THEN {<<"W_embed">>} ELSE {}) \cup (IF EmbedState THEN {<<"O_embed">>} ELSE {})
HeadObjects == (IF Tied THEN {} ELSE {<<"W_head">>}) \cup (IF HeadState THEN {<<"O_head">>} ELSE {})
ModelObjects == LayerObjects \cup EmbedObjects \cup HeadObjects

EntryIds == {<<IF Embeds THEN "tokens" ELSE "input", k, j>> : k \in 0 .. cfg.steps - 1, j \in 0 .. LastRound}
TargetIds == {<<"targets", k, j>> : k \in 0 .. cfg.steps - 1, j \in 0 .. LastRound}

InitialMeaning ==
    [o \in ModelObjects \cup EntryIds \cup TargetIds |-> {IF o \in ModelObjects THEN <<o, 0>> ELSE <<o>>}]

-----------------------------------------------------------------------------
(* The tasks: id, compute block, and the objects read, made and mutated.   *)

Task(id, key, ops, inputs, outputs, mutates) ==
    [id |-> id, key |-> key, ops |-> ops, inputs |-> inputs, outputs |-> outputs, mutates |-> mutates]
Out(id, size) == [id |-> id, size |-> size]

ActBytes(dim) == HalfUp(cfg.c.t * dim * cfg.c.P.act)

EntryAct(k, j) == IF Embeds THEN <<"y_embed", k, j>> ELSE <<"input", k, j>>
InAct(k, j, i) == IF i = 0 THEN EntryAct(k, j) ELSE <<"y", k, j, i - 1>>
HeadGrad(k) == IF Tied THEN <<"dW_embed", k>> ELSE <<"dW_head", k>>

LayerOptimizerTask(k, i) ==
    LET state == When(Spec_(i).oBytes[cfg.optimizer] > 0, <<<<"O", i>>>>)
    IN  Task(<<"step", k, i>>, <<Spec_(i).optKey, cfg.optimizer>>, Spec_(i).opt[cfg.optimizer],
             <<<<"dW", k, i>>, <<"W", i>>>> \o state, <<>>, <<<<"W", i>>>> \o state)

HeadOptimizerTask(k) ==
    LET state == When(HeadState, <<<<"O_head">>>>)
    IN  Task(<<"step_head", k>>, <<specs.head.optKey, "adamw">>,
             <<AdamwStep(specs.head.wBytes, specs.head.gBytes, specs.head.oBytes["adamw"])>>,
             <<HeadGrad(k), <<"W_head">>>> \o state, <<>>, <<<<"W_head">>>> \o state)

EmbedOptimizerTask(k) ==
    LET state == When(EmbedState, <<<<"O_embed">>>>)
    IN  Task(<<"step_embed", k>>, <<<<"embedding_step">>, cfg.optimizer>>,
             <<AdamwStep(specs.embed.wBytes, specs.embed.gBytes, specs.embed.oBytes[cfg.optimizer])>>,
             <<<<"dW_embed", k>>, <<"W_embed">>>> \o state, <<>>, <<<<"W_embed">>>> \o state)

EmbedForwardTask(k, j) ==
    Task(<<"embed_fwd", k, j>>, <<<<"embedding">>, "forward">>, specs.embed.ops.fwd,
         <<<<"tokens", k, j>>, <<"W_embed">>>>, <<Out(<<"y_embed", k, j>>, ActBytes(cfg.dims.d_model))>>, <<>>)

ForwardTask(k, j, i) ==
    Task(<<"f", k, j, i>>, <<Spec_(i).key, "forward">>, Spec_(i).ops.fwd, <<InAct(k, j, i), <<"W", i>>>>,
         When(~Recomputed(<<"A", k, j, i>>), <<Out(<<"A", k, j, i>>, Spec_(i).aBytes)>>)
           \o <<Out(<<"y", k, j, i>>, ActBytes(cfg.dims.d_model))>>,
         <<>>)

(* A gradient is made in the first round of a step and summed into later.  *)
HeadLossTask(k, j) ==
    Task(<<"head_loss", k, j>>, <<specs.head.key, "head_loss">>, specs.head.ops.fwd \o specs.head.ops.bwd,
         <<<<"y", k, j, cfg.dims.n_layers - 1>>, <<"targets", k, j>>, IF Tied THEN <<"W_embed">> ELSE <<"W_head">>>>
           \o When(j > 0, <<HeadGrad(k)>>),
         <<Out(<<"dy", k, j, cfg.dims.n_layers - 1>>, ActBytes(cfg.dims.d_model)), Out(<<"loss", k, j>>, 4)>>
           \o When(j = 0, <<Out(HeadGrad(k), specs.head.gBytes)>>),
         When(j > 0, <<HeadGrad(k)>>))

RecomputeTask(k, j, i) ==
    Task(<<"r", k, j, i>>, <<Spec_(i).key, "recompute">>, Spec_(i).ops.rec, <<InAct(k, j, i), <<"W", i>>>>,
         <<Out(<<"A", k, j, i>>, Spec_(i).aBytes)>>, <<>>)

BackwardTask(k, j, i) ==
    Task(<<"b", k, j, i>>, <<Spec_(i).key, "backward">>, Spec_(i).ops.bwd,
         <<<<"dy", k, j, i>>, <<"A", k, j, i>>, InAct(k, j, i), <<"W", i>>>> \o When(j > 0, <<<<"dW", k, i>>>>),
         <<Out(IF i = 0 THEN <<"dy_embed", k, j>> ELSE <<"dy", k, j, i - 1>>, ActBytes(cfg.dims.d_model))>>
           \o When(j = 0, <<Out(<<"dW", k, i>>, Spec_(i).gBytes)>>),
         When(j > 0, <<<<"dW", k, i>>>>))

(* The head has already made the gradient of a tied table.                 *)
EmbedBackwardTask(k, j) ==
    LET makes == j = 0 /\ ~Tied
    IN  Task(<<"embed_bwd", k, j>>, <<<<"embedding">>, "backward">>, specs.embed.ops.bwd,
             <<<<"dy_embed", k, j>>, <<"tokens", k, j>>>> \o When(~makes, <<<<"dW_embed", k>>>>),
             When(makes, <<Out(<<"dW_embed", k>>, specs.embed.gBytes)>>),
             When(~makes, <<<<"dW_embed", k>>>>))

-----------------------------------------------------------------------------
(* The loop nest of build_training_program, as the emissions of one step.  *)

Up(kind, k, j) == [n \in 1 .. cfg.dims.n_layers |-> [kind |-> kind, k |-> k, j |-> j, i |-> n - 1]]
One(kind, k, j) == <<[kind |-> kind, k |-> k, j |-> j, i |-> 0]>>

\* Fault seeded for TrainsSequentially: the interleaved optimizer steps in
\* every round
LayerBackwardEveryRound(k, j, i) ==
    When(Recomputed(<<"A", k, j, i>>), <<[kind |-> "recompute", k |-> k, j |-> j, i |-> i]>>)
      \o <<[kind |-> "backward", k |-> k, j |-> j, i |-> i]>>
      \o When(Interleaved /\ Optimizes, <<[kind |-> "layer_optimizer", k |-> k, j |-> j, i |-> i]>>)

LayerBackward(k, j, i) ==
    When(Recomputed(<<"A", k, j, i>>), <<[kind |-> "recompute", k |-> k, j |-> j, i |-> i]>>)
      \o <<[kind |-> "backward", k |-> k, j |-> j, i |-> i]>>
      \o When(Interleaved /\ Optimizes /\ j = LastRound, <<[kind |-> "layer_optimizer", k |-> k, j |-> j, i |-> i]>>)

RoundEmissions(k, j) ==
    When(Embeds, One("embed_forward", k, j)) \o Up("forward", k, j) \o One("head_loss", k, j)
      \o When(Interleaved /\ HeadOptimizes /\ j = LastRound, One("head_optimizer", k, j))
      \o FlattenSeq([n \in 1 .. cfg.dims.n_layers |-> LayerBackward(k, j, cfg.dims.n_layers - n)])
      \o When(Embeds, One("embed_backward", k, j))
      \o When(Embeds /\ Interleaved /\ Optimizes /\ j = LastRound, One("embed_optimizer", k, j))

TailEmissions(k) ==
    When(Embeds, One("embed_optimizer", k, LastRound)) \o Up("layer_optimizer", k, LastRound)
      \o When(HeadOptimizes, One("head_optimizer", k, LastRound))

StepEmissions(k) ==
    FlattenSeq([n \in 1 .. cfg.rounds |-> RoundEmissions(k, n - 1)])
      \o When(Optimizes /\ ~Interleaved, TailEmissions(k))

-----------------------------------------------------------------------------
(* Emitting a task.                                                        *)

Ids(seq) == {seq[n] : n \in DOMAIN seq}
OutIds(task) == {task.outputs[n].id : n \in DOMAIN task.outputs}

(* emit_task, DataflowTask and DataflowProgram accept it.                  *)
TaskValid(task) ==
    /\ task.id \notin prog.tasks
    /\ task.ops # <<>>
    /\ task.key \in DOMAIN prog.blocks => prog.blocks[task.key].ops = task.ops
    /\ Cardinality(Ids(task.inputs)) = Len(task.inputs)
    /\ Cardinality(OutIds(task)) = Len(task.outputs)
    /\ Ids(task.mutates) \subseteq Ids(task.inputs)
    /\ Ids(task.inputs) \subseteq DOMAIN meaning
    /\ OutIds(task) \cap DOMAIN meaning = {}
    /\ \A n \in DOMAIN task.outputs : task.outputs[n].size > 0

IsGradient(o) == o[1] \in {"dW", "dW_head", "dW_embed"}

Provenance(task) == UNION {meaning[o] : o \in Ids(task.inputs) \ Ids(task.mutates)}

Newer(versions) == {<<v[1], v[2] + 1>> : v \in versions}

(* The task's outputs are new, what it mutates accumulates.                *)
Computed(task, from) ==
    [o \in DOMAIN meaning \cup OutIds(task) |->
       CASE o \in OutIds(task) -> IF IsGradient(o) THEN <<from>> ELSE from
         [] o \in Ids(task.mutates) -> Append(meaning[o], from)
         [] OTHER -> meaning[o]]

(* An optimizer step consumes its first input, a gradient.                 *)
Stepped(task) ==
    [o \in DOMAIN meaning |-> IF o \in Ids(task.mutates) THEN Newer(meaning[o]) ELSE meaning[o]]

\* Fault seeded for WorkAccounted: a block shared by layers is counted once
CountedOnce(task) ==
    [prog EXCEPT !.tasks = @ \cup {task.id},
                 !.blocks = [key \in DOMAIN @ \cup {task.key} |->
                               IF key = task.key THEN [ops |-> task.ops, count |-> 1] ELSE @[key]]]

Counted(task) ==
    [prog EXCEPT !.tasks = @ \cup {task.id},
                 !.blocks = IF task.key \in DOMAIN @
                            THEN [@ EXCEPT ![task.key].count = @ + 1]
                            ELSE [key \in DOMAIN @ \cup {task.key} |->
                                    IF key = task.key THEN [ops |-> task.ops, count |-> 1] ELSE @[key]]]

Emit(task, ok) ==
    /\ phase' = IF ok THEN phase ELSE "refused"
    /\ meaning' = IF ok THEN Computed(task, Provenance(task)) ELSE meaning
    /\ prog' = IF ok THEN Counted(task) ELSE prog
    /\ todo' = Tail(todo)
    /\ UNCHANGED <<cfg, specs, step, updates, rewrites>>

EmitStep(task, ok) ==
    /\ phase' = IF ok THEN phase ELSE "refused"
    /\ meaning' = IF ok THEN Stepped(task) ELSE meaning
    /\ prog' = IF ok THEN Counted(task) ELSE prog
    /\ todo' = Tail(todo)
    /\ updates' = IF ok
                  THEN updates \cup {[of |-> task.mutates[1], step |-> Head(todo).k,
                                      old |-> meaning[task.mutates[1]], gradient |-> meaning[task.inputs[1]]]}
                  ELSE updates
    /\ UNCHANGED <<cfg, specs, step, rewrites>>

At(kind) == phase = "building" /\ todo # <<>> /\ Head(todo).kind = kind

EmitEmbedForward == At("embed_forward") /\ \E task \in {EmbedForwardTask(Head(todo).k, Head(todo).j)} : Emit(task, TaskValid(task))
EmitForward == At("forward") /\ \E task \in {ForwardTask(Head(todo).k, Head(todo).j, Head(todo).i)} : Emit(task, TaskValid(task))
EmitHeadLoss == At("head_loss") /\ \E task \in {HeadLossTask(Head(todo).k, Head(todo).j)} : Emit(task, TaskValid(task))
EmitRecompute == At("recompute") /\ \E task \in {RecomputeTask(Head(todo).k, Head(todo).j, Head(todo).i)} : Emit(task, TaskValid(task))
EmitBackward == At("backward") /\ \E task \in {BackwardTask(Head(todo).k, Head(todo).j, Head(todo).i)} : Emit(task, TaskValid(task))
EmitEmbedBackward == At("embed_backward") /\ \E task \in {EmbedBackwardTask(Head(todo).k, Head(todo).j)} : Emit(task, TaskValid(task))
EmitLayerOptimizer == At("layer_optimizer") /\ \E task \in {LayerOptimizerTask(Head(todo).k, Head(todo).i)} : EmitStep(task, TaskValid(task))
EmitHeadOptimizer == At("head_optimizer") /\ \E task \in {HeadOptimizerTask(Head(todo).k)} : EmitStep(task, TaskValid(task))
EmitEmbedOptimizer == At("embed_optimizer") /\ \E task \in {EmbedOptimizerTask(Head(todo).k)} : EmitStep(task, TaskValid(task))

-----------------------------------------------------------------------------
(* Pricing the program for a machine: an operation lasts as long as the    *)
(* slower of its arithmetic and its traffic, times its count.              *)

MemTime(op) == op.bytes * (IF op.unit = "scale_up" THEN Hw.link ELSE Hw.byte)
MathTime(op) == op.flops * Hw.flop[op.unit]

PriceOf(op) ==
    op.count * (IF op.flops > 0 THEN Max({MathTime(op), MemTime(op)}) ELSE MemTime(op))

(* resolve_cost of a block: the sum over its operations.                   *)
BlockPrice(ops) == FoldLeft(LAMBDA sum, op : sum + PriceOf(op), 0, ops)
BlockFlops(ops) == FoldLeft(LAMBDA sum, op : sum + op.flops * op.count, 0, ops)
BlockEffective(ops) == FoldLeft(LAMBDA sum, op : sum + op.eff * op.count, 0, ops)

(* fp4 products have no price on a machine without them.                   *)
HasPrice(op) == op.flops > 0 => op.unit \in DOMAIN Hw.flop
Priced == \A key \in DOMAIN prog.blocks : \A n \in DOMAIN prog.blocks[key].ops : HasPrice(prog.blocks[key].ops[n])

OverBlocks(Of(_)) == MapThenSumSet(LAMBDA key : prog.blocks[key].count * Of(prog.blocks[key].ops), DOMAIN prog.blocks)

(* The block summaries and the totals compute_summary reports.             *)
Totals == [time |-> OverBlocks(BlockPrice), flops |-> OverBlocks(BlockFlops), effective |-> OverBlocks(BlockEffective)]

(* What a planner may trade: for every saved activation, its bytes and the *)
(* time of making it again.                                                *)
RewriteTable == [o \in SavedIds |-> [saved |-> Spec_(o[4]).aBytes, time |-> BlockPrice(Spec_(o[4]).ops.rec)]]

-----------------------------------------------------------------------------
(* The build.                                                              *)

NoRewrites == [o \in {} |-> [saved |-> 0, time |-> 0]]

Init ==
    /\ cfg \in Configs
    /\ phase = "new" /\ specs = <<>> /\ step = 0 /\ todo = <<>>
    /\ prog = [tasks |-> {}, blocks |-> <<>>, totals |-> [time |-> 0, flops |-> 0, effective |-> 0]]
    /\ meaning = <<>> /\ updates = {} /\ rewrites = NoRewrites

(* The configuration is checked, the specs made and checked for cost, the  *)
(* initial objects declared.                                               *)
Specify ==
    /\ phase = "new"
    /\ TrainingConfigValid /\ LevelsValid /\ Accepted(cfg.family, cfg.dims, cfg.c.P)
    /\ specs' = SpecsOf(cfg)
    /\ phase' = IF SpecsCost(specs') THEN "specified" ELSE "refused"
    /\ UNCHANGED <<cfg, step, todo, prog, meaning, updates, rewrites>>

SpecifyRefused ==
    /\ phase = "new"
    /\ ~(TrainingConfigValid /\ LevelsValid /\ Accepted(cfg.family, cfg.dims, cfg.c.P))
    /\ phase' = "refused"
    /\ UNCHANGED <<cfg, specs, step, todo, prog, meaning, updates, rewrites>>

Declare ==
    /\ phase = "specified"
    /\ phase' = "building"
    /\ meaning' = InitialMeaning
    /\ todo' = StepEmissions(0)
    /\ UNCHANGED <<cfg, specs, step, prog, updates, rewrites>>

NextStep ==
    /\ phase = "building" /\ todo = <<>> /\ step + 1 < cfg.steps
    /\ step' = step + 1
    /\ todo' = StepEmissions(step + 1)
    /\ UNCHANGED <<cfg, specs, phase, prog, meaning, updates, rewrites>>

(* The last step is out: final locations name the model's objects, the     *)
(* program is priced, the rewrites tabulated.                              *)
FinalLocations == IF Optimizes /\ cfg.backed THEN {o \in ModelObjects : o # <<"W_head">> \/ HeadOptimizes} ELSE {}

Finish ==
    /\ phase = "building" /\ todo = <<>> /\ step + 1 >= cfg.steps
    /\ phase' = IF FinalLocations \subseteq DOMAIN meaning /\ Priced THEN "built" ELSE "refused"
    /\ prog' = IF Priced THEN [prog EXCEPT !.totals = Totals] ELSE prog
    /\ rewrites' = IF Priced THEN RewriteTable ELSE rewrites
    /\ UNCHANGED <<cfg, specs, step, todo, meaning, updates>>

Next ==
    \/ Specify \/ SpecifyRefused \/ Declare \/ NextStep \/ Finish
    \/ EmitEmbedForward \/ EmitForward \/ EmitHeadLoss \/ EmitRecompute \/ EmitBackward \/ EmitEmbedBackward
    \/ EmitLayerOptimizer \/ EmitHeadOptimizer \/ EmitEmbedOptimizer

Spec == Init /\ [][Next]_vars

-----------------------------------------------------------------------------
(* Properties of the built program.                                        *)

Weights == {o \in ModelObjects : o[1] \in {"W", "W_embed", "W_head"}}
Version(k) == IF Optimizes THEN k ELSE 0

(* All a contribution of round j of step k may depend on.                  *)
Everything(k, j) ==
    {<<<<IF Embeds THEN "tokens" ELSE "input", k, j>>>>, <<<<"targets", k, j>>>>} \cup {<<w, Version(k)>> : w \in Weights}

GradientOf(w, k) ==
    CASE w = <<"W_embed">> -> <<"dW_embed", k>>
      [] w = <<"W_head">> -> <<"dW_head", k>>
      [] OTHER -> <<"dW", k, w[2]>>

(* A tied table is trained from both ends in every round.                  *)
Summed(w, k) ==
    LET ends == IF Tied /\ w = <<"W_embed">> THEN 2 ELSE 1
    IN  [n \in 1 .. ends * cfg.rounds |-> Everything(k, (n - 1) \div ends)]

(* build_training_program emits sequential training: whatever the          *)
(* placement of the optimizer, the tying of the embedding and the choice   *)
(* of recomputed activations, every optimizer step of step k finds its     *)
(* weights updated k times and a gradient with exactly one contribution    *)
(* per round, computed from that round's tokens and targets under weights  *)
(* all of version k; after the last step every weight and every optimizer  *)
(* state has seen every step; and no task is refused.                      *)
TrainsSequentially ==
    /\ phase = "refused" => todo = <<>> /\ (prog.tasks = {} \/ ~Priced)
    /\ \A u \in updates : u.old = {<<u.of, u.step>>} /\ u.gradient = Summed(u.of, u.step)
    /\ phase = "built" =>
         /\ \A o \in ModelObjects : meaning[o] = {<<o, Version(cfg.steps)>>}
         /\ \A w \in Weights, k \in 0 .. cfg.steps - 1 : meaning[GradientOf(w, k)] = Summed(w, k)

(* The work of the program with nothing recomputed, counted from the specs.*)
PlainWork(Of(_)) ==
    cfg.steps * (cfg.rounds * (MapThenSumSet(LAMBDA i : Of(Spec_(i).ops.fwd) + Of(Spec_(i).ops.bwd), Layers)
                               + Of(specs.head.ops.fwd) + Of(specs.head.ops.bwd)
                               + IF Embeds THEN Of(specs.embed.ops.fwd) + Of(specs.embed.ops.bwd) ELSE 0)
                 + (IF Optimizes THEN MapThenSumSet(LAMBDA i : Of(Spec_(i).opt[cfg.optimizer]), Layers) ELSE 0)
                 + (IF HeadOptimizes THEN Of(HeadOptimizerTask(0).ops) ELSE 0)
                 + (IF Optimizes /\ Embeds THEN Of(EmbedOptimizerTask(0).ops) ELSE 0))

(* realize_dataflow_program and compute_summary charge each task once,     *)
(* although layers share compute blocks: recomputing activations adds to   *)
(* the program's time just the prices the rewrite table quoted for them,   *)
(* and to its effective flops nothing (GPT-OSS attention excepted, which   *)
(* counts a recomputed forward pass as useful work).                       *)
ChargedOnce ==
    phase = "built" =>
      /\ prog.totals.time = PlainWork(BlockPrice)
                            + MapThenSumSet(LAMBDA o : rewrites[o].time, {o \in SavedIds : Recomputed(o)})
      /\ cfg.family # "gpt_oss" => prog.totals.effective = PlainWork(BlockEffective)

-----------------------------------------------------------------------------
(* Properties of the specs.                                                *)

OpsNamed(ops, name, ph) == {n \in DOMAIN ops : ops[n].name = name /\ ops[n].phase = ph}
IndexerProducts == {"index_q_b_proj", "index_k_proj", "index_weight_proj"}
Convolutions == {"causal_conv1d", "mamba_depthwise_conv1d"}
IsProduct(op) == op.wt > 0 /\ op.name \notin Convolutions
SameProduct(a, b) == a.flops = b.flops /\ a.count = b.count /\ a.wt = b.wt /\ a.unit = b.unit

OneMatching(ops, name, ph, op) ==
    /\ Cardinality(OpsNamed(ops, name, ph)) = 1
    /\ \A n \in OpsNamed(ops, name, ph) : IsProduct(op) => SameProduct(ops[n], op)

(* Expert dispatch runs backwards as its opposite.                         *)
GradName(name) == CASE name = "x_scatter" -> "dy_gather" [] name = "x_gather" -> "dy_scatter" [] OTHER -> name

(* Forward operations the modules give no gradient operation.              *)
NoGradient(d) ==
    {"moe_combine_residual"} \cup (IF cfg.family \in {"llama3", "qwen3", "qwen3_moe", "olmoe", "gpt_oss"} THEN {} ELSE {"ffn_norm"})
      \cup (IF d.train_indexer THEN {} ELSE {"lightning_index_score"} \cup IndexerProducts)

ProductPaired(ops, op, trained) ==
    /\ op.name \notin IndexerProducts => OneMatching(ops.bwd, op.name, "dgrad", op)
    /\ trained => OneMatching(ops.bwd, op.name, "wgrad", op)

ForwardOf(name) ==
    CASE name = "dy_gather" -> "x_scatter" [] name = "dy_scatter" -> "x_gather" [] OTHER -> name

(* The phases of every module agree: each product of the forward pass has  *)
(* one product for the gradient of its input and one for its weights, of   *)
(* the same shape, expert count and precision; each other forward          *)
(* operation its backward one; the backward pass has no other operation;   *)
(* and recomputation repeats forward operations for no effective flops.    *)
(* The indexer of sparse attention passes no gradient to its input, and a  *)
(* frozen one has none; NoGradient lists what the modules leave out.       *)
GradientsPaired ==
    phase = "specified" =>
      \A i \in Layers :
        \E ops \in {Spec_(i).ops} :
          /\ \A n \in DOMAIN ops.fwd :
               IF IsProduct(ops.fwd[n])
               THEN ProductPaired(ops, ops.fwd[n], ops.fwd[n].name \notin NoGradient(cfg.dims))
               ELSE ops.fwd[n].name \in NoGradient(cfg.dims)
                      \/ OneMatching(ops.bwd, GradName(ops.fwd[n].name), "bwd", ops.fwd[n])
          /\ \A n \in DOMAIN ops.bwd : OpsNamed(ops.fwd, ForwardOf(ops.bwd[n].name), "fwd") # {}
          /\ \A n \in DOMAIN ops.rec :
               \E m \in DOMAIN ops.fwd :
                 ops.rec[n] \in {[ops.fwd[m] EXCEPT !.eff = 0]} \cup (IF cfg.family = "gpt_oss" THEN {ops.fwd[m]} ELSE {})

(* Weights the operations of one rank touch.                               *)
Touched(ops, Takes(_), width) ==
    FoldLeft(LAMBDA sum, op : sum + IF Takes(op) THEN op.wt * op.count * width ELSE 0, 0, ops)
TrainsWeights(op) == op.phase = "wgrad" \/ op.name \in Convolutions
IsRouted(op) == op.name \in {"routed_mlp_up", "routed_mlp_down"}

(* What a layer spec says of its parameters is what its kernels do: the    *)
(* weights read by its forward pass, with every expert of the group, are   *)
(* its parameters; the weights its backward pass differentiates are its    *)
(* trained ones; and its gradient buffer has room for just the gradients   *)
(* this rank computes.                                                     *)
ParametersTrained ==
    phase = "specified" =>
      \A i \in Layers :
        \E s \in {Spec_(i)} :
          /\ s.params = Touched(s.ops.fwd, LAMBDA op : ~IsRouted(op), 1) + Touched(s.ops.fwd, IsRouted, cfg.c.P.ep)
          /\ s.grads = Touched(s.ops.bwd, LAMBDA op : TrainsWeights(op) /\ ~IsRouted(op), 1)
                        + Touched(s.ops.bwd, LAMBDA op : TrainsWeights(op) /\ IsRouted(op), cfg.c.P.ep)
          /\ s.gBytes = HalfUp(Touched(s.ops.bwd, TrainsWeights, cfg.c.P.grad))

(* The work of training is accounted for: the operations of each layer     *)
(* spec pair up, forward with backward, its parameter, gradient and byte   *)
(* counts are what those operations touch (the modules' layer specs), and  *)
(* the built program is charged for each of its tasks once.                *)
WorkAccounted == GradientsPaired /\ ParametersTrained /\ ChargedOnce
=============================================================================
