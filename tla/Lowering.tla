------------------------------ MODULE Lowering ------------------------------
(***************************************************************************)
(* The lowering of a model family to the program the engine runs           *)
(* (dataflow_training/lowering: shaped_program, freeze_plan, freeze_program*)
(* and emit), and the executables that run it (blocks/base_blocks,         *)
(* model_families/llama3/blocks and the warm-up backward of dsv32).        *)
(*                                                                         *)
(* Lowering makes the chain of tasks of all steps and rounds, cuts it to   *)
(* what a freeze policy leaves to train, and drops the objects an exact    *)
(* layout sizes to zero.  The tasks are then launched in order.  An        *)
(* executable finds its buffers by their position in the task's lists, or  *)
(* by the first part of their names, as the code does.                     *)
(*                                                                         *)
(* Objects are tuples.  Weights are numbered by layer, the embedding below *)
(* layer 0 and the head apart, so that layer i reads y of i - 1 and hands  *)
(* its gradient to i - 1.  A weight's value is how often the optimizer has *)
(* stepped each of its fields and how often the router's bias was nudged.  *)
(* Every other value is the set of facts it was computed from; a gradient  *)
(* is the sequence of the contributions summed into it.                    *)
(***************************************************************************)
EXTENDS Integers, Sequences, SequencesExt, FiniteSets, TLC

CONSTANT Builds     \* the configurations lowered, records as in BuildType

VARIABLES
    build,      \* the configuration
    stage,      \* "idle", "new", "shaped", "frozen", "run" or "refused"
    program,    \* initial objects, tasks and final objects
    launched,   \* tasks launched so far
    store,      \* the objects there are, with their values
    applied     \* the optimizer steps so far, with the gradient each used

loweringVars == <<build, stage, program, launched, store, applied>>

Embed == -1
LmHead == -2

BlockFields == {"attn_norm_w", "wq"}
EmbedFields == {"w"}
HeadFields == {"w", "final_norm_w"}

N == build.layers
Blocks == 0 .. N - 1
Rounds == 0 .. build.rounds - 1
LastOf == build.rounds - 1

Given(condition, seq) == IF condition THEN seq ELSE <<>>

W(w) == <<"W", w>>
O(w) == <<"O", w>>
dW(s, w) == <<"dW", s, w>>
A(s, r, i) == <<"A", s, r, i>>
Y(s, r, i) == <<"y", s, r, i>>
dY(s, r, i) == <<"dy", s, r, i>>
Tokens(s, r) == <<"tokens", s, r>>
Targets(s, r) == <<"targets", s, r>>
Loss(s, r) == <<"loss", s, r>>
Round(s, r) == <<"round", s, r>>
Aux(i) == <<"Aux", i>>
AuxTemp(s, r, i) == <<"AuxTemp", s, r, i>>
dAuxTemp(s, r, i) == <<"dAuxTemp", s, r, i>>

Is(o, name) == o[1] = name
Named(seq, name) == SelectSeq(seq, LAMBDA o : Is(o, name))

-----------------------------------------------------------------------------
(* The optimizer policy: freeze() over a base rule for every field.        *)

FieldsOf(w) ==
    CASE w = Embed -> IF build.tied THEN HeadFields ELSE EmbedFields
      [] w = LmHead  -> HeadFields
      [] OTHER     -> BlockFields

(* Tied tables are one object, looked up under the head's names.           *)
NsOf(w) ==
    CASE w = Embed -> IF build.tied THEN "head" ELSE "embed"
      [] w = LmHead  -> "head"
      [] OTHER     -> "block"

(* The muon recipe steps matrices only, and no table.                      *)
BaseRule(ns, f) ==
    IF build.policy.base = "muon" /\ (ns # "block" \/ f = "attn_norm_w") THEN "adamw" ELSE build.policy.base

FrozenBy(ns, f, w) ==
    \/ ns = "block" /\ (f \in build.policy.fields \/ w \in build.policy.layers \/ <<f, w>> \in build.policy.pairs)
    \/ ns = "embed" /\ build.policy.embed
    \/ ns = "head" /\ build.policy.head

ForField(ns, f, w) == IF FrozenBy(ns, f, w) THEN "frozen" ELSE BaseRule(ns, f)

SlotsOf(rule) ==
    CASE rule = "adamw" -> {"m", "v"}
      [] rule \in {"sgdm", "muon"} -> {"m"}
      [] OTHER -> {}

(* grad_layout and opt_state_layout: what the gradient and the optimizer   *)
(* state of a weight store.                                                *)
GradFields(w) == {f \in FieldsOf(w) : ForField(NsOf(w), f, w) # "frozen"}
StateSlots(w) == UNION {{<<slot, f>> : slot \in SlotsOf(ForField(NsOf(w), f, w))} : f \in FieldsOf(w)}

-----------------------------------------------------------------------------
(* derive_freeze_plan.                                                     *)

LayerTrains(i) == \E f \in BlockFields : ForField("block", f, i) # "frozen"
EmbedTrains == \E f \in EmbedFields : ForField("embed", f, Embed) # "frozen"
HeadTrains == IF build.tied THEN EmbedTrains ELSE \E f \in HeadFields : ForField("head", f, LmHead) # "frozen"

Ce == build.objective = "ce"
NoPlan == Ce /\ \A i \in Blocks : LayerTrains(i)

(* Something below the layer trains; the layer's gradient is wanted.       *)
ProduceDy(i) == EmbedTrains \/ \E j \in Blocks : j < i /\ LayerTrains(j)

\* Fault seeded for FreezeExact: a frozen layer hands no gradient on.
RecvDyToTrain(i) == LayerTrains(i)

RecvDy(i) == LayerTrains(i) \/ ProduceDy(i)

PlanValid == NoPlan \/ ~Ce \/ EmbedTrains \/ HeadTrains \/ \E i \in Blocks : LayerTrains(i)

EmitsBwd(i) == NoPlan \/ ~Ce \/ RecvDy(i)

-----------------------------------------------------------------------------
(* build_shaped_program: the tasks.                                        *)

Task_(key, s, r, w, ins, outs, muts) ==
    [key |-> key, s |-> s, r |-> r, w |-> w, ins |-> ins, outs |-> outs, muts |-> muts]

Interleaves == build.placement = "interleaved"
Saved(s, r, i) == A(s, r, i) \notin build.levels

HasAux(i) == build.kinds[i].aux
HasTemp(i) == build.kinds[i].temp
AuxIds == FlattenSeq([n \in 1 .. N |-> Given(HasAux(n - 1), <<Aux(n - 1)>>)])

(* The share a layer consumes from or produces for, none or one.           *)
ShareOf(i) == {h \in build.shares : i \in ToSet(h.members)}
ProducerOf(i) == {h.members[1] : h \in {g \in ShareOf(i) : g.members[1] # i}}
AuxOf(s, r, i) ==
    Given(HasTemp(i), <<AuxTemp(s, r, i)>>) \o SetToSeq({AuxTemp(s, r, p) : p \in ProducerOf(i)})

RoundPrologueTask(s, r) ==
    Task_("prologue", s, r, 0, Given(r = 0, AuxIds), <<Round(s, r)>>, Given(r = 0, AuxIds))

EmbedFwdTask(s, r) ==
    Task_("embed_fwd", s, r, Embed, <<Tokens(s, r), W(Embed), Round(s, r)>>, <<Y(s, r, Embed)>>, <<>>)

BlockFwdTask(s, r, i) ==
    Task_("block_fwd", s, r, i,
          <<Y(s, r, i - 1), W(i)>> \o SetToSeq({AuxTemp(s, r, p) : p \in ProducerOf(i)})
            \o Given(HasAux(i), <<Round(s, r), Aux(i)>>),
          <<Y(s, r, i)>> \o Given(Saved(s, r, i), <<A(s, r, i)>>) \o Given(HasTemp(i), <<AuxTemp(s, r, i)>>),
          Given(HasAux(i), <<Aux(i)>>))

HeadOf == IF build.tied THEN Embed ELSE LmHead

HeadLossTask_(s, r) ==
    Task_("head_loss", s, r, HeadOf,
          <<Y(s, r, N - 1), Targets(s, r), W(HeadOf)>> \o Given(r > 0, <<dW(s, HeadOf)>>),
          <<dY(s, r, N - 1), Loss(s, r)>> \o Given(r = 0, <<dW(s, HeadOf)>>),
          Given(r > 0, <<dW(s, HeadOf)>>))

RecomputeTask_(s, r, i) ==
    Task_("block_recompute", s, r, i, <<Y(s, r, i - 1), W(i)>> \o AuxOf(s, r, i), <<A(s, r, i)>>, <<>>)

(* The companion of shared aux data: made by the last consumer, summed     *)
(* into by the middle ones, read by the producer.                          *)
GradShare(i) == {h \in ShareOf(i) : h.grad}
LastConsumer(i) == \E h \in GradShare(i) : Last(h.members) = i
Leads(i) == \E h \in GradShare(i) : h.members[1] = i
Companion(s, r, i) == SetToSeq({dAuxTemp(s, r, h.members[1]) : h \in GradShare(i)})

StepAggregate(r, i) == HasAux(i) /\ r = LastOf
Nudges(r, i) == StepAggregate(r, i) /\ build.bias

BlockBwdTask(s, r, i) ==
    Task_("block_bwd", s, r, i,
          <<dY(s, r, i), A(s, r, i), Y(s, r, i - 1), W(i)>> \o AuxOf(s, r, i) \o Given(r > 0, <<dW(s, i)>>)
            \o Given(~LastConsumer(i), Companion(s, r, i))
            \o Given(StepAggregate(r, i), <<Aux(i)>>)
            \o Given(StepAggregate(r, i) /\ build.retained /\ HasTemp(i), [n \in 1 .. r |-> AuxTemp(s, n - 1, i)]),
          <<dY(s, r, i - 1)>> \o Given(r = 0, <<dW(s, i)>>) \o Given(LastConsumer(i), Companion(s, r, i)),
          Given(r > 0, <<dW(s, i)>>) \o Given(~LastConsumer(i) /\ ~Leads(i), Companion(s, r, i))
            \o Given(Nudges(r, i), <<W(i)>>))

(* The head has already made the gradient of a tied table.                 *)
EmbedBwdTask(s, r) ==
    LET makes == r = 0 /\ ~build.tied
    IN  Task_("embed_bwd", s, r, Embed, <<dY(s, r, Embed), Tokens(s, r)>> \o Given(~makes, <<dW(s, Embed)>>),
              Given(makes, <<dW(s, Embed)>>), Given(~makes, <<dW(s, Embed)>>))

OptimizerTask(s, w) ==
    Task_("optimizer", s, LastOf, w, <<W(w), dW(s, w), O(w)>>, <<>>, <<W(w), O(w)>>)

\* Fault seeded for TrainsEveryRound: a layer is stepped after every round.
BackwardOfEveryRound(s, r, i) ==
    Given(~Saved(s, r, i), <<RecomputeTask_(s, r, i)>>) \o <<BlockBwdTask(s, r, i)>>
      \o Given(Interleaves, <<OptimizerTask(s, i)>>)

BackwardOf(s, r, i) ==
    Given(~Saved(s, r, i), <<RecomputeTask_(s, r, i)>>) \o <<BlockBwdTask(s, r, i)>>
      \o Given(Interleaves /\ r = LastOf, <<OptimizerTask(s, i)>>)

RoundTasks(s, r) ==
    <<RoundPrologueTask(s, r), EmbedFwdTask(s, r)>> \o [n \in 1 .. N |-> BlockFwdTask(s, r, n - 1)]
      \o <<HeadLossTask_(s, r)>> \o Given(Interleaves /\ r = LastOf /\ ~build.tied, <<OptimizerTask(s, LmHead)>>)
      \o FlattenSeq([n \in 1 .. N |-> BackwardOf(s, r, N - n)])
      \o <<EmbedBwdTask(s, r)>> \o Given(Interleaves /\ r = LastOf, <<OptimizerTask(s, Embed)>>)

TailTasks(s) ==
    <<OptimizerTask(s, Embed)>> \o [n \in 1 .. N |-> OptimizerTask(s, n - 1)]
      \o Given(~build.tied, <<OptimizerTask(s, LmHead)>>)

StepTasks(s) ==
    FlattenSeq([n \in 1 .. build.rounds |-> RoundTasks(s, n - 1)]) \o Given(~Interleaves, TailTasks(s))

Params == {Embed} \cup Blocks \cup (IF build.tied THEN {} ELSE {LmHead})
Persistent == {W(w) : w \in Params} \cup {O(w) : w \in Params} \cup {Aux(i) : i \in {j \in Blocks : HasAux(j)}}
Steps == 0 .. build.steps - 1
OverRounds(Made(_, _)) == {Made(s, r) : s \in Steps, r \in Rounds}

Shaped ==
    [initial |-> Persistent \cup OverRounds(Tokens) \cup OverRounds(Targets),
     tasks   |-> FlattenSeq([n \in 1 .. build.steps |-> StepTasks(n - 1)]),
     final   |-> Persistent \cup OverRounds(Loss)]

-----------------------------------------------------------------------------
(* to_frozen_form.                                                         *)

Dropping(seq, dead) == SelectSeq(seq, LAMBDA o : o \notin dead)

Stripped(t, dead) ==
    [t EXCEPT !.ins = Dropping(@, dead), !.outs = Dropping(@, dead), !.muts = Dropping(@, dead)]

MapSeq(seq, Op(_)) == [n \in DOMAIN seq |-> Op(seq[n])]

(* No backward for a layer that no gradient reaches, hence no context; the *)
(* backwards that stay keep all their outputs.                             *)
CeDropped(t) ==
    \/ t.key \in {"block_bwd", "block_recompute"} /\ ~RecvDy(t.w)
    \/ t.key = "embed_bwd" /\ ~EmbedTrains

CeDeadOf(t) ==
    CASE t.key \in {"block_bwd", "embed_bwd"} /\ CeDropped(t) -> ToSet(t.outs)
      [] t.key = "block_fwd" /\ ~RecvDy(t.w) -> ToSet(Named(t.outs, "A"))
      [] OTHER -> {}

CeFrozenForm(p) ==
    LET dead == UNION {CeDeadOf(t) : t \in ToSet(p.tasks)}
    IN  [p EXCEPT !.tasks = MapSeq(SelectSeq(@, LAMBDA t : ~CeDropped(t)), LAMBDA t : Stripped(t, dead)),
                  !.final = @ \ dead]

(* The warm-up of an indexer: no head, no gradient between layers, and a   *)
(* loss that the first contributing backward makes and the others add to.  *)
KlDropped(t) ==
    \/ t.key \in {"head_loss", "embed_bwd"}
    \/ t.key = "optimizer" /\ t.w \in {Embed, LmHead}

Contributes(t) == t.key = "block_bwd" /\ t.w \in build.contributors

KlBwd(t, dead, first) ==
    LET u    == Stripped(t, dead)
        loss == <<Loss(t.s, t.r)>>
    IN  CASE ~Contributes(t) -> u
          [] Contributes(t) /\ first -> [u EXCEPT !.outs = @ \o loss]
          [] OTHER -> [u EXCEPT !.ins = @ \o loss, !.muts = @ \o loss]

IndexerKlForm(p) ==
    LET dead == {o \in UNION {ToSet(t.outs) : t \in ToSet(p.tasks)} : Is(o, "dy")}
                  \cup {o \in UNION {ToSet(t.outs) : t \in {u \in ToSet(p.tasks) : KlDropped(u)}} : ~Is(o, "loss")}
        First(n) == \A k \in 1 .. n - 1 : ~(Contributes(p.tasks[k]) /\ p.tasks[k].s = p.tasks[n].s
                                              /\ p.tasks[k].r = p.tasks[n].r)
        changed == [n \in DOMAIN p.tasks |->
                      IF p.tasks[n].key = "block_bwd" THEN KlBwd(p.tasks[n], dead, First(n)) ELSE p.tasks[n]]
    IN  [initial |-> {o \in p.initial : ~Is(o, "targets")},
         tasks   |-> SelectSeq(changed, LAMBDA t : ~KlDropped(t)),
         final   |-> p.final \ dead]

-----------------------------------------------------------------------------
(* apply_exact_sizes: what the layouts size to zero does not exist, and    *)
(* the tasks left without a purpose go with it.                            *)

DeadSizes(p) ==
    {o \in p.initial : Is(o, "O") /\ StateSlots(o[2]) = {}}
      \cup {o \in UNION {ToSet(t.outs) : t \in ToSet(p.tasks)} : Is(o, "dW") /\ GradFields(o[3]) = {}}

Alive(t) ==
    /\ t.outs # <<>> \/ t.muts # <<>>
    /\ t.key = "optimizer" => Named(t.ins, "dW") # <<>>

ExactForm(p) ==
    LET dead  == DeadSizes(p)
        tasks == MapSeq(p.tasks, LAMBDA t : Stripped(t, dead))
    IN  [initial |-> p.initial \ dead,
         tasks   |-> IF dead = {} THEN tasks ELSE SelectSeq(tasks, Alive),
         final   |-> p.final \ dead]

-----------------------------------------------------------------------------
(* Values.                                                                 *)

InitialValue(o) ==
    CASE Is(o, "W") -> [of |-> [f \in FieldsOf(o[2]) |-> 0], bias |-> 0]
      [] Is(o, "O") -> 0
      [] Is(o, "Aux") -> [step |-> <<>>, all |-> 0]
      [] OTHER -> {o}

FactsOf(o) ==
    CASE Is(o, "W") -> {<<"W", o[2], store[o]>>}
      [] Is(o, "Aux") -> {<<"Aux", store[o].step>>}
      [] Is(o, "dAuxTemp") -> {<<"dAuxTemp", store[o]>>}
      [] OTHER -> store[o]

Facts(seq) == UNION {FactsOf(o) : o \in ToSet(seq)}

(* What a layer hands on: the facts of its side data stay with it.         *)
Stream(facts) == {f \in facts : f[1] \in {"W", "tokens", "targets"}}

Values(seq, v) == [o \in ToSet(seq) |-> v]

(* A contribution to a gradient: the first one made, the others added.     *)
SummedInto(target, accum, key, facts) ==
    Values(target, (IF accum THEN store[target[1]] ELSE <<>>) \o <<[by |-> key, facts |-> facts]>>)

-----------------------------------------------------------------------------
(* The executables.                                                        *)

NextTask == program.tasks[launched + 1]

(* What the engine asks of a task: its inputs are there, what it changes   *)
(* is among them, what it makes is new.                                    *)
Launchable(t) ==
    /\ ToSet(t.ins) \subseteq DOMAIN store
    /\ ToSet(t.muts) \subseteq ToSet(t.ins)
    /\ ToSet(t.outs) \cap DOMAIN store = {}

(* The next task has this key and leaves these values behind.              *)
Launches_(key) ==
    /\ stage = "run" /\ launched < Len(program.tasks)
    /\ NextTask.key = key /\ Launchable(NextTask)
    /\ launched' = launched + 1
    /\ UNCHANGED <<build, stage, program>>

LaunchRoundPrologue ==
    LET t == NextTask IN
    /\ Launches_("prologue")
    /\ store' = [o \in (IF t.r = 0 THEN ToSet(Named(t.muts, "Aux")) ELSE {}) |-> [store[o] EXCEPT !.step = <<>>]]
                  @@ Values(t.outs, {}) @@ store
    /\ UNCHANGED applied

LaunchEmbedFwd ==
    LET t == NextTask IN
    /\ Launches_("embed_fwd")
    /\ store' = Values(<<t.outs[1]>>, Facts(<<t.ins[1], t.ins[2]>>)) @@ store
    /\ UNCHANGED applied

(* The context is found by its name, and left out when it is recomputed.   *)
LaunchBlockFwd ==
    LET t    == NextTask
        main == Facts(<<t.ins[1], t.ins[2]>>)
        side == ToSet(Named(t.outs, "AuxTemp")) \cup Facts(Named(t.ins, "AuxTemp"))
    IN  /\ Launches_("block_fwd")
        /\ store' = [o \in ToSet(Named(t.muts, "Aux")) |->
                       [step |-> Append(store[o].step, t.r), all |-> store[o].all + 1]]
                      @@ [o \in ToSet(Named(t.outs, "AuxTemp")) |-> {o}]
                      @@ Values(Named(t.outs, "A"), main \cup side)
                      @@ Values(<<t.outs[1]>>, main) @@ store
        /\ UNCHANGED applied

(* The head's gradient is the object changed, or the third one made.       *)
LaunchHeadLoss ==
    LET t     == NextTask
        accum == t.muts # <<>>
        dwh   == IF accum THEN <<t.muts[1]>> ELSE SubSeq(t.outs, 3, Len(t.outs))
        facts == Facts(<<t.ins[1], t.ins[2], t.ins[3]>>)
    IN  /\ Launches_("head_loss")
        /\ store' = SummedInto(dwh, accum, t.key, facts) @@ Values(<<t.outs[1], t.outs[2]>>, facts) @@ store
        /\ UNCHANGED applied

(* No side effects: the counts of Aux are not an input of a recompute.     *)
LaunchBlockRecompute ==
    LET t == NextTask IN
    /\ Launches_("block_recompute")
    /\ store' = Values(<<t.outs[1]>>, Facts(<<t.ins[1], t.ins[2]>> \o Named(t.ins, "AuxTemp"))) @@ store
    /\ UNCHANGED applied

(* A consumer adds its rows to the companion; the producer reads them.     *)
Companions(t) ==
    [o \in ToSet(Named(t.outs, "dAuxTemp")) |-> {t.w}]
      @@ [o \in ToSet(Named(t.muts, "dAuxTemp")) |-> store[o] \cup {t.w}]
Received(t) == Named(Dropping(t.ins, ToSet(t.muts)), "dAuxTemp")

(* The step's counts reach the last round's backward: a family without an  *)
(* auxiliary loss nudges the router's bias by them, inside W.              *)
Nudged(t) ==
    [o \in (IF Named(t.ins, "Aux") # <<>> /\ build.bias THEN {W(t.w)} ELSE {}) |->
       [store[o] EXCEPT !.bias = @ + 1]]

(* dy, the context, the input and the weights by position.  The gradient   *)
(* is added to when it is the first object changed, else made.             *)
LaunchBlockBwd ==
    LET t     == NextTask
        accum == t.muts # <<>> /\ Is(t.muts[1], "dW")
        dw    == IF accum THEN <<t.muts[1]>> ELSE Named(Tail(t.outs), "dW")
        main  == Facts(SubSeq(t.ins, 1, 4))
        side  == Facts(Named(t.ins, "AuxTemp") \o Named(t.ins, "Aux") \o Received(t))
    IN  /\ Launches_("block_bwd") /\ Ce
        /\ store' = SummedInto(dw, accum, t.key, main \cup side) @@ Companions(t) @@ Nudged(t)
                      @@ Values(<<t.outs[1]>>, Stream(main)) @@ store
        /\ UNCHANGED applied

(* The warm-up's backward has no dy: its gradient and its loss are found   *)
(* by name.                                                                *)
LaunchWarmupBwd ==
    LET t     == NextTask
        accum == Named(t.muts, "dW") # <<>>
        dw    == Named(IF accum THEN t.muts ELSE t.outs, "dW")
        facts == Facts(SubSeq(t.ins, 1, 3) \o Named(t.ins, "AuxTemp") \o Received(t))
    IN  /\ Launches_("block_bwd") /\ ~Ce
        /\ store' = SummedInto(dw, accum, t.key, facts) @@ Companions(t)
                      @@ [o \in ToSet(Named(t.outs, "loss")) |-> {<<"kl", t.w>>}]
                      @@ [o \in ToSet(Named(t.muts, "loss")) |-> store[o] \cup {<<"kl", t.w>>}] @@ store
        /\ UNCHANGED applied

LaunchEmbedBwd ==
    LET t     == NextTask
        accum == t.muts # <<>>
        dwe   == <<IF accum THEN t.muts[1] ELSE t.outs[1]>>
    IN  /\ Launches_("embed_bwd")
        /\ store' = SummedInto(dwe, accum, t.key, Facts(<<t.ins[1], t.ins[2]>>)) @@ store
        /\ UNCHANGED applied

(* Every field by its own rule; no optimizer state where all are stateless.*)
LaunchOptimizerStep ==
    LET t == NextTask
        w == t.muts[1]
    IN  /\ Launches_("optimizer")
        /\ store' = [o \in ToSet(Tail(t.muts)) |-> store[o] + 1]
                      @@ Values(<<w>>, [store[w] EXCEPT !.of = [f \in DOMAIN @ |->
                            IF ForField(NsOf(t.w), f, t.w) = "frozen" THEN @[f] ELSE @[f] + 1]]) @@ store
        /\ applied' = applied \cup {[w |-> t.w, s |-> t.s, grad |-> store[t.ins[2]]]}

-----------------------------------------------------------------------------

Refused == ~PlanValid \/ build.placement \notin {"interleaved", "tail"}

Shape ==
    /\ stage = "new"
    /\ IF Refused THEN stage' = "refused" /\ UNCHANGED program
       ELSE stage' = "shaped" /\ program' = Shaped
    /\ UNCHANGED <<build, launched, store, applied>>

Freeze ==
    /\ stage = "shaped" /\ stage' = "frozen"
    /\ program' = CASE NoPlan -> program [] Ce /\ ~NoPlan -> CeFrozenForm(program) [] OTHER -> IndexerKlForm(program)
    /\ UNCHANGED <<build, launched, store, applied>>

ApplyExactSizes ==
    /\ stage = "frozen" /\ stage' = "run"
    /\ program' = ExactForm(program)
    /\ store' = [o \in program'.initial |-> InitialValue(o)]
    /\ UNCHANGED <<build, launched, applied>>

NoProgram == [initial |-> {}, tasks |-> <<>>, final |-> {}]

LoweringInit ==
    /\ build \in Builds /\ stage = "new" /\ program = NoProgram
    /\ launched = 0 /\ store = <<>> /\ applied = {}

LoweringNext ==
    \/ Shape \/ Freeze \/ ApplyExactSizes
    \/ LaunchRoundPrologue \/ LaunchEmbedFwd \/ LaunchBlockFwd \/ LaunchHeadLoss
    \/ LaunchBlockRecompute \/ LaunchBlockBwd \/ LaunchWarmupBwd \/ LaunchEmbedBwd \/ LaunchOptimizerStep

LoweringSpec == LoweringInit /\ [][LoweringNext]_loweringVars

-----------------------------------------------------------------------------
(* Properties.                                                             *)

(* What a weight is when a step begins: its trained fields stepped once    *)
(* for every step before.                                                  *)
Trained(w) == IF Ce \/ w \in Blocks THEN GradFields(w) ELSE {}
NudgedLayer(w) == w \in Blocks /\ Ce /\ HasAux(w) /\ build.bias /\ EmitsBwd(w)
AtStep(s, w) ==
    [of |-> [f \in FieldsOf(w) |-> IF f \in Trained(w) THEN s ELSE 0], bias |-> IF NudgedLayer(w) THEN s ELSE 0]

(* What round r of step s contributes to the gradient of w.                *)
MainFacts(s, r, w) ==
    LET path == IF Ce THEN Params ELSE {j \in Params : j # LmHead /\ j <= w}
    IN  {<<"W", j, AtStep(s, j)>> : j \in path} \cup {Tokens(s, r)} \cup (IF Ce THEN {Targets(s, r)} ELSE {})
SideFacts(s, r, i) ==
    LET rounds == IF build.retained /\ StepAggregate(r, i) THEN 0 .. r ELSE {r}
    IN  (IF HasTemp(i) THEN {AuxTemp(s, k, i) : k \in rounds} ELSE {})
          \cup {AuxTemp(s, r, p) : p \in ProducerOf(i)}
          \cup (IF Ce /\ StepAggregate(r, i) THEN {<<"Aux", [n \in 1 .. build.rounds |-> n - 1]>>} ELSE {})
          \cup (IF Leads(i) THEN {<<"dAuxTemp", ToSet(h.members) \ {i}>> : h \in GradShare(i)} ELSE {})
ContributionsTo(s, r, w) ==
    CASE w = LmHead -> {[by |-> "head_loss", facts |-> MainFacts(s, r, w)]}
      [] w = Embed -> {[by |-> key, facts |-> MainFacts(s, r, w)] :
                         key \in {"embed_bwd"} \cup (IF build.tied THEN {"head_loss"} ELSE {})}
      [] OTHER -> {[by |-> "block_bwd", facts |-> MainFacts(s, r, w) \cup SideFacts(s, r, w)]}

\* The gradient an optimizer step uses is the sum of one contribution of every
\* round of its step and of nothing else.  Each contribution was computed from
\* the tokens and targets of its round at the weights the step began with,
\* though the optimizer steps are interleaved with the last round's backward,
\* contexts are recomputed, and the router's counts and the rows of shared side
\* data are those of the whole step and of every consumer (build_shaped_program,
\* to_frozen_form, apply_exact_sizes and the executables' launch).
TrainsEveryRound ==
    \A u \in applied :
        LET due == UNION {ContributionsTo(u.s, r, u.w) : r \in Rounds}
        IN  ToSet(u.grad) = due /\ Len(u.grad) = Cardinality(due)

(* What the executable for a task takes by position.                       *)
Contract(t) ==
    LET Begins(seq, names) == Len(seq) >= Len(names) /\ \A n \in DOMAIN names : Is(seq[n], names[n])
    IN  CASE t.key = "embed_fwd" -> Begins(t.ins, <<"tokens", "W">>) /\ Begins(t.outs, <<"y">>)
          [] t.key = "block_fwd" -> Begins(t.ins, <<"y", "W">>) /\ Begins(t.outs, <<"y">>)
          [] t.key = "head_loss" -> Begins(t.ins, <<"y", "targets", "W">>) /\ Begins(t.outs, <<"dy", "loss">>)
          [] t.key = "block_recompute" -> Begins(t.ins, <<"y", "W">>) /\ Begins(t.outs, <<"A">>)
          [] t.key = "block_bwd" /\ Ce -> Begins(t.ins, <<"dy", "A", "y", "W">>) /\ Begins(t.outs, <<"dy">>)
          [] t.key = "block_bwd" /\ ~Ce -> Begins(t.ins, <<"A", "y", "W">>)
          [] t.key = "embed_bwd" -> Begins(t.ins, <<"dy", "tokens">>) /\ Begins(t.muts \o t.outs, <<"dW">>)
          [] t.key = "optimizer" -> Begins(t.ins, <<"W", "dW">>) /\ Begins(t.muts, <<"W">>)
          [] OTHER -> TRUE

Finished == stage = "run" /\ launched = Len(program.tasks)

\* However a policy freezes the model, the program that is left can run to its
\* end: the next task finds its inputs, in the positions its executable expects.
\* At the end every object promised is there, every field the policy trains was
\* stepped once in every step, no frozen field ever was, and the counts of all
\* of training were counted once a round though contexts are recomputed
\* (derive_freeze_plan, to_frozen_form, apply_exact_sizes).
FreezeExact ==
    /\ stage = "run" /\ ~Finished => Launchable(NextTask) /\ Contract(NextTask)
    /\ Finished =>
         /\ program.final \subseteq DOMAIN store
         /\ \A w \in Params : store[W(w)] = AtStep(build.steps, w)
         /\ \A o \in program.final :
              /\ Is(o, "Aux") => store[o].all = build.steps * build.rounds
              /\ Is(o, "O") => store[o] = IF Trained(o[2]) = {} THEN 0 ELSE build.steps
              /\ Is(o, "loss") /\ ~Ce => store[o] = {<<"kl", i>> : i \in build.contributors}

=============================================================================
