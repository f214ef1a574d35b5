-------------------------------- MODULE Blocks --------------------------------
(* What the executables of the model families do with the objects the        *)
(* lowering wires to them: the forward of a block is a list of stages over a  *)
(* dictionary of intermediates, the recompute a prefix of the same list, and  *)
(* the backward reads what they saved.  A value is the set of what it was     *)
(* made from (the tokens of a round, a top-k selection); its numbers are      *)
(* left out.  A selection that is made again may come out differently.        *)
EXTENDS Integers, Sequences, SequencesExt, FiniteSets, FiniteSetsExt, TLC

CONSTANTS
    Chains,     \* stacks of layers: [layers, rounds, frozen, warm, indexer, retained, tied, biases]
    Segments,   \* the sequences packed into a round
    Chunks      \* the row chunks the head's loss goes through

VARIABLES
    chain,      \* the stack that trains
    spot,       \* the task that is next: its phase, round and layer
    ctx,        \* A: what each layer saved of this round, or NoCtx
    picks,      \* AuxTemp: the decisions of each round and layer
    outs,       \* y of each layer, this round
    grads,      \* dW: what was added to each field of each object
    deposits,   \* dAuxTemp: the followers' targets
    counts,     \* Aux: the rounds counted in each layer's histogram
    bias,       \* the histograms each layer's balance bias was moved by
    losses,     \* the terms of the warm-up's loss
    faults      \* what a launch looked for and did not find

blockVars == <<chain, spot, ctx, picks, outs, grads, deposits, counts, bias, losses, faults>>

-----------------------------------------------------------------------------
\* A stage: the intermediates it reads, drops and makes, the weights it uses,
\* the saved fields it emits; which of those it writes only where the layout
\* has them, the aux fields it decides or uses, and whether it selects

Stage(reads, pops, makes, w, emits) ==
    [reads |-> reads, pops |-> pops, makes |-> makes, w |-> w, emits |-> emits,
     soft |-> {}, decides |-> {}, uses |-> {}, selects |-> FALSE, aux_temp |-> FALSE]
Soft(s) == [s EXCEPT !.soft = s.emits]

\* llama3: norm, rotary attention and a dense SwiGLU tail

AttnNorm == Stage({"x"}, {}, {"h1"}, {"attn_norm_w"}, {"rstd_attn"})
QkvRope == Stage({}, {"h1"}, {"q", "k", "v"}, {"wq", "wk", "wv"}, {"q", "k", "v"})
Attn == Stage({}, {"q", "k", "v"}, {"attn_out"}, {}, {"lse", "attn_out"})
Resid1Norm2 == Stage({"x"}, {"attn_out"}, {"h_mid", "h2"}, {"wo", "ffn_norm_w"}, {"h_mid", "rstd_ffn"})
UpProj == Soft(Stage({}, {"h2"}, {"x1", "x3"}, {"w1", "w3"}, {"x1", "x3"}))
SwigluStage == Stage({}, {"x1", "x3"}, {"s"}, {}, {})
DownResid == Stage({}, {"s", "h_mid"}, {"y"}, {"w2"}, {})

LlamaStages == <<AttnNorm, QkvRope, Attn, Resid1Norm2>>
DenseStages == <<UpProj, SwigluStage, DownResid>>
LlamaWeights == {"attn_norm_w", "wq", "wk", "wv", "wo", "ffn_norm_w"}
DenseWeights == {"w1", "w3", "w2"}
LlamaCtx == {"rstd_attn", "q", "k", "v", "lse", "attn_out", "h_mid", "rstd_ffn"}
DenseCtx == {"x1", "x3"}
LlamaReads == {"attn_out", "q", "k", "v", "lse", "rstd_attn"}
LlamaGrads == {"wo", "wq", "wk", "wv", "attn_norm_w"}
DenseReads(resid) == {resid, "rstd_ffn", "x1", "x3"}
DenseGrads == {"w2", "w1", "w3", "ffn_norm_w"}

\* gpt2: LayerNorms with biases, learned positions, a GELU tail

GptLn1 == Stage({"x"}, {}, {"h1"}, {"attn_norm_w"}, {"mean_attn", "rstd_attn"})
GptQkv == Stage({}, {"h1"}, {"q", "k", "v"}, {"w_qkv"}, {"q", "k", "v"})
GptResid == Stage({"x"}, {"attn_out"}, {"h_mid", "h2"}, {"wo", "ffn_norm_w"}, {"h_mid", "mean_ffn", "rstd_ffn"})
GptFc == Stage({}, {"h2"}, {"g"}, {"w_fc"}, {"x_fc"})
GptProj == Stage({}, {"g", "h_mid"}, {"y"}, {"w_proj"}, {})
GptStages == <<GptLn1, GptQkv, Attn, GptResid, GptFc, GptProj>>

GptWeights ==
    {"attn_norm_w", "w_qkv", "wo", "ffn_norm_w", "w_fc", "w_proj"}
      \cup (IF chain.biases THEN {"attn_norm_b", "b_qkv", "b_o", "ffn_norm_b", "b_fc", "b_proj"} ELSE {})
GptCtx ==
    {"mean_attn", "rstd_attn", "q", "k", "v", "lse", "attn_out", "h_mid", "mean_ffn", "rstd_ffn", "x_fc"}
GptReads ==
    {"h_mid", "mean_ffn", "rstd_ffn", "x_fc", "attn_out", "q", "k", "v", "lse", "mean_attn", "rstd_attn"}
GptGrads ==
    {"w_proj", "b_proj", "w_fc", "b_fc", "ffn_norm_w", "ffn_norm_b", "wo", "b_o", "w_qkv", "b_qkv",
     "attn_norm_w", "attn_norm_b"}

\* qwen3: per-head norms of q and k, saved before the norm
QkvQkNorm ==
    Stage({}, {"h1"}, {"qn", "kn", "v"}, {"wq", "wk", "wv", "q_norm_w", "k_norm_w"},
          {"qm", "km", "rstd_q", "rstd_k", "v"})
RopeStage == Stage({}, {"qn", "kn"}, {"q", "k"}, {}, {})

Qwen3Stages == <<AttnNorm, QkvQkNorm, RopeStage, Attn, Resid1Norm2>>
Qwen3Weights == {"attn_norm_w", "wq", "wk", "wv", "q_norm_w", "k_norm_w", "wo", "ffn_norm_w"}
Qwen3Ctx ==
    {"rstd_attn", "qm", "km", "rstd_q", "rstd_k", "v", "lse", "attn_out", "h_mid", "rstd_ffn"}
Qwen3Reads == {"attn_out", "qm", "km", "rstd_q", "rstd_k", "v", "lse", "rstd_attn"}
Qwen3Grads == {"wo", "q_norm_w", "k_norm_w", "wq", "wk", "wv", "attn_norm_w"}

\* olmoe: the same with norms over whole rows
OlmoeStages == <<AttnNorm, QkvQkNorm, RopeStage, Attn, Resid1Norm2>>
OlmoeWeights == {"attn_norm_w", "wq", "wk", "wv", "q_norm_w", "k_norm_w", "wo", "ffn_norm_w"}
OlmoeCtx ==
    {"rstd_attn", "qm", "km", "rstd_q", "rstd_k", "v", "lse", "attn_out", "h_mid", "rstd_ffn"}
OlmoeReads == {"attn_out", "qm", "km", "rstd_q", "rstd_k", "v", "lse", "rstd_attn"}
OlmoeGrads == {"wo", "q_norm_w", "k_norm_w", "wq", "wk", "wv", "attn_norm_w"}

\* qwen3.5: gated DeltaNet layers, and gated attention layers

DeltaProj == Stage({}, {"h1"}, {"qkvz", "ba"}, {"w_qkvz", "w_ba"}, {"qkvz", "ba"})
DeltaConv == Stage({"qkvz"}, {}, {"post_conv"}, {"w_conv"}, {})
DeltaHeads == Stage({"post_conv"}, {}, {"qn", "kn", "v_h"}, {}, {})
DeltaFla ==
    Stage({}, {"qn", "kn", "v_h", "post_conv", "ba"}, {"core_out"}, {"A_log", "dt_bias"},
          {"g_post", "A_int", "core_out"})
DeltaOut == Stage({"x"}, {"core_out", "qkvz"}, {"h_mid"}, {"lin_norm_w", "w_out"}, {"rstd_gate", "xo"})
FfnNorm == Stage({"h_mid"}, {}, {"h2"}, {"ffn_norm_w"}, {"rstd_ffn"})

DeltaStages == <<AttnNorm, DeltaProj, DeltaConv, DeltaHeads, DeltaFla, DeltaOut, FfnNorm>>
DeltaWeights ==
    {"attn_norm_w", "w_qkvz", "w_ba", "w_conv", "A_log", "dt_bias", "lin_norm_w", "w_out", "ffn_norm_w"}
DeltaCtx == {"rstd_attn", "qkvz", "ba", "g_post", "A_int", "core_out", "rstd_gate", "xo", "rstd_ffn"}
DeltaReads == {"qkvz", "core_out", "rstd_gate", "ba", "g_post", "A_int", "rstd_attn"}
DeltaGrads == {"w_out", "lin_norm_w", "A_log", "dt_bias", "w_conv", "w_qkvz", "w_ba", "attn_norm_w"}

GatedQkv == Stage({}, {"h1"}, {"qm", "gate", "km", "v"}, {"wq", "wk", "wv"}, {"qm", "km", "gate", "v"})
GatedNorm == Stage({}, {"qm", "km"}, {"q", "k"}, {"q_norm_w", "k_norm_w"}, {"rstd_q", "rstd_k"})
GateO == Stage({"x"}, {"attn_out", "gate"}, {"h_mid"}, {"wo"}, {"xo"})

GatedStages == <<AttnNorm, GatedQkv, GatedNorm, Attn, GateO, FfnNorm>>
GatedWeights == {"attn_norm_w", "wq", "wk", "wv", "q_norm_w", "k_norm_w", "wo", "ffn_norm_w"}
GatedCtx ==
    {"rstd_attn", "qm", "km", "rstd_q", "rstd_k", "gate", "v", "lse", "attn_out", "xo", "rstd_ffn"}
GatedReads == {"gate", "attn_out", "qm", "km", "rstd_q", "rstd_k", "v", "lse", "rstd_attn"}
GatedGrads == {"wo", "q_norm_w", "k_norm_w", "wq", "wk", "wv", "attn_norm_w"}

\* deepseek v3: latent attention, its compressed latents saved
MlaQ == Soft(Stage({"h1"}, {}, {"q_full"}, {"w_q_a", "q_a_norm_w", "w_q_b"}, {"q_a", "rstd_qa"}))
MlaKv == Soft(Stage({}, {"h1"}, {"k_full", "v_pad"}, {"w_kv_a", "kv_a_norm_w", "w_kv_b"}, {"kv_a", "rstd_kva"}))
MlaAttn ==
    [Stage({}, {"q_full", "k_full", "v_pad"}, {"attn_out"}, {}, {"lse", "attn_out"}) EXCEPT !.soft = {"attn_out"}]
MlaResid == Soft(Resid1Norm2)

MlaStages == <<AttnNorm, MlaQ, MlaKv, MlaAttn, MlaResid>>
MlaWeights ==
    {"attn_norm_w", "w_q_a", "q_a_norm_w", "w_q_b", "w_kv_a", "kv_a_norm_w", "w_kv_b", "wo", "ffn_norm_w"}
MlaCtx == {"rstd_attn", "q_a", "rstd_qa", "kv_a", "rstd_kva", "lse", "attn_out", "h_mid", "rstd_ffn"}
MlaReads == {"attn_out", "q_a", "rstd_qa", "kv_a", "rstd_kva", "lse", "rstd_attn"}
MlaGrads == {"wo", "w_kv_b", "kv_a_norm_w", "w_q_b", "q_a_norm_w", "w_q_a", "w_kv_a", "attn_norm_w"}

\* deepseek v3.2: an indexer selects the keys; the selection is never redone
IdxFields == {"w_idx_q", "w_idx_k", "idx_k_ln_w", "idx_k_ln_b", "w_idx_w"}

DsaQ(ready) == IF ready THEN MlaQ ELSE [MlaQ EXCEPT !.makes = @ \cup {"q_lora_n_idx"}]
DsaKv(ready) ==
    IF ready THEN MlaKv
    ELSE [MlaKv EXCEPT !.pops = @ \cup {"q_lora_n_idx"}, !.makes = @ \cup {"q_idx", "k_idx", "idx_wts"},
                       !.w = @ \cup IdxFields]
DsaSelect ==
    [Stage({}, {"q_idx", "k_idx", "idx_wts"}, {}, {}, {}) EXCEPT
       !.decides = {"dsa_idx"}, !.selects = TRUE, !.aux_temp = TRUE]
\* The selection attended to: a producer's, where the layer shares one
DsaAttn(shared) ==
    [Stage(IF shared THEN {"shared_idx"} ELSE {}, {"v_pad", "q_full", "k_full"}, {"attn_out"}, {}, {"lse", "attn_out"})
       EXCEPT !.uses = IF shared THEN {} ELSE {"dsa_idx"}]

DsaStages(ready) == <<AttnNorm, DsaQ(ready), DsaKv(ready), DsaSelect, DsaAttn(FALSE), MlaResid>>
DsaWeights == MlaWeights \cup IdxFields
DsaReads == MlaReads \cup {"dsa_idx"}
KlGrads == {"w_idx_q", "idx_k_ln_w", "idx_k_ln_b", "w_idx_k", "w_idx_w"}

\* What is saved when only the indexer trains, and what its backward reads
WarmupCtx == {"rstd_attn", "q_a", "rstd_qa", "kv_a", "rstd_kva", "lse"}
WarmupReads == {"rstd_attn", "q_a", "rstd_qa", "kv_a", "rstd_kva", "lse"}

\* glm 5.2: followers attend to their leader's selection
FollowerStages == <<AttnNorm, MlaQ, MlaKv, DsaAttn(TRUE), MlaResid>>

\* The routed tail: top-k, sort and gather, experts, shared expert, combine
LblFields == IF chain.retained THEN {"lbl_x", "lbl_probs"} ELSE {}
Route(bias_w) ==
    [Soft(Stage({"h2"}, {}, {"logits", "route_w", "route_ids"}, {"w_router"} \cup bias_w, {"router_logits"})) EXCEPT
       !.decides = {"route_w", "route_ids"} \cup LblFields, !.selects = TRUE]
Dispatch ==
    [Stage({"h2", "route_ids"}, {}, {"order", "offsets", "slot_of", "xp"}, {}, {}) EXCEPT
       !.decides = {"route_order", "route_offsets"}]
Experts13 == Soft(Stage({"offsets"}, {"xp"}, {"h13"}, {"w13_experts"}, {"h13"}))
MoeShared == Soft(Stage({"h2"}, {}, {"s13", "gate_pre"}, {"w_s13", "w_shared_gate"}, {"s13", "gate_pre"}))
MoeSharedNogate == Soft(Stage({"h2"}, {}, {"s13"}, {"w_s13"}, {"s13"}))
Combine(shared, w) ==
    Stage({}, {"h13", "h_mid", "h2", "logits", "route_w", "route_ids", "order", "offsets", "slot_of"} \cup shared,
          {"y"}, {"w2_experts"} \cup w, {})

MoeStages(tail) ==
    CASE tail = "moe" -> <<Route({}), Dispatch, Experts13, Combine({}, {})>>
      [] tail = "gated_moe" -> <<Route({}), Dispatch, Experts13, MoeShared, Combine({"s13", "gate_pre"}, {"w_s2"})>>
      [] tail = "noaux_moe" ->
           <<Route({"w_router_bias"}), Dispatch, Experts13, MoeSharedNogate, Combine({"s13"}, {"w_s2"})>>
MoeWeights(tail) ==
    {"w_router", "w13_experts", "w2_experts"}
      \cup (IF tail = "noaux_moe" THEN {"w_router_bias"} ELSE {})
      \cup (IF tail # "moe" THEN {"w_s13", "w_s2"} ELSE {})
      \cup (IF tail = "gated_moe" THEN {"w_shared_gate"} ELSE {})
MoeAux == {"route_w", "route_ids", "route_order", "route_offsets"} \cup LblFields
MoeCtx(tail) ==
    {"router_logits", "h13"} \cup (IF tail # "moe" THEN {"s13"} ELSE {})
      \cup (IF tail = "gated_moe" THEN {"gate_pre"} ELSE {})
MoeReads(tail, resid) ==
    {resid, "rstd_ffn", "route_order", "route_offsets", "h13", "route_w", "route_ids", "router_logits"}
      \cup (IF tail # "moe" THEN {"s13"} ELSE {}) \cup (IF tail = "gated_moe" THEN {"gate_pre"} ELSE {})
MoeGrads(tail) ==
    {"w2_experts", "w13_experts", "w_router", "ffn_norm_w"}
      \cup (IF tail # "moe" THEN {"w_s2", "w_s13"} ELSE {})
      \cup (IF tail = "gated_moe" THEN {"w_shared_gate"} ELSE {})

-----------------------------------------------------------------------------
\* The blocks of each family: an attention part and a tail

Part(stages, weights, ctx_, reads, grads_) ==
    [stages |-> stages, weights |-> weights, ctx |-> ctx_, reads |-> reads, grads |-> grads_]
Block(m, t) ==
    [stages |-> m.stages \o t.stages, weights |-> m.weights \cup t.weights, ctx |-> m.ctx \cup t.ctx,
     reads |-> m.reads \cup t.reads, grads |-> m.grads \cup t.grads]

DenseTail(resid) == Part(DenseStages, DenseWeights, DenseCtx, DenseReads(resid), DenseGrads)
MoeTail(tail, resid) ==
    Part(MoeStages(tail), MoeWeights(tail), MoeCtx(tail), MoeReads(tail, resid), MoeGrads(tail))
Mla(stages, weights, reads) == Part(stages, weights, MlaCtx, reads, MlaGrads)

Llama3Block == Block(Part(LlamaStages, LlamaWeights, LlamaCtx, LlamaReads, LlamaGrads), DenseTail("h_mid"))
Gpt2Block == Part(GptStages, GptWeights, GptCtx, GptReads, GptGrads)
Qwen3Part == Part(Qwen3Stages, Qwen3Weights, Qwen3Ctx, Qwen3Reads, Qwen3Grads)
Qwen3Block == Block(Qwen3Part, DenseTail("h_mid"))
Qwen3MoeBlock == Block(Qwen3Part, MoeTail("moe", "h_mid"))
OlmoeBlock == Block(Part(OlmoeStages, OlmoeWeights, OlmoeCtx, OlmoeReads, OlmoeGrads), MoeTail("moe", "h_mid"))
DeltaPart == Part(DeltaStages, DeltaWeights, DeltaCtx, DeltaReads, DeltaGrads)
GatedPart == Part(GatedStages, GatedWeights, GatedCtx, GatedReads, GatedGrads)
Qwen35Block(part) == Block(part, DenseTail("xo"))
Qwen35MoeBlock(part) == Block(part, MoeTail("gated_moe", "xo"))
Dsv3DenseBlock == Block(Mla(MlaStages, MlaWeights, MlaReads), DenseTail("h_mid"))
Dsv3MoeBlock == Block(Mla(MlaStages, MlaWeights, MlaReads), MoeTail("noaux_moe", "h_mid"))

\* The warm-up's blocks: the flash forward, the trimmed context, the
\* indexer's objective alone
Warmup(block, weights) ==
    [block EXCEPT !.weights = @ \cup weights, !.ctx = @ \cap WarmupCtx, !.reads = WarmupReads, !.grads = {}]
Dsv32Block(tail, ready) ==
    IF chain.warm THEN Warmup(Block(Mla(MlaStages, MlaWeights, MlaReads), tail), IdxFields)
    ELSE Block(Mla(DsaStages(ready), DsaWeights, DsaReads), tail)
Glm52Follower ==
    IF chain.warm THEN Warmup(Dsv3MoeBlock, {})
    ELSE Block(Mla(FollowerStages, MlaWeights, DsaReads), MoeTail("noaux_moe", "h_mid"))

BlockOf(kind, ready) ==
    CASE kind = "llama3" -> Llama3Block
      [] kind = "gpt2" -> Gpt2Block
      [] kind = "qwen3" -> Qwen3Block
      [] kind = "qwen3moe" -> Qwen3MoeBlock
      [] kind = "olmoe" -> OlmoeBlock
      [] kind = "qwen35_lin" -> Qwen35Block(DeltaPart)
      [] kind = "qwen35_attn" -> Qwen35Block(GatedPart)
      [] kind = "qwen35moe_lin" -> Qwen35MoeBlock(DeltaPart)
      [] kind = "qwen35moe_attn" -> Qwen35MoeBlock(GatedPart)
      [] kind = "dsv3_dense" -> Dsv3DenseBlock
      [] kind = "dsv3_moe" -> Dsv3MoeBlock
      [] kind \in {"dsv32_dense", "gdl"} -> Dsv32Block(DenseTail("h_mid"), ready)
      [] kind \in {"dsv32_moe", "gml"} -> Dsv32Block(MoeTail("noaux_moe", "h_mid"), ready)
      [] kind = "gmf" -> Glm52Follower

-----------------------------------------------------------------------------
\* The layers of the stack

StackLayers == 1 .. Len(chain.layers)
Kind(l) == chain.layers[l]
Of(l) == BlockOf(Kind(l), FALSE)
Routed(l) ==
    Kind(l) \in {"qwen3moe", "olmoe", "qwen35moe_lin", "qwen35moe_attn", "dsv3_moe", "dsv32_moe", "gml", "gmf"}
Noaux(l) == Kind(l) \in {"dsv3_moe", "dsv32_moe", "gml", "gmf"}
LeadsGroup(l) == Kind(l) \in {"dsv32_dense", "dsv32_moe", "gdl", "gml"}
Follows(l) == Kind(l) = "gmf"

\* A leader's indexer serves the layers that follow it
leader_index(l) == Max({i \in 1 .. l : LeadsGroup(i)})
group_members(lead) == {i \in StackLayers : (LeadsGroup(i) \/ Follows(i)) /\ leader_index(i) = lead}

AuxFields(l) ==
    (IF LeadsGroup(l) /\ ~chain.warm THEN {"dsa_idx"} ELSE {}) \cup (IF Routed(l) THEN MoeAux ELSE {})

\* The fields with gradient storage: what the optimizer policy does not
\* freeze. The balance bias never trains, a warm-up trains only indexers
FrozenFields(l) ==
    chain.frozen[l] \cup {"w_router_bias"}
      \cup (IF chain.indexer THEN {} ELSE IdxFields)
      \cup (IF chain.warm THEN Of(l).weights \ IdxFields ELSE {})
StoredFields(l) == Of(l).weights \ FrozenFields(l)

-----------------------------------------------------------------------------
\* A launch: the stages in order over the intermediates

NoCtx == [absent |-> {}]
Undefined == <<"undefined">>

\* Fault seeded for BackwardSeesForward: a recompute selects again.
RunStageSelectsAgain(l, launch, saves, ready, s, g) ==
    LET found == (g.reads \cup g.pops) \cap DOMAIN s.st
        from == UNION {s.st[k] : k \in found}
        pick == IF g.selects THEN {<<launch, spot.round, l>>} ELSE {}
        aux == [f \in g.decides |-> from \cup pick] @@ s.aux
        value == from \cup UNION {aux[f] : f \in (g.decides \cup g.uses) \cap DOMAIN aux}
        emits == IF saves THEN {f \in g.emits : f \in Of(l).ctx \/ f \notin g.soft} ELSE {}
    IN IF g.aux_temp /\ ready THEN s
       ELSE [st |-> [k \in (DOMAIN s.st \ g.pops) \cup g.makes |-> IF k \in g.makes THEN value ELSE s.st[k]],
             a |-> [f \in emits |-> value] @@ s.a,
             aux |-> aux,
             missing |-> s.missing \cup ((g.reads \cup g.pops) \ found) \cup (g.w \ Of(l).weights)
                           \cup (emits \ Of(l).ctx) \cup ((g.decides \cup g.uses) \ DOMAIN aux)
                           \cup (DOMAIN aux \ AuxFields(l))]

\* s: the intermediates st, the saved fields a (where the launch saves), the
\* aux fields, whether those are given, and what was missing
RunStage(l, launch, saves, ready, s, g) ==
    LET found == (g.reads \cup g.pops) \cap DOMAIN s.st
        from == UNION {s.st[k] : k \in found}
        pick == IF g.selects THEN {<<launch, spot.round, l>>} ELSE {}
        aux == [f \in (IF ready THEN {} ELSE g.decides) |-> from \cup pick] @@ s.aux
        value == from \cup UNION {aux[f] : f \in (g.decides \cup g.uses) \cap DOMAIN aux}
        emits == IF saves THEN {f \in g.emits : f \in Of(l).ctx \/ f \notin g.soft} ELSE {}
    IN IF g.aux_temp /\ ready THEN s
       ELSE [st |-> [k \in (DOMAIN s.st \ g.pops) \cup g.makes |-> IF k \in g.makes THEN value ELSE s.st[k]],
             a |-> [f \in emits |-> value] @@ s.a,
             aux |-> aux,
             missing |-> s.missing \cup ((g.reads \cup g.pops) \ found) \cup (g.w \ Of(l).weights)
                           \cup (emits \ Of(l).ctx) \cup ((g.decides \cup g.uses) \ DOMAIN aux)
                           \cup (DOMAIN aux \ AuxFields(l))]

\* The stages through the last one that emits a field the layout has
recompute_stage_count_present(l) ==
    Max({1} \cup {i \in DOMAIN Of(l).stages : Of(l).stages[i].emits \cap Of(l).ctx # {}})

Embedded(r) == {<<"tokens", r>>}
Input(l) == IF l = 1 THEN Embedded(spot.round) ELSE outs[l - 1]
Shared(l) ==
    IF Follows(l) /\ ~chain.warm
      THEN [k \in {"shared_idx"} |-> picks[spot.round][leader_index(l)]["dsa_idx"]]
    ELSE <<>>

run_stages(l, launch, saves, ready, aux, count) ==
    LET stages == BlockOf(Kind(l), ready).stages
    IN FoldLeft(LAMBDA s, g : RunStage(l, launch, saves, ready, s, g),
                [st |-> [k \in {"x"} |-> Input(l)] @@ Shared(l), a |-> <<>>, aux |-> aux, missing |-> {}],
                SubSeq(stages, 1, count))

-----------------------------------------------------------------------------
\* The tasks of a step, in the order they are issued: per round the forwards,
\* gpt2's head, then the layers backwards, each after its recompute where its
\* context was not kept, and gpt2's embedding backward

Gpt2 == Kind(1) = "gpt2"
IsLastRound == spot.round = chain.rounds
AfterForward(l) ==
    IF l < Len(chain.layers) THEN [spot EXCEPT !.layer = l + 1]
    ELSE [spot EXCEPT !.phase = IF Gpt2 THEN "head" ELSE "bwd"]
AfterRound ==
    IF IsLastRound THEN [spot EXCEPT !.phase = "done"]
    ELSE [phase |-> "fwd", round |-> spot.round + 1, layer |-> 1]
AfterBackward(l) ==
    IF l > 1 THEN [spot EXCEPT !.layer = l - 1]
    ELSE IF Gpt2 THEN [spot EXCEPT !.phase = "embed"]
    ELSE AfterRound

\* The forward saves its context where the plan keeps it (keep), decides the
\* aux fields and counts the tokens of each expert
BlockFwd(l, keep) ==
    LET s == run_stages(l, "fwd", keep, FALSE, <<>>, Len(Of(l).stages))
    IN /\ spot.phase = "fwd" /\ spot.layer = l
       /\ outs' = [outs EXCEPT ![l] = s.st["y"]]
       /\ ctx' = [ctx EXCEPT ![l] = IF keep THEN s.a ELSE NoCtx]
       /\ picks' = [picks EXCEPT ![spot.round][l] = s.aux]
       /\ counts' = [counts EXCEPT ![l] = IF Routed(l) THEN Append(@, spot.round) ELSE @]
       /\ faults' = faults \cup s.missing
       /\ spot' = AfterForward(l)
       /\ UNCHANGED <<chain, grads, deposits, bias, losses>>

\* The recompute replays a prefix of the stages; the aux fields are given
BlockRecompute(l) ==
    LET s == run_stages(l, "recompute", TRUE, AuxFields(l) # {}, picks[spot.round][l],
                         recompute_stage_count_present(l))
    IN /\ spot.phase = "bwd" /\ spot.layer = l
       /\ ctx[l] = NoCtx
       /\ ctx' = [ctx EXCEPT ![l] = s.a]
       /\ faults' = faults \cup s.missing
       /\ UNCHANGED <<chain, spot, picks, outs, grads, deposits, counts, bias, losses>>

-----------------------------------------------------------------------------
\* The backward of a layer

\* The gradient writer: the first round creates, the others accumulate;
\* a field without storage is skipped
acc(dw, accum, stored, values) ==
    [f \in stored |->
        IF f \notin DOMAIN values THEN (IF accum THEN dw[f] ELSE <<Undefined>>)
        ELSE IF accum THEN Append(dw[f], values[f])
        ELSE <<values[f]>>]
Accum == spot.round > 1
Rows(l) == [s \in 1 .. Segments |-> <<l, s>>]

\* The indexer's objective: its scores against the attention of the group,
\* the leader's own and what the followers deposited, over their number
Target(l) ==
    LET group == group_members(l)
    IN [n |-> Cardinality(group), rows |-> Rows(l) \o (IF group = {l} THEN <<>> ELSE deposits[l])]
indexer_kl_bwd(l) ==
    IF LeadsGroup(l) /\ chain.indexer THEN [f \in KlGrads |-> <<spot.round, Target(l)>>] ELSE <<>>

\* Fault seeded for GradientsWhole: the first deposit is added to what was there.
DepositUnzeroed(l) ==
    LET lead == leader_index(l)
    IN IF Follows(l) /\ chain.indexer THEN [deposits EXCEPT ![lead] = @ \o Rows(l)] ELSE deposits

\* A follower adds its rows to its leader's sum, the first one zeroes it
Deposit(l) ==
    LET lead == leader_index(l)
        dm == IF l = Max(group_members(lead)) THEN <<>> ELSE deposits[lead]
    IN IF Follows(l) /\ chain.indexer THEN [deposits EXCEPT ![lead] = dm \o Rows(l)] ELSE deposits

\* The retained load-balance term: after the last round every round's pack,
\* weighed with the counts of the whole step, straight into the router's dW
RetainedLbl(l, dw) ==
    IF chain.retained /\ IsLastRound /\ Routed(l) /\ ~Noaux(l) /\ "w_router" \in DOMAIN dw
      THEN [dw EXCEPT !["w_router"] =
              @ \o [r \in 1 .. chain.rounds |-> <<picks[r][l]["lbl_x"], counts[l]>>]]
    ELSE dw

\* The reported objective of a warm-up: the leader that runs first creates it
KlLoss(l) ==
    LET creates == l = Max({i \in StackLayers : LeadsGroup(i)})
    IN IF LeadsGroup(l) THEN [losses EXCEPT ![spot.round] = (IF creates THEN <<>> ELSE @) \o Rows(l)] ELSE losses

SavedState(l) ==
    ctx[l] @@ picks[spot.round][l]
      @@ (IF Follows(l) /\ ~chain.warm
            THEN [k \in {"dsa_idx"} |-> picks[spot.round][leader_index(l)]["dsa_idx"]]
          ELSE <<>>)

BlockBwd(l) ==
    LET main == [f \in Of(l).grads |-> <<spot.round>>]
        dw == acc(grads[l], Accum, StoredFields(l), main @@ indexer_kl_bwd(l))
    IN /\ spot.phase = "bwd" /\ spot.layer = l
       /\ ctx[l] # NoCtx
       /\ ~chain.warm
       /\ grads' = [grads EXCEPT ![l] = RetainedLbl(l, dw)]
       /\ deposits' = Deposit(l)
       /\ bias' = [bias EXCEPT ![l] = IF Noaux(l) /\ IsLastRound THEN Append(@, counts[l]) ELSE @]
       /\ ctx' = [ctx EXCEPT ![l] = NoCtx]
       /\ faults' = faults \cup (Of(l).reads \ DOMAIN SavedState(l))
       /\ spot' = AfterBackward(l)
       /\ UNCHANGED <<chain, picks, outs, counts, losses>>

\* A warm-up skips the block's own gradients
WarmupBwd(l) ==
    /\ spot.phase = "bwd" /\ spot.layer = l
    /\ ctx[l] # NoCtx
    /\ chain.warm
    /\ grads' = [grads EXCEPT ![l] = acc(@, Accum, StoredFields(l), indexer_kl_bwd(l))]
    /\ deposits' = Deposit(l)
    /\ losses' = KlLoss(l)
    /\ ctx' = [ctx EXCEPT ![l] = NoCtx]
    /\ faults' = faults \cup (Of(l).reads \ DOMAIN SavedState(l))
    /\ spot' = AfterBackward(l)
    /\ UNCHANGED <<chain, picks, outs, counts, bias>>

-----------------------------------------------------------------------------
\* gpt2's head and embedding: tied, both write one object

HeadObject == 0
EmbedObject == IF chain.tied THEN 0 ELSE -1
FinalNorm == {"final_norm_w"} \cup (IF chain.biases THEN {"final_norm_b"} ELSE {})
gpt2_embed_layout == {"w", "wpe"} \cup (IF chain.tied THEN FinalNorm ELSE {})
gpt2_head_layout == IF chain.tied THEN gpt2_embed_layout ELSE {"w"} \cup FinalNorm

\* Chunk by chunk: the first one of the first round writes, the rest add; the
\* norms once at the end; a tied create zeroes the position rows
Gpt2HeadLoss ==
    LET dw == grads[HeadObject]
        chunks == [c \in 1 .. Chunks |-> <<spot.round, c>>]
    IN /\ spot.phase = "head"
       /\ grads' = [grads EXCEPT ![HeadObject] =
            [f \in gpt2_head_layout |->
                CASE f = "wpe" -> IF Accum THEN dw[f] ELSE <<>>
                  [] f = "w" -> IF Accum THEN dw[f] \o chunks ELSE chunks
                  [] f \in FinalNorm -> IF Accum THEN Append(dw[f], <<spot.round>>) ELSE <<<<spot.round>>>>]]
       /\ spot' = [spot EXCEPT !.phase = "bwd"]
       /\ UNCHANGED <<chain, ctx, picks, outs, deposits, counts, bias, losses, faults>>

\* The scatter into the token rows and the position rows
Gpt2EmbedBwd ==
    LET mutates == chain.tied \/ Accum
        dw == grads[EmbedObject]
        base(f) == IF mutates THEN dw[f] ELSE <<>>
    IN /\ spot.phase = "embed"
       /\ grads' = [grads EXCEPT ![EmbedObject] =
            [f \in gpt2_embed_layout |->
                IF f \in {"w", "wpe"} THEN Append(base(f), <<spot.round>>) ELSE dw[f]]]
       /\ spot' = AfterRound
       /\ UNCHANGED <<chain, ctx, picks, outs, deposits, counts, bias, losses, faults>>

-----------------------------------------------------------------------------
BlocksInit ==
    /\ chain \in Chains
    /\ spot = [phase |-> "fwd", round |-> 1, layer |-> 1]
    /\ ctx = [l \in StackLayers |-> NoCtx]
    /\ picks = [r \in 1 .. chain.rounds |-> [l \in StackLayers |-> <<>>]]
    /\ outs = [l \in StackLayers |-> {}]
    /\ grads = [o \in StackLayers \cup {HeadObject, EmbedObject} |-> <<>>]
    /\ deposits = [l \in StackLayers |-> <<Undefined>>]
    /\ counts = [l \in StackLayers |-> <<>>]
    /\ bias = [l \in StackLayers |-> <<>>]
    /\ losses = [r \in 1 .. chain.rounds |-> <<Undefined>>]
    /\ faults = {}

BlocksNext ==
    /\ spot.phase \in {"fwd", "head", "bwd", "embed"}
    /\ \/ \E l \in StackLayers, keep \in BOOLEAN : BlockFwd(l, keep)
       \/ \E l \in StackLayers : BlockRecompute(l)
       \/ \E l \in StackLayers : BlockBwd(l)
       \/ \E l \in StackLayers : WarmupBwd(l)
       \/ Gpt2HeadLoss
       \/ Gpt2EmbedBwd

BlocksSpec == BlocksInit /\ [][BlocksNext]_blockVars

-----------------------------------------------------------------------------
\* A backward reads what its forward computed: whether its context was kept or
\* recomputed, every field it looks for is there and was made in this round
\* from the selections the forward made - a recompute that routed or selected
\* again could differ - and no stage missed an intermediate, a weight or a
\* field (the stage lists and run_stages, the AuxTemp plumbing, the layouts)
BackwardSeesForward ==
    /\ faults = {}
    /\ spot.phase = "bwd" =>
         LET l == spot.layer IN
           ctx[l] # NoCtx =>
             \A f \in Of(l).reads : f \in DOMAIN SavedState(l) /\ SavedState(l)[f] \subseteq outs[l]

Ended == IF spot.phase = "done" THEN chain.rounds ELSE spot.round - 1
EachRound == [r \in 1 .. Ended |-> <<r>>]
LblTerms(l, f) ==
    IF f = "w_router" /\ chain.retained /\ ~Noaux(l) /\ Ended = chain.rounds
      THEN [r \in 1 .. chain.rounds |-> <<picks[r][l]["lbl_x"], [q \in 1 .. chain.rounds |-> q]>>]
    ELSE <<>>
OncePerRow(rows, members) ==
    /\ Range(rows) = members \X (1 .. Segments)
    /\ Len(rows) = Cardinality(members) * Segments

\* Whenever a round has ended every stored gradient field holds one term of
\* each round so far and nothing undefined, whichever task created it; the
\* indexers' terms weigh every layer of the group and every packed sequence
\* once, the retained load-balance term and the bias move come once a step
\* from the histogram of all its rounds (_acc_fn, the MoE tail's backward, the
\* leaders' and followers' KL, gpt2's tied head and embedding)
GradientsWhole ==
    (spot.phase = "done" \/ (spot.phase = "fwd" /\ spot.layer = 1 /\ Ended > 0)) =>
      /\ \A l \in StackLayers : \A f \in StoredFields(l) :
           IF f \in IdxFields
             THEN /\ Len(grads[l][f]) = Ended
                  /\ \A r \in 1 .. Ended :
                       /\ grads[l][f][r][1] = r
                       /\ grads[l][f][r][2].n = Cardinality(group_members(l))
                       /\ OncePerRow(grads[l][f][r][2].rows, group_members(l))
           ELSE grads[l][f] = EachRound \o LblTerms(l, f)
      /\ Gpt2 =>
           /\ \A f \in FinalNorm : grads[HeadObject][f] = EachRound
           /\ grads[EmbedObject]["wpe"] = EachRound
           /\ \A r \in 1 .. Ended :
                /\ \A c \in 1 .. Chunks : Cardinality({i \in DOMAIN grads[HeadObject]["w"] :
                                                         grads[HeadObject]["w"][i] = <<r, c>>}) = 1
                /\ Cardinality({i \in DOMAIN grads[EmbedObject]["w"] : grads[EmbedObject]["w"][i] = <<r>>}) = 1
           /\ Len(grads[HeadObject]["w"]) = Ended * (Chunks + (IF chain.tied THEN 1 ELSE 0))
      /\ \A l \in StackLayers :
           Noaux(l) /\ ~chain.warm =>
             bias[l] = IF Ended = chain.rounds THEN <<[q \in 1 .. chain.rounds |-> q]>> ELSE <<>>
      /\ chain.warm =>
           \A r \in 1 .. Ended : OncePerRow(losses[r], {l \in StackLayers : LeadsGroup(l)})
=============================================================================
