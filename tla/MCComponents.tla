----------------------------- MODULE MCComponents -----------------------------
(* Components that run in one thread and share no state, each from initial   *)
(* states of its own: small models of every family, and small training       *)
(* configurations of one, built and priced; searches for activations to      *)
(* recompute; programs lowered under freeze policies; stacks of every        *)
(* family's blocks; and the pool of fast buffers.                            *)
EXTENDS SimBuilder, RecomputePlan, Lowering, Blocks, BufferPool

CONSTANTS small, medium, large

-----------------------------------------------------------------------------
\* Policies: everything bf16, and a mixture with an expert-parallel group

Bf16 ==
    [act |-> 4, disp |-> 4, wt |-> 4, grad |-> 4, state |-> 4, xwt |-> 4, idx |-> 2,
     prec |-> "bf16", xprec |-> "bf16", iprec |-> "fp8", ep |-> 1]
Mixed ==
    [act |-> 4, disp |-> 2, wt |-> 4, grad |-> 8, state |-> 8, xwt |-> 1, idx |-> 2,
     prec |-> "fp8", xprec |-> "fp8", iprec |-> "bf16", ep |-> 2]
Fp4Experts == [Mixed EXCEPT !.xprec = "fp4"]

Call(P) == [t |-> 4, L |-> 2, P |-> P]

\* One record with the dimensions of all families

Dims ==
    [vocab_size |-> 5, n_layers |-> 2, d_model |-> 4, head_dim |-> 2, n_heads |-> 2, n_kv_heads |-> 1,
     expert_dim |-> 3, num_shared_experts |-> 1, num_routed_experts |-> 0, top_k |-> 0, qk_norm |-> TRUE,
     intermediate_size |-> 6, first_k_dense_replace |-> 1, q_lora_rank |-> 2, kv_lora_rank |-> 3,
     qk_nope_head_dim |-> 2, qk_rope_head_dim |-> 1, v_head_dim |-> 2,
     index_n_heads |-> 1, index_head_dim |-> 2, index_topk |-> 1, train_indexer |-> TRUE,
     index_topk_freq |-> 2, index_skip_topk_offset |-> 1, sliding_window |-> 1,
     full_attention_interval |-> 2, linear_num_key_heads |-> 1, linear_key_head_dim |-> 2,
     linear_num_value_heads |-> 2, linear_value_head_dim |-> 3, linear_conv_kernel_dim |-> 2, gdn_chunk_size |-> 2,
     shared_expert_dim |-> 2, mamba_num_heads |-> 2, mamba_head_dim |-> 2, ssm_state_size |-> 3, conv_kernel |-> 2,
     mamba_chunk_size |-> 2, n_groups |-> 1, layer_types |-> <<"mamba", "moe">>]
Experts == [Dims EXCEPT !.num_routed_experts = 4, !.top_k = 2]
Wide(d) == [d EXCEPT !.n_layers = 4, !.layer_types = <<"mamba", "attention", "moe", "mlp">>]

Built(family, d, P) ==
    [family |-> family, dims |-> d, c |-> Call(P), steps |-> 1, rounds |-> 1, optimizer |-> "muon",
     placement |-> "interleaved", embedding |-> "auto", levels |-> [o \in {<<"A", 0, 0, 1>>} |-> 1], backed |-> TRUE]

\* Every family, with and without experts, trained and frozen indexers
FamilyConfigs ==
    {Built(family, Dims, P) : family \in {"llama3", "qwen3"}, P \in {Bf16, Mixed}}
      \cup {Built(family, Experts, P) : family \in {"qwen3_moe", "olmoe", "gpt_oss"}, P \in {Bf16, Mixed}}
      \cup {Built("deepseek_v3", Experts, Mixed), Built("kimi_k2", [Experts EXCEPT !.q_lora_rank = 0], Bf16)}
      \cup {Built("deepseek_v3_2", [Experts EXCEPT !.train_indexer = train], Mixed) : train \in BOOLEAN}
      \cup {Built("glm_5_2", [Wide(Experts) EXCEPT !.train_indexer = train], Bf16) : train \in BOOLEAN}
      \cup {Built("qwen3_hybrid_dense", Dims, Mixed), Built("qwen3_hybrid_moe", Experts, Mixed)}
      \cup {Built("nemotron_h", Wide(Experts), P) : P \in {Bf16, Mixed}}
      \cup {Built("nemotron_h", [Dims EXCEPT !.num_shared_experts = 2], Mixed)}

\* What the code refuses: an indivisible group, a machine without fp4
RefusedConfigs ==
    {Built("qwen3_moe", [Experts EXCEPT !.num_routed_experts = 3], Mixed), Built("olmoe", Experts, Fp4Experts),
     [Built("llama3", Dims, Bf16) EXCEPT !.levels = [o \in {<<"A", 0, 0, 2>>} |-> 1]],
     Built("deepseek_v3_2", [Dims EXCEPT !.q_lora_rank = 0], Bf16),
     Built("nemotron_h", [Dims EXCEPT !.num_shared_experts = 0, !.layer_types = <<"moe", "mlp">>], Bf16)}

\* Steps, rounds, optimizers, placements, embeddings and recompute choices
LevelsOf(steps, rounds) ==
    {[o \in {} |-> 0]} \cup {[o \in {<<"A", k, j, i>> : k \in 0 .. steps - 1, j \in 0 .. rounds - 1, i \in some} |-> 1] :
                               some \in {{0}, {1}, {0, 1}}}

StructureConfigs ==
    UNION {{[Built("llama3", Dims, Bf16) EXCEPT
               !.steps = steps, !.rounds = rounds, !.optimizer = optimizer, !.placement = placement,
               !.embedding = embedding, !.levels = levels, !.backed = (embedding = "auto")] :
              levels \in LevelsOf(steps, rounds), optimizer \in {"none", "adamw", "sgd"},
              placement \in {"interleaved", "tail"}, embedding \in {"auto", "tied", "none"}} :
             steps \in 1 .. 2, rounds \in 1 .. 2}

MCConfigs == FamilyConfigs \cup RefusedConfigs \cup StructureConfigs

\* fp4 products are not to be had on this machine
MCHw ==
    [byte |-> 3, link |-> 20,
     flop |-> [u \in {"matmul", "matmul_bf16", "matmul_fp8", "attention_fwd", "attention_bwd"} |->
                 CASE u = "matmul_fp8" -> 1 [] u = "attention_bwd" -> 4 [] OTHER -> 2]]

-----------------------------------------------------------------------------
\* Searches over four activations: makespans by the number recomputed, with
\* the half seed apart

MCObjects == <<"A1", "A2", "A3", "A4">>

Recomputes(plan) == Cardinality({o \in ObjectSet : plan[o] > 0})
MCMakespans ==
    {[plan \in Plans |-> IF plan = SeedHalf THEN half ELSE by[Recomputes(plan)]] :
       by \in {f \in [0 .. 4 -> 0 .. 3] : f[1] \in {0, 2} /\ f[2] < 3 /\ f[3] < 2 /\ f[4] < 3}, half \in {0, 1, 3}}

-----------------------------------------------------------------------------
\* Programs of three layers, two steps, one or two rounds: nothing frozen,
\* layers and tables frozen in all ways, single fields, everything

TrainsAll == [fields |-> {}, layers |-> {}, pairs |-> {}, embed |-> FALSE, head |-> FALSE, base |-> "adamw"]
OfKind(aux, temp) == [i \in 0 .. 2 |-> [aux |-> aux, temp |-> temp]]
Dense ==
    [steps |-> 2, rounds |-> 2, layers |-> 3, tied |-> FALSE, placement |-> "interleaved", levels |-> {},
     kinds |-> OfKind(FALSE, FALSE), shares |-> {}, bias |-> FALSE, retained |-> FALSE, objective |-> "ce",
     contributors |-> {}, policy |-> TrainsAll]
Freezes ==
    {[TrainsAll EXCEPT !.layers = layers, !.embed = embed, !.head = head, !.base = base] :
       layers \in {{}, {0}, {1}, {0, 1}, {0, 1, 2}}, embed \in BOOLEAN, head \in BOOLEAN, base \in {"adamw", "sgd", "muon"}}
      \cup {[TrainsAll EXCEPT !.fields = {"wq"}, !.pairs = {<<"attn_norm_w", 1>>}],
            [TrainsAll EXCEPT !.fields = BlockFields]}
RecomputeSome == {A(s, r, i) : s \in 0 .. 1, r \in 0 .. 1, i \in {0, 2}}
DenseBuilds ==
    {[Dense EXCEPT !.policy = policy, !.placement = placement, !.levels = levels, !.tied = tied, !.rounds = r] :
       policy \in Freezes, placement \in {"interleaved", "tail"}, levels \in {{}, RecomputeSome},
       tied \in BOOLEAN, r \in 1 .. 2}
Untied == {b \in DenseBuilds : b.policy.base = "adamw" /\ ~b.tied}
RoutedBuilds ==
    {[b EXCEPT !.kinds = [OfKind(TRUE, TRUE) EXCEPT ![0] = [aux |-> FALSE, temp |-> FALSE]],
               !.bias = moves, !.retained = ~moves] : moves \in BOOLEAN, b \in Untied}
SharingBuilds ==
    {[b EXCEPT !.kinds = OfKind(TRUE, TRUE), !.bias = TRUE, !.shares = {[members |-> <<0, 1, 2>>, grad |-> grad]}] :
       grad \in BOOLEAN, b \in Untied}
OnlyIndexers ==
    [TrainsAll EXCEPT !.fields = {"attn_norm_w"}, !.pairs = {<<"wq", 1>>, <<"wq", 2>>}, !.embed = TRUE, !.head = TRUE]
WarmupBuilds ==
    {[b EXCEPT !.objective = "indexer_kl", !.policy = OnlyIndexers, !.contributors = {0}] : b \in SharingBuilds}
      \cup {[b EXCEPT !.objective = "indexer_kl", !.policy = [TrainsAll EXCEPT !.fields = {"attn_norm_w"}],
                      !.contributors = 0 .. 2] : b \in RoutedBuilds}

\* A tied table freezes under the head's name
MCBuilds ==
    {b \in DenseBuilds \cup RoutedBuilds \cup SharingBuilds \cup WarmupBuilds : ~(b.tied /\ b.policy.embed)}
      \cup {[Dense EXCEPT !.placement = "first"]}

-----------------------------------------------------------------------------
\* Stacks of two or four layers, two rounds

Stack(layers) ==
    [layers |-> layers, rounds |-> 2, frozen |-> [l \in DOMAIN layers |-> {}], warm |-> FALSE, indexer |-> FALSE,
     retained |-> FALSE, tied |-> FALSE, biases |-> FALSE]
WithIndexer(layers) ==
    {Stack(layers), [Stack(layers) EXCEPT !.indexer = TRUE], [Stack(layers) EXCEPT !.indexer = TRUE, !.warm = TRUE]}

MCChains ==
    {Stack(<<"llama3", "llama3">>), Stack(<<"qwen3", "qwen3">>), Stack(<<"qwen35_lin", "qwen35_attn">>),
     Stack(<<"dsv3_dense", "dsv3_moe">>),
     [Stack(<<"llama3", "llama3">>) EXCEPT !.frozen = <<{"wq", "w2"}, LlamaWeights \cup DenseWeights>>]}
      \cup {[Stack(<<"gpt2", "gpt2">>) EXCEPT !.tied = tied, !.biases = biases] : tied \in BOOLEAN, biases \in BOOLEAN}
      \cup {[Stack(<<kind, kind>>) EXCEPT !.retained = retained] :
              kind \in {"qwen3moe", "olmoe"}, retained \in BOOLEAN}
      \cup {[Stack(<<"qwen35moe_lin", "qwen35moe_attn">>) EXCEPT !.retained = retained] : retained \in BOOLEAN}
      \cup WithIndexer(<<"dsv32_dense", "dsv32_moe">>)
      \cup WithIndexer(<<"gdl", "gml", "gmf", "gmf">>)

-----------------------------------------------------------------------------
\* Objects of three sizes, none a whole number of units or granules

ByteSizes == small :> MiB - 100 @@ medium :> 2 * MiB - 100 @@ large :> 3 * MiB - 100

AllSizes == {ByteSizes[t] : t \in Tags}

-----------------------------------------------------------------------------

BuilderIdle ==
    /\ cfg = <<>> /\ phase = "idle" /\ specs = <<>> /\ step = 0 /\ todo = <<>> /\ prog = <<>>
    /\ meaning = <<>> /\ updates = {} /\ rewrites = NoRewrites
SearchIdle == makespan = <<>> /\ search = [at |-> "idle"]
LoweringIdle ==
    build = <<>> /\ stage = "idle" /\ program = <<>> /\ launched = 0 /\ store = <<>> /\ applied = {}
BlocksIdle ==
    /\ chain = <<>> /\ spot = [phase |-> "idle"] /\ ctx = <<>> /\ picks = <<>> /\ outs = <<>> /\ grads = <<>>
    /\ deposits = <<>> /\ counts = <<>> /\ bias = <<>> /\ losses = <<>> /\ faults = {}

PoolIdle ==
    /\ regime = "none" /\ poisons = FALSE /\ pool = EmptyPool("none") /\ live = [t \in Tags |-> NoBuf]
    /\ stream = <<>> /\ events = 0
    /\ placedAt = <<>> /\ recorder = <<>> /\ births = 0 /\ run = 0 /\ status = "none"

ComponentsInit ==
    \/ Init /\ SearchIdle /\ LoweringIdle /\ BlocksIdle /\ PoolIdle
    \/ SearchInit /\ BuilderIdle /\ LoweringIdle /\ BlocksIdle /\ PoolIdle
    \/ LoweringInit /\ BuilderIdle /\ SearchIdle /\ BlocksIdle /\ PoolIdle
    \/ BlocksInit /\ BuilderIdle /\ SearchIdle /\ LoweringIdle /\ PoolIdle
    \/ PoolInit /\ BuilderIdle /\ SearchIdle /\ LoweringIdle /\ BlocksIdle

ComponentsNext ==
    \/ Next /\ UNCHANGED <<searchVars, loweringVars, blockVars, poolVars>>
    \/ SearchNext /\ UNCHANGED <<vars, loweringVars, blockVars, poolVars>>
    \/ LoweringNext /\ UNCHANGED <<vars, searchVars, blockVars, poolVars>>
    \/ BlocksNext /\ UNCHANGED <<vars, searchVars, loweringVars, poolVars>>
    \/ PoolNext /\ UNCHANGED <<vars, searchVars, loweringVars, blockVars>>

ComponentsSpec ==
    ComponentsInit /\ [][ComponentsNext]_<<vars, searchVars, loweringVars, blockVars, poolVars>>

=============================================================================
