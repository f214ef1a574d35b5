------------------------------ MODULE SimModels ------------------------------
(***************************************************************************)
(* Feed-forward modules, the head, the blocks that stack an attention and  *)
(* a feed-forward module, the weight matrices of every family and the      *)
(* optimizer step over them (dataflow_sim/workloads/modules).              *)
(***************************************************************************)
EXTENDS SimModules

IsMoe(d) == d.num_routed_experts > 0 /\ d.top_k > 0

-----------------------------------------------------------------------------
(* Dense SwiGLU.                                                           *)

MlpFwd(c, d) ==
    When(d.num_shared_experts > 0,
         <<Norm(c, "ffn_norm", d.d_model),
           PolicyMatmul("shared_mlp_up", c.t, d.d_model, 2 * d.expert_dim, d.num_shared_experts, FALSE, c.P),
           Swiglu("swiglu", c.t, d.expert_dim, d.num_shared_experts, c.P),
           PolicyMatmul("shared_mlp_down", c.t, d.expert_dim, d.d_model, d.num_shared_experts, TRUE, c.P)>>)

MlpDgrad(c, d) ==
    When(d.num_shared_experts > 0,
         <<PolicyInputGrad("shared_mlp_down", c.t, d.expert_dim, d.d_model, d.num_shared_experts, c.P),
           SwigluGrad("swiglu", c.t, d.expert_dim, d.num_shared_experts, c.P),
           PolicyInputGrad("shared_mlp_up", c.t, d.d_model, 2 * d.expert_dim, d.num_shared_experts, c.P)>>)

MlpWgrad(c, d) ==
    When(d.num_shared_experts > 0,
         <<PolicyWeightGrad("shared_mlp_down", c.t, d.expert_dim, d.d_model, d.num_shared_experts, c.P),
           PolicyWeightGrad("shared_mlp_up", c.t, d.d_model, 2 * d.expert_dim, d.num_shared_experts, c.P)>>)

MlpRecompute(c, d) == Uncounted(Without(MlpFwd(c, d), {"shared_mlp_down"}))

Mlp(c, d) == [fwd |-> MlpFwd(c, d), dgrad |-> MlpDgrad(c, d), wgrad |-> MlpWgrad(c, d), rec |-> MlpRecompute(c, d)]

-----------------------------------------------------------------------------
(* Mixtures of experts.  An expert-parallel group splits the routed        *)
(* experts; every local expert then sees the tokens of the whole group.    *)

LocalExperts(d, P) == IF IsMoe(d) THEN d.num_routed_experts \div P.ep ELSE 0
RoutedTokens(c, d) == IF IsMoe(d) THEN (c.t * d.top_k * c.P.ep) \div d.num_routed_experts ELSE 0

ExpertMm(c, name, t, i, o, n, in) ==
    Matmul(name, t, i, o, n, [in |-> in, wt |-> c.P.xwt, out |-> c.P.act], FALSE, c.P.xprec)
ExpertDgrad(c, name, t, i, o, n, up, in) ==
    MatmulInputGrad(name, t, i, o, n, [up |-> up, wt |-> c.P.xwt, in |-> in], c.P.xprec)
ExpertWgrad(c, name, t, i, o, n, in, up) ==
    MatmulWeightGrad(name, t, i, o, n, [in |-> in, up |-> up, grad |-> c.P.grad], c.P.xprec)

MoeFwd(c, d) ==
    LET shared == d.num_shared_experts
        routed == RoutedTokens(c, d)
        n == LocalExperts(d, c.P)
    IN  <<Norm(c, "ffn_norm", d.d_model)>>
          \o When(shared > 0, <<ExpertMm(c, "shared_mlp_up", c.t, d.d_model, 2 * d.expert_dim, shared, c.P.disp)>>)
          \o When(IsMoe(d), <<Scatter("x_scatter", c.t, d.d_model, d.top_k, c.P.act, c.P.disp, c.P)>>)
          \o When(routed > 0, <<ExpertMm(c, "routed_mlp_up", routed, d.d_model, 2 * d.expert_dim, n, c.P.disp)>>)
          \o When(shared + d.top_k > 0, <<Swiglu("swiglu", c.t, d.expert_dim, shared + d.top_k, c.P)>>)
          \o When(shared > 0, <<ExpertMm(c, "shared_mlp_down", c.t, d.expert_dim, d.d_model, shared, c.P.act)>>)
          \o When(routed > 0, <<ExpertMm(c, "routed_mlp_down", routed, d.expert_dim, d.d_model, n, c.P.act)>>)
          \o When(IsMoe(d), <<Gather("x_gather", c.t, d.d_model, d.top_k, c.P.act, c.P.act, c.P)>>)

MoeDgrad(c, d) ==
    LET shared == d.num_shared_experts
        routed == RoutedTokens(c, d)
        n == LocalExperts(d, c.P)
    IN  When(IsMoe(d), <<ScatterGrad("dy_scatter", c.t, d.d_model, d.top_k, c.P.act, c.P.disp, c.P)>>)
          \o When(routed > 0, <<ExpertDgrad(c, "routed_mlp_down", routed, d.expert_dim, d.d_model, n, c.P.disp, c.P.act)>>)
          \o When(shared > 0, <<ExpertDgrad(c, "shared_mlp_down", c.t, d.expert_dim, d.d_model, shared, c.P.act, c.P.act)>>)
          \o When(shared + d.top_k > 0, <<SwigluGrad("swiglu", c.t, d.expert_dim, shared + d.top_k, c.P)>>)
          \o When(routed > 0, <<ExpertDgrad(c, "routed_mlp_up", routed, d.d_model, 2 * d.expert_dim, n, c.P.act, c.P.disp)>>)
          \o When(IsMoe(d), <<GatherGrad("dy_gather", c.t, d.d_model, d.top_k, c.P.disp, c.P.act, c.P)>>)
          \o When(shared > 0, <<ExpertDgrad(c, "shared_mlp_up", c.t, d.d_model, 2 * d.expert_dim, shared, c.P.act, c.P.disp)>>)

MoeWgrad(c, d) ==
    LET shared == d.num_shared_experts
        routed == RoutedTokens(c, d)
        n == LocalExperts(d, c.P)
    IN  When(routed > 0, <<ExpertWgrad(c, "routed_mlp_down", routed, d.expert_dim, d.d_model, n, c.P.act, c.P.disp)>>)
          \o When(shared > 0, <<ExpertWgrad(c, "shared_mlp_down", c.t, d.expert_dim, d.d_model, shared, c.P.act, c.P.act)>>)
          \o When(routed > 0, <<ExpertWgrad(c, "routed_mlp_up", routed, d.d_model, 2 * d.expert_dim, n, c.P.disp, c.P.act)>>)
          \o When(shared > 0, <<ExpertWgrad(c, "shared_mlp_up", c.t, d.d_model, 2 * d.expert_dim, shared, c.P.disp, c.P.act)>>)

MoeRecompute(c, d) == Uncounted(Without(MoeFwd(c, d), {"shared_mlp_down", "routed_mlp_down", "x_gather"}))

Moe(c, d) == [fwd |-> MoeFwd(c, d), dgrad |-> MoeDgrad(c, d), wgrad |-> MoeWgrad(c, d), rec |-> MoeRecompute(c, d)]

-----------------------------------------------------------------------------
(* Nemotron's squared-ReLU feed-forward modules.                           *)

Relu2MlpFwd(c, d) ==
    <<Mm(c, "mlp_up", d.d_model, d.intermediate_size), Relu2("relu2", c.t, d.intermediate_size, c.P),
      MmResidual(c, "mlp_down", d.intermediate_size, d.d_model)>>

Relu2MlpDgrad(c, d) ==
    <<Dgrad(c, "mlp_down", d.intermediate_size, d.d_model), Relu2Grad("relu2", c.t, d.intermediate_size, c.P),
      Dgrad(c, "mlp_up", d.d_model, d.intermediate_size)>>

Relu2MlpWgrad(c, d) ==
    <<Wgrad(c, "mlp_down", d.intermediate_size, d.d_model), Wgrad(c, "mlp_up", d.d_model, d.intermediate_size)>>

Relu2MlpRecompute(c, d) == Uncounted(Without(Relu2MlpFwd(c, d), {"mlp_down"}))

Relu2MoeFwd(c, d) ==
    LET shared == d.num_shared_experts
        routed == RoutedTokens(c, d)
        n == LocalExperts(d, c.P)
    IN  When(shared > 0, <<ExpertMm(c, "shared_mlp_up", c.t, d.d_model, d.shared_expert_dim, shared, c.P.disp)>>)
          \o When(IsMoe(d), <<Scatter("x_scatter", c.t, d.d_model, d.top_k, c.P.act, c.P.disp, c.P)>>)
          \o When(routed > 0, <<ExpertMm(c, "routed_mlp_up", routed, d.d_model, d.expert_dim, n, c.P.disp)>>)
          \o When(shared > 0, <<Relu2("shared_relu2", c.t * shared, d.shared_expert_dim, c.P)>>)
          \o When(routed * n > 0, <<Relu2("routed_relu2", routed * n, d.expert_dim, c.P)>>)
          \o When(shared > 0, <<ExpertMm(c, "shared_mlp_down", c.t, d.shared_expert_dim, d.d_model, shared, c.P.act)>>)
          \o When(routed > 0, <<ExpertMm(c, "routed_mlp_down", routed, d.expert_dim, d.d_model, n, c.P.act)>>)
          \o When(IsMoe(d), <<Gather("x_gather", c.t, d.d_model, d.top_k, c.P.act, c.P.act, c.P)>>)
          \o When(shared > 0 \/ d.num_routed_experts > 0,
                  <<MemoryOp("moe_combine_residual", "fwd", 4 * c.t * d.d_model * c.P.act)>>)

Relu2MoeDgrad(c, d) ==
    LET shared == d.num_shared_experts
        routed == RoutedTokens(c, d)
        n == LocalExperts(d, c.P)
    IN  When(IsMoe(d), <<ScatterGrad("dy_scatter", c.t, d.d_model, d.top_k, c.P.act, c.P.disp, c.P)>>)
          \o When(routed > 0, <<ExpertDgrad(c, "routed_mlp_down", routed, d.expert_dim, d.d_model, n, c.P.disp, c.P.act)>>)
          \o When(shared > 0,
                  <<ExpertDgrad(c, "shared_mlp_down", c.t, d.shared_expert_dim, d.d_model, shared, c.P.act, c.P.act),
                    Relu2Grad("shared_relu2", c.t * shared, d.shared_expert_dim, c.P)>>)
          \o When(routed * n > 0, <<Relu2Grad("routed_relu2", routed * n, d.expert_dim, c.P)>>)
          \o When(routed > 0, <<ExpertDgrad(c, "routed_mlp_up", routed, d.d_model, d.expert_dim, n, c.P.act, c.P.disp)>>)
          \o When(IsMoe(d), <<GatherGrad("dy_gather", c.t, d.d_model, d.top_k, c.P.disp, c.P.act, c.P)>>)
          \o When(shared > 0, <<ExpertDgrad(c, "shared_mlp_up", c.t, d.d_model, d.shared_expert_dim, shared, c.P.act, c.P.disp)>>)

Relu2MoeWgrad(c, d) ==
    LET shared == d.num_shared_experts
        routed == RoutedTokens(c, d)
        n == LocalExperts(d, c.P)
    IN  When(routed > 0, <<ExpertWgrad(c, "routed_mlp_down", routed, d.expert_dim, d.d_model, n, c.P.act, c.P.disp)>>)
          \o When(shared > 0, <<ExpertWgrad(c, "shared_mlp_down", c.t, d.shared_expert_dim, d.d_model, shared, c.P.act, c.P.act)>>)
          \o When(routed > 0, <<ExpertWgrad(c, "routed_mlp_up", routed, d.d_model, d.expert_dim, n, c.P.disp, c.P.act)>>)
          \o When(shared > 0, <<ExpertWgrad(c, "shared_mlp_up", c.t, d.d_model, d.shared_expert_dim, shared, c.P.disp, c.P.act)>>)

Relu2MoeRecompute(c, d) ==
    Uncounted(Without(Relu2MoeFwd(c, d), {"shared_mlp_down", "routed_mlp_down", "x_gather", "moe_combine_residual"}))

-----------------------------------------------------------------------------
(* Blocks.  A module is the record of its four operation lists.            *)

Stacked(attention, feedForward) ==
    [fwd |-> attention.fwd \o feedForward.fwd,
     bwd |-> feedForward.dgrad \o attention.dgrad \o feedForward.wgrad \o attention.wgrad,
     rec |-> attention.rec \o feedForward.rec]

FeedForward(c, d, moe) == IF moe THEN Moe(c, d) ELSE Mlp(c, d)

TransformerBlock(c, d) ==
    Stacked([fwd |-> DenseAttentionFwd(c, d), dgrad |-> DenseAttentionDgrad(c, d),
             wgrad |-> DenseAttentionWgrad(c, d), rec |-> DenseAttentionRecompute(c, d)],
            FeedForward(c, d, IsMoe(d)))

OssBlock(c, d, kind) ==
    Stacked([fwd |-> OssAttentionFwd(c, d, kind), dgrad |-> OssAttentionDgrad(c, d, kind),
             wgrad |-> OssAttentionWgrad(c, d), rec |-> OssAttentionRecompute(c, d, kind)],
            Moe(c, d))

(* The feed-forward dimensions of a dense prefix layer of the DeepSeek     *)
(* families.                                                               *)
FfnDims(d, dense) ==
    IF dense
    THEN [d EXCEPT !.expert_dim = d.intermediate_size, !.num_shared_experts = 1,
                   !.num_routed_experts = 0, !.top_k = 0]
    ELSE d

DeepSeekBlock(c, d, dense) ==
    Stacked([fwd |-> MlaFwd(c, d), dgrad |-> MlaDgrad(c, d), wgrad |-> MlaWgrad(c, d), rec |-> MlaRecompute(c, d)],
            FeedForward(c, FfnDims(d, dense), ~dense))

DeepSeekV32Block(c, d, dense, mode) ==
    Stacked([fwd |-> DsaFwd(c, d, mode), dgrad |-> DsaDgrad(c, d, mode),
             wgrad |-> DsaWgrad(c, d, mode), rec |-> DsaRecompute(c, d, mode)],
            FeedForward(c, FfnDims(d, dense), ~dense))

QwenHybridBlock(c, d, kind) ==
    Stacked(IF kind = "linear_attention"
            THEN [fwd |-> LinearFwd(c, d), dgrad |-> LinearDgrad(c, d), wgrad |-> LinearWgrad(c, d), rec |-> LinearRecompute(c, d)]
            ELSE [fwd |-> HybridFullFwd(c, d), dgrad |-> HybridFullDgrad(c, d),
                  wgrad |-> HybridFullWgrad(c, d), rec |-> HybridFullRecompute(c, d)],
            FeedForward(c, d, IsMoe(d)))

NemotronMixer(c, d, kind) ==
    CASE kind = "mamba" ->
           [fwd |-> MambaFwd(c, d), dgrad |-> MambaDgrad(c, d), wgrad |-> MambaWgrad(c, d), rec |-> MambaRecompute(c, d)]
      [] kind = "attention" ->
           [fwd |-> NemotronAttentionFwd(c, d), dgrad |-> NemotronAttentionDgrad(c, d),
            wgrad |-> NemotronAttentionWgrad(c, d), rec |-> NemotronAttentionRecompute(c, d)]
      [] kind = "moe" ->
           [fwd |-> Relu2MoeFwd(c, d), dgrad |-> Relu2MoeDgrad(c, d), wgrad |-> Relu2MoeWgrad(c, d), rec |-> Relu2MoeRecompute(c, d)]
      [] kind = "mlp" ->
           [fwd |-> Relu2MlpFwd(c, d), dgrad |-> Relu2MlpDgrad(c, d), wgrad |-> Relu2MlpWgrad(c, d), rec |-> Relu2MlpRecompute(c, d)]

BlockNorm(c, d, mixer) ==
    [fwd |-> <<Norm(c, "block_norm", d.d_model)>> \o mixer.fwd,
     bwd |-> mixer.dgrad \o <<NormGrad(c, "block_norm", d.d_model)>> \o mixer.wgrad,
     rec |-> Uncounted(<<Norm(c, "block_norm", d.d_model)>>) \o mixer.rec]

NemotronBlock(c, d, kind) == BlockNorm(c, d, NemotronMixer(c, d, kind))

-----------------------------------------------------------------------------
(* The head and its loss.  Logits stay on chip: the projection's traffic   *)
(* is its weights and the tokens in and out.                               *)

HeadParams(d) == d.d_model * d.vocab_size

WithTraffic(op, half) == [op EXCEPT !.bytes = (half + 1) \div 2]

HeadFwd(c, d) ==
    <<Norm(c, "final_norm", d.d_model),
      WithTraffic(Mm(c, "head_proj", d.d_model, d.vocab_size), HeadParams(d) * c.P.wt + 2 * c.t * d.d_model * c.P.act),
      CrossEntropy("cross_entropy", c.t, d.vocab_size, c.P)>>

HeadBwd(c, d) ==
    <<WithTraffic(Dgrad(c, "head_proj", d.d_model, d.vocab_size), HeadParams(d) * c.P.wt + 2 * c.t * d.d_model * c.P.act),
      WithTraffic(Wgrad(c, "head_proj", d.d_model, d.vocab_size), HeadParams(d) * c.P.grad + 2 * c.t * d.d_model * c.P.act),
      NormGrad(c, "final_norm", d.d_model)>>

-----------------------------------------------------------------------------
(* Weight matrices.  expert matrices have their own width; ep ones are     *)
(* split over the expert-parallel group.                                   *)

Mat(name, rows, cols) == [name |-> name, rows |-> rows, cols |-> cols, count |-> 1, expert |-> FALSE, ep |-> FALSE]
ExpertMat(name, rows, cols, count, expert, ep) ==
    [name |-> name, rows |-> rows, cols |-> cols, count |-> count, expert |-> expert, ep |-> ep]

NonEmpty(mats) == LET Real(m) == m.rows > 0 /\ m.cols > 0 /\ m.count > 0 IN SelectSeq(mats, Real)

DenseAttentionMatrices(d) ==
    <<Mat("q_proj", d.d_model, AttnDim(d)), Mat("k_proj", d.d_model, KvDim(d)),
      Mat("v_proj", d.d_model, KvDim(d)), Mat("attn_proj", AttnDim(d), d.d_model)>>

FfnMatrices(d) ==
    LET moe == IsMoe(d)
    IN  NonEmpty(<<ExpertMat("shared_mlp_gate", d.d_model, d.expert_dim, d.num_shared_experts, moe, FALSE),
                   ExpertMat("shared_mlp_up", d.d_model, d.expert_dim, d.num_shared_experts, moe, FALSE),
                   ExpertMat("shared_mlp_down", d.expert_dim, d.d_model, d.num_shared_experts, moe, FALSE),
                   ExpertMat("routed_mlp_gate", d.d_model, d.expert_dim, d.num_routed_experts, moe, moe),
                   ExpertMat("routed_mlp_up", d.d_model, d.expert_dim, d.num_routed_experts, moe, moe),
                   ExpertMat("routed_mlp_down", d.expert_dim, d.d_model, d.num_routed_experts, moe, moe)>>)

LayerWeightMatrices(d) == NonEmpty(DenseAttentionMatrices(d)) \o FfnMatrices(d)

MlpMatrices(d) ==
    When(d.num_shared_experts > 0,
         <<ExpertMat("shared_mlp_gate", d.d_model, d.expert_dim, d.num_shared_experts, FALSE, FALSE),
           ExpertMat("shared_mlp_up", d.d_model, d.expert_dim, d.num_shared_experts, FALSE, FALSE),
           ExpertMat("shared_mlp_down", d.expert_dim, d.d_model, d.num_shared_experts, FALSE, FALSE)>>)

MoeMatrices(d) ==
    When(d.num_shared_experts > 0,
         <<ExpertMat("shared_mlp_gate", d.d_model, d.expert_dim, d.num_shared_experts, IsMoe(d), FALSE),
           ExpertMat("shared_mlp_up", d.d_model, d.expert_dim, d.num_shared_experts, IsMoe(d), FALSE),
           ExpertMat("shared_mlp_down", d.expert_dim, d.d_model, d.num_shared_experts, IsMoe(d), FALSE)>>)
      \o When(IsMoe(d),
              <<ExpertMat("routed_mlp_gate", d.d_model, d.expert_dim, d.num_routed_experts, TRUE, TRUE),
                ExpertMat("routed_mlp_up", d.d_model, d.expert_dim, d.num_routed_experts, TRUE, TRUE),
                ExpertMat("routed_mlp_down", d.expert_dim, d.d_model, d.num_routed_experts, TRUE, TRUE)>>)

TransformerMatrices(d) == DenseAttentionMatrices(d) \o (IF IsMoe(d) THEN MoeMatrices(d) ELSE MlpMatrices(d))

MlaMatrices(d) ==
    NonEmpty((IF d.q_lora_rank > 0
              THEN <<Mat("q_a_proj", d.d_model, d.q_lora_rank), Mat("q_b_proj", d.q_lora_rank, QDim(d))>>
              ELSE <<Mat("q_proj", d.d_model, QDim(d))>>)
             \o <<Mat("kv_a_proj_with_mqa", d.d_model, KvADim(d)), Mat("kv_b_proj", d.kv_lora_rank, KvBDim(d)),
                  Mat("o_proj", ODim(d), d.d_model)>>)

DsaMatrices(d, indexer) ==
    NonEmpty(<<Mat("q_a_proj", d.d_model, d.q_lora_rank), Mat("q_b_proj", d.q_lora_rank, QDim(d))>>
             \o When(indexer, <<Mat("index_q_b_proj", d.q_lora_rank, IndexQDim(d)),
                                Mat("index_k_proj", d.d_model, d.index_head_dim),
                                Mat("index_weight_proj", d.d_model, d.index_n_heads)>>)
             \o <<Mat("kv_a_proj_with_mqa", d.d_model, KvADim(d)), Mat("kv_b_proj", d.kv_lora_rank, KvBDim(d)),
                  Mat("o_proj", ODim(d), d.d_model)>>)

(* A frozen indexer has parameters and no gradient.                        *)
V32Matrices(d, dense, trainableOnly, indexer) ==
    DsaMatrices(d, indexer /\ (d.train_indexer \/ ~trainableOnly)) \o FfnMatrices(FfnDims(d, dense))

HybridMatrices(d, kind) ==
    NonEmpty(IF kind = "linear_attention"
             THEN <<Mat("in_proj_q", d.d_model, KeyDim(d)), Mat("in_proj_k", d.d_model, KeyDim(d)),
                    Mat("in_proj_v", d.d_model, ValueDim(d)), Mat("in_proj_z", d.d_model, ValueDim(d)),
                    Mat("in_proj_ba", d.d_model, 2 * d.linear_num_value_heads),
                    Mat("causal_conv1d", ConvDim(d), d.linear_conv_kernel_dim),
                    Mat("linear_out_proj", ValueDim(d), d.d_model)>>
             ELSE <<Mat("q_proj", d.d_model, AttnDim(d)), Mat("q_gate_proj", d.d_model, AttnDim(d)),
                    Mat("k_proj", d.d_model, KvDim(d)), Mat("v_proj", d.d_model, KvDim(d)),
                    Mat("o_proj", AttnDim(d), d.d_model)>>)
      \o FfnMatrices(d)

NemotronMatrices(d, kind) ==
    NonEmpty(CASE kind = "mamba" ->
                    <<Mat("mamba_in_proj", d.d_model, MambaProjDim(d)),
                      Mat("mamba_depthwise_conv1d", MambaConvDim(d), d.conv_kernel),
                      Mat("mamba_out_proj", MambaDim(d), d.d_model)>>
               [] kind = "attention" ->
                    <<Mat("q_proj", d.d_model, AttnDim(d)), Mat("k_proj", d.d_model, KvDim(d)),
                      Mat("v_proj", d.d_model, KvDim(d)), Mat("o_proj", AttnDim(d), d.d_model)>>
               [] kind = "moe" ->
                    <<ExpertMat("routed_mlp_up", d.d_model, d.expert_dim, d.num_routed_experts, TRUE, TRUE),
                      ExpertMat("routed_mlp_down", d.expert_dim, d.d_model, d.num_routed_experts, TRUE, TRUE),
                      ExpertMat("shared_mlp_up", d.d_model, d.shared_expert_dim, d.num_shared_experts, TRUE, FALSE),
                      ExpertMat("shared_mlp_down", d.shared_expert_dim, d.d_model, d.num_shared_experts, TRUE, FALSE)>>
               [] kind = "mlp" ->
                    <<Mat("mlp_up", d.d_model, d.intermediate_size), Mat("mlp_down", d.intermediate_size, d.d_model)>>)

-----------------------------------------------------------------------------
(***************************************************************************)
(* The model families of the workload generator                            *)
(* (dataflow_sim/workloads/models): what each tells the training builder   *)
(* about its layers and its head.  A layer spec has                        *)
(*    key, optKey      the names of its compute blocks                     *)
(*    params, grads    how many parameters it has, and how many train      *)
(*    ops              its forward, backward and recompute operations      *)
(*    opt              the operations of its optimizer step                *)
(*    wBytes, gBytes, oBytes, aBytes                                       *)
(*                     the sizes of its weights, gradients, optimizer      *)
(*                     state and saved activations                         *)
(* Layers are numbered from 0 as in the code.                              *)
(***************************************************************************)
HalfUp(half) == (half + 1) \div 2

-----------------------------------------------------------------------------
(* Byte counts over weight matrices.                                       *)

LocalCount(m, P) == IF m.ep THEN m.count \div P.ep ELSE m.count

Elements(mats) == MapThenSumSet(LAMBDA j : mats[j].rows * mats[j].cols * mats[j].count, DOMAIN mats)
LocalElements(mats, P) ==
    MapThenSumSet(LAMBDA j : mats[j].rows * mats[j].cols * LocalCount(mats[j], P), DOMAIN mats)

MatrixWeightBytes(mats, P) ==
    HalfUp(MapThenSumSet(LAMBDA j : mats[j].rows * mats[j].cols * LocalCount(mats[j], P)
                                      * (IF mats[j].expert THEN P.xwt ELSE P.wt),
                         DOMAIN mats))

MatrixGradientBytes(mats, P) == HalfUp(LocalElements(mats, P) * P.grad)

MatrixStateBytes(mats, optimizer, P) ==
    CASE optimizer \in {"none", "sgd"} -> 0
      [] optimizer = "adamw" -> HalfUp(2 * LocalElements(mats, P) * P.state)
      [] optimizer = "muon" -> HalfUp(LocalElements(mats, P) * P.state)

OptimizerOps(mats, optimizer, P) ==
    CASE optimizer = "none" -> <<>>
      [] optimizer = "adamw" ->
           <<AdamwStep(MatrixWeightBytes(mats, P), MatrixGradientBytes(mats, P), MatrixStateBytes(mats, optimizer, P))>>
      [] optimizer = "muon" -> [j \in DOMAIN mats |-> MuonStep([mats[j] EXCEPT !.count = LocalCount(mats[j], P)], P)]
      [] optimizer = "sgd" -> <<SgdStep(MatrixWeightBytes(mats, P), MatrixGradientBytes(mats, P))>>

-----------------------------------------------------------------------------
(* Widths of the saved activations, per token.                             *)

FfnWidth(d) == 2 * (d.num_shared_experts + d.top_k) * d.expert_dim

TransformerWidth(d) == d.head_dim * (2 * d.n_heads + 2 * d.n_kv_heads) + 2 * d.d_model + FfnWidth(d)

OssWidth(d) == 2 * AttnDim(d) + 2 * KvDim(d) + 2 * d.d_model + FfnWidth(d)

MlaWidth(d, dense) ==
    Max({d.q_lora_rank, QDim(d)}) + d.kv_lora_rank + d.qk_rope_head_dim + KvBDim(d) + ODim(d)
      + 2 * d.d_model + FfnWidth(FfnDims(d, dense))

IndexerWidth(d) == IF d.train_indexer THEN IndexQDim(d) + d.index_head_dim + d.index_n_heads ELSE 0

V32Width(d, dense, indexer) ==
    d.q_lora_rank + QDim(d) + d.kv_lora_rank + d.qk_rope_head_dim + KvBDim(d) + ODim(d)
      + (IF indexer THEN IndexerWidth(d) ELSE 0) + 2 * d.d_model + FfnWidth(FfnDims(d, dense))

(* Selected positions are four-byte indices, with their scores when the    *)
(* indexer trains.                                                         *)
IndexBytes == 4

V32SavedBytes(c, d, dense, indexer) ==
    LET width == IF indexer THEN IndexerWidth(d) ELSE 0
        selected == IF indexer THEN TopkScores(c.t, c.L, d.index_topk) ELSE 0
    IN  HalfUp(c.t * (V32Width(d, dense, indexer) - width) * c.P.act + c.t * width * c.P.idx
                 + selected * (2 * IndexBytes + (IF d.train_indexer THEN c.P.idx ELSE 0)))

HybridWidth(d, kind) ==
    (IF kind = "linear_attention"
     THEN 2 * KeyDim(d) + 3 * ValueDim(d) + d.linear_num_value_heads * d.gdn_chunk_size + 2 * d.linear_num_value_heads
     ELSE 3 * AttnDim(d) + 2 * KvDim(d))
      + 2 * d.d_model + FfnWidth(d)

NemotronWidth(d, kind) ==
    2 * d.d_model +
    CASE kind = "mamba" ->
           MambaProjDim(d) + MambaConvDim(d) + d.mamba_num_heads * d.mamba_chunk_size + 2 * MambaDim(d)
      [] kind = "attention" -> 2 * AttnDim(d) + 2 * KvDim(d)
      [] kind = "moe" ->
           d.top_k * (d.expert_dim + d.d_model) + d.num_shared_experts * (d.shared_expert_dim + d.d_model)
      [] kind = "mlp" -> 2 * d.intermediate_size

-----------------------------------------------------------------------------
(* Layer specs.  mats are all matrices of the layer, trained those with a  *)
(* gradient.                                                               *)

Hooked(c, key, optKey, ops, mats, trained, aBytes) ==
    [key |-> key, optKey |-> optKey, ops |-> ops,
     params |-> Elements(mats), grads |-> Elements(trained),
     opt |-> [o \in {"none", "adamw", "muon", "sgd"} |-> OptimizerOps(trained, o, c.P)],
     wBytes |-> MatrixWeightBytes(mats, c.P), gBytes |-> MatrixGradientBytes(trained, c.P),
     oBytes |-> [o \in {"none", "adamw", "muon", "sgd"} |-> MatrixStateBytes(trained, o, c.P)],
     aBytes |-> aBytes, mats |-> mats, trained |-> trained]

SavedBytes(c, width) == HalfUp(c.t * width * c.P.act)

(* The two dense families leave the byte counts to the builder, which      *)
(* multiplies parameters by a width.                                       *)
PlainSpec(c, d) ==
    [Hooked(c, <<"transformer_block">>, <<"optimizer_step">>, TransformerBlock(c, d), TransformerMatrices(d),
            TransformerMatrices(d), SavedBytes(c, TransformerWidth(d)))
       EXCEPT !.params = Elements(LayerWeightMatrices(d)), !.grads = Elements(LayerWeightMatrices(d)),
              !.wBytes = HalfUp(Elements(LayerWeightMatrices(d)) * c.P.wt),
              !.gBytes = HalfUp(Elements(LayerWeightMatrices(d)) * c.P.grad),
              !.oBytes = [o \in DOMAIN @ |-> OptimizerStateBytes(HalfUp(Elements(LayerWeightMatrices(d)) * c.P.state), o)]]

Llama3Layer(c, d, i) == PlainSpec(c, d)
Qwen3Layer(c, d, i) == PlainSpec(c, d)

TransformerMoeSpec(c, d) ==
    [Hooked(c, <<"transformer_block">>, <<"optimizer_step">>, TransformerBlock(c, d), TransformerMatrices(d),
            TransformerMatrices(d), SavedBytes(c, TransformerWidth(d)))
       EXCEPT !.params = Elements(LayerWeightMatrices(d)), !.grads = Elements(LayerWeightMatrices(d))]

Qwen3MoeLayer(c, d, i) == TransformerMoeSpec(c, d)
OlmoeLayer(c, d, i) == TransformerMoeSpec(c, d)

DenseLayer(d, i) == i < d.first_k_dense_replace

DeepSeekMatrices(d, dense) == MlaMatrices(d) \o FfnMatrices(FfnDims(d, dense))

DeepSeekLayer(c, d, i) ==
    Hooked(c, <<"deepseek", DenseLayer(d, i)>>, <<"deepseek_step", DenseLayer(d, i)>>,
           DeepSeekBlock(c, d, DenseLayer(d, i)),
           DeepSeekMatrices(d, DenseLayer(d, i)), DeepSeekMatrices(d, DenseLayer(d, i)),
           SavedBytes(c, MlaWidth(d, DenseLayer(d, i))))

V32Layer(c, d, i) ==
    Hooked(c, <<"deepseek_v3_2", DenseLayer(d, i)>>, <<"deepseek_v3_2_step", DenseLayer(d, i)>>,
           DeepSeekV32Block(c, d, DenseLayer(d, i), "full"),
           V32Matrices(d, DenseLayer(d, i), FALSE, TRUE), V32Matrices(d, DenseLayer(d, i), TRUE, TRUE),
           V32SavedBytes(c, d, DenseLayer(d, i), TRUE))

IndexerMode(d, i) ==
    LET first == d.first_k_dense_replace + d.index_skip_topk_offset
    IN  IF \/ i < d.first_k_dense_replace
           \/ i >= first /\ (i - first) % d.index_topk_freq = 0
        THEN "full" ELSE "shared"

Glm52Layer(c, d, i) ==
    Hooked(c, <<"glm_5_2", DenseLayer(d, i), IndexerMode(d, i)>>, <<"glm_5_2_step", DenseLayer(d, i), IndexerMode(d, i)>>,
           DeepSeekV32Block(c, d, DenseLayer(d, i), IndexerMode(d, i)),
           V32Matrices(d, DenseLayer(d, i), FALSE, IndexerMode(d, i) = "full"),
           V32Matrices(d, DenseLayer(d, i), TRUE, IndexerMode(d, i) = "full"),
           V32SavedBytes(c, d, DenseLayer(d, i), IndexerMode(d, i) = "full"))

OssKind(i) == IF i % 2 = 0 THEN "sliding_attention" ELSE "full_attention"

GptOssLayer(c, d, i) ==
    Hooked(c, <<"gpt_oss", OssKind(i)>>, <<"gpt_oss_step", OssKind(i)>>, OssBlock(c, d, OssKind(i)),
           LayerWeightMatrices(d), LayerWeightMatrices(d), SavedBytes(c, OssWidth(d)))

HybridKind(d, i) == IF (i + 1) % d.full_attention_interval = 0 THEN "full_attention" ELSE "linear_attention"

QwenHybridLayer(c, d, i) ==
    Hooked(c, <<"qwen_hybrid", IsMoe(d), HybridKind(d, i)>>, <<"qwen_hybrid_step", IsMoe(d), HybridKind(d, i)>>,
           QwenHybridBlock(c, d, HybridKind(d, i)),
           HybridMatrices(d, HybridKind(d, i)), HybridMatrices(d, HybridKind(d, i)),
           SavedBytes(c, HybridWidth(d, HybridKind(d, i))))

(* d.layer_types is the parsed pattern, one entry per layer.               *)
NemotronLayer(c, d, i) ==
    LET kind == d.layer_types[i + 1]
    IN  Hooked(c, <<"nemotron_h", kind>>, <<"nemotron_h_step", kind>>, NemotronBlock(c, d, kind),
               NemotronMatrices(d, kind), NemotronMatrices(d, kind), SavedBytes(c, NemotronWidth(d, kind)))

-----------------------------------------------------------------------------
(* Families and what they refuse.                                          *)

LayerOf(family, c, d, i) ==
    CASE family = "llama3" -> Llama3Layer(c, d, i)
      [] family = "qwen3" -> Qwen3Layer(c, d, i)
      [] family = "qwen3_moe" -> Qwen3MoeLayer(c, d, i)
      [] family = "olmoe" -> OlmoeLayer(c, d, i)
      [] family \in {"deepseek_v3", "kimi_k2"} -> DeepSeekLayer(c, d, i)
      [] family \in {"deepseek_v3_2", "glm5"} -> V32Layer(c, d, i)
      [] family = "glm_5_2" -> Glm52Layer(c, d, i)
      [] family = "gpt_oss" -> GptOssLayer(c, d, i)
      [] family \in {"qwen3_hybrid_dense", "qwen3_hybrid_moe"} -> QwenHybridLayer(c, d, i)
      [] family = "nemotron_h" -> NemotronLayer(c, d, i)

(* Dimensions a family rejects, and an expert group that does not divide   *)
(* the routed experts.                                                     *)
Accepted(family, d, P) ==
    /\ family \in {"deepseek_v3_2", "glm5", "glm_5_2"} => d.q_lora_rank > 0 /\ d.first_k_dense_replace <= d.n_layers
    /\ family = "glm_5_2" => d.index_topk_freq > 0
    /\ family = "nemotron_h" => Len(d.layer_types) = d.n_layers
    /\ IsMoe(d) => d.num_routed_experts % P.ep = 0

HeadSpec(c, d) ==
    [key |-> <<"lm_head">>, optKey |-> <<"lm_head_step">>, params |-> HeadParams(d),
     ops |-> [fwd |-> HeadFwd(c, d), bwd |-> HeadBwd(c, d)],
     wBytes |-> HalfUp(HeadParams(d) * c.P.wt), gBytes |-> HalfUp(HeadParams(d) * c.P.grad),
     oBytes |-> [o \in {"none", "adamw", "muon", "sgd"} |-> OptimizerStateBytes(HalfUp(HeadParams(d) * c.P.state), o)]]
=============================================================================
