----------------------------- MODULE SimModules -----------------------------
(***************************************************************************)
(* The costed operations of the workload generator                         *)
(* (dataflow_sim/workloads/ops): what one forward, backward or optimizer   *)
(* kernel computes and moves.                                              *)
(*                                                                         *)
(* A width is counted in half bytes (fp4 = 1, fp8 = 2, bf16 = 4, fp32 =    *)
(* 8), so a traffic is an integer until roofline rounds it up to bytes.  A *)
(* policy P (OpDTypePolicy) gives the widths of activations (act), expert  *)
(* dispatch (disp), weights (wt), gradients (grad), optimizer state        *)
(* (state), expert weights (xwt) and indexer activations (idx), the        *)
(* precisions of the matmuls (prec, xprec, iprec) and the size of the      *)
(* expert-parallel group (ep).                                             *)
(*                                                                         *)
(* An operation is named by what it computes (name) and by its phase: fwd, *)
(* dgrad, wgrad, bwd or opt; wt is the number of weights it touches.       *)
(***************************************************************************)
EXTENDS Integers, Sequences, FiniteSetsExt, SequencesExt

Widths == [fp4 |-> 1, fp8 |-> 2, bf16 |-> 4, fp32 |-> 8]

Roofline(name, phase, flops, eff, half, unit, count, wt) ==
    [name |-> name, phase |-> phase, flops |-> flops, eff |-> eff,
     bytes |-> (half + 1) \div 2, unit |-> unit, count |-> count, wt |-> wt]

MemoryOp(name, phase, half) == Roofline(name, phase, 0, 0, half, "memory", 1, 0)

MatmulEfficiency(prec) == [bf16 |-> "matmul_bf16", fp8 |-> "matmul_fp8", fp4 |-> "matmul_fp4"][prec]

(***************************************************************************)
(* The score entries of attention over t tokens in sequences of length L,  *)
(* all of them, or the nearest (sliding) or the best (top-k) k per token.  *)
(***************************************************************************)
AttentionScores(t, L) == (t \div L) * L * L
SlidingScores(t, L, window) == (t \div L) * L * Min({L, window})
TopkScores(t, L, k) == (t \div L) * L * Min({L, k})

-----------------------------------------------------------------------------
(* Matrix products.  b holds the widths of the tensors read and written.   *)

Matmul(name, t, i, o, count, b, accumulate, prec) ==
    Roofline(name, "fwd", 2 * t * i * o, 2 * t * i * o,
             t * i * b.in + i * o * b.wt + t * o * b.out * (IF accumulate THEN 2 ELSE 1),
             MatmulEfficiency(prec), count, i * o)

MatmulInputGrad(name, t, i, o, count, b, prec) ==
    Roofline(name, "dgrad", 2 * t * i * o, 2 * t * i * o,
             t * o * b.up + i * o * b.wt + t * i * b.in,
             MatmulEfficiency(prec), count, i * o)

MatmulWeightGrad(name, t, i, o, count, b, prec) ==
    Roofline(name, "wgrad", 2 * t * i * o, 2 * t * i * o,
             t * i * b.in + t * o * b.up + 2 * i * o * b.grad,
             MatmulEfficiency(prec), count, i * o)

(* The same called with a whole policy: every width comes from it, and so  *)
(* overrides an explicit width of the call.                                *)

PolicyMatmul(name, t, i, o, count, accumulate, P) ==
    Matmul(name, t, i, o, count, [in |-> P.act, wt |-> P.wt, out |-> P.act],
           accumulate, P.prec)

PolicyInputGrad(name, t, i, o, count, P) ==
    MatmulInputGrad(name, t, i, o, count, [up |-> P.act, wt |-> P.wt, in |-> P.act], P.prec)

PolicyWeightGrad(name, t, i, o, count, P) ==
    MatmulWeightGrad(name, t, i, o, count, [in |-> P.act, up |-> P.act, grad |-> P.grad], P.prec)

-----------------------------------------------------------------------------
(* Norms, rotations, activations, movement, loss.                          *)

RmsNorm(name, t, dim, P) == MemoryOp(name, "fwd", 2 * t * dim * P.act)
RmsNormGrad(name, t, dim, P) == MemoryOp(name, "bwd", 7 * t * dim * P.act)

QkNorm(name, t, d, P) ==
    MemoryOp(name, "fwd", 2 * t * d.head_dim * (d.n_heads + d.n_kv_heads) * P.act)
QkNormGrad(name, t, d, P) ==
    MemoryOp(name, "bwd", 7 * t * d.head_dim * (d.n_heads + d.n_kv_heads) * P.act)

Rope(name, t, d, P) ==
    MemoryOp(name, "fwd", 2 * t * d.head_dim * (d.n_heads + d.n_kv_heads) * P.act)
RopeGrad(name, t, d, P) ==
    MemoryOp(name, "bwd", 2 * t * d.head_dim * (d.n_heads + d.n_kv_heads) * P.act)

MlaRope(name, t, rope, heads, P) == MemoryOp(name, "fwd", 2 * t * rope * (heads + 1) * P.act)
MlaRopeGrad(name, t, rope, heads, P) == MemoryOp(name, "bwd", 2 * t * rope * (heads + 1) * P.act)

Swiglu(name, t, dim, branches, P) == MemoryOp(name, "fwd", 3 * t * dim * branches * P.act)
SwigluGrad(name, t, dim, branches, P) == MemoryOp(name, "bwd", 5 * t * dim * branches * P.act)

Silu(name, t, dim, P) == MemoryOp(name, "fwd", 3 * t * dim * P.act)
SiluGrad(name, t, dim, P) == MemoryOp(name, "bwd", 5 * t * dim * P.act)

Relu2(name, t, dim, P) == MemoryOp(name, "fwd", 3 * t * dim * P.act)
Relu2Grad(name, t, dim, P) == MemoryOp(name, "bwd", 5 * t * dim * P.act)

GatedMultiply(name, t, dim, P) == MemoryOp(name, "fwd", 3 * t * dim * P.act)
GatedMultiplyGrad(name, t, dim, P) == MemoryOp(name, "bwd", 5 * t * dim * P.act)

GatedRmsNorm(name, t, dim, P) == MemoryOp(name, "fwd", 4 * t * dim * P.act)
GatedRmsNormGrad(name, t, dim, P) == MemoryOp(name, "bwd", 8 * t * dim * P.act)

MambaGatedRmsNorm(name, t, dim, P) == MemoryOp(name, "fwd", 4 * t * dim * P.act)
MambaGatedRmsNormGrad(name, t, dim, P) == MemoryOp(name, "bwd", 8 * t * dim * P.act)

CrossEntropy(name, t, vocab, P) == MemoryOp(name, "fwd", 2 * t * vocab * P.act)

(* Tokens sent to k experts each and brought back, over the scale-up link  *)
(* when the experts are spread over a group.                               *)

Lane(P) == IF P.ep > 1 THEN "scale_up" ELSE "memory"

Scatter(name, t, dim, k, in, out, P) ==
    Roofline(name, "fwd", 0, 0, t * dim * in + t * k * dim * out, Lane(P), 1, 0)
Gather(name, t, dim, k, in, out, P) ==
    Roofline(name, "fwd", 0, 0, t * k * dim * in + t * dim * out, Lane(P), 1, 0)
ScatterGrad(name, t, dim, k, in, out, P) ==
    Roofline(name, "bwd", 0, 0, t * dim * in + t * k * dim * out, Lane(P), 1, 0)
GatherGrad(name, t, dim, k, in, out, P) ==
    Roofline(name, "bwd", 0, 0, t * k * dim * in + t * dim * out, Lane(P), 1, 0)
-----------------------------------------------------------------------------
(* Attention and its relatives: flops, effective flops (the score products *)
(* a flash kernel repeats in its backward pass count once) and traffic.    *)

AttentionTraffic(t, d, P) == t * (2 * d.n_heads + 2 * d.n_kv_heads) * d.head_dim * P.act
AttentionGradTraffic(t, d, P) == t * (3 * d.n_heads + 4 * d.n_kv_heads) * d.head_dim * P.act

Attention(name, t, L, d, P) ==
    Roofline(name, "fwd", 2 * d.n_heads * d.head_dim * AttentionScores(t, L),
             2 * d.n_heads * d.head_dim * AttentionScores(t, L),
             AttentionTraffic(t, d, P), "attention_fwd", 1, 0)
AttentionGrad(name, t, L, d, P) ==
    Roofline(name, "bwd", 5 * d.n_heads * d.head_dim * AttentionScores(t, L),
             4 * d.n_heads * d.head_dim * AttentionScores(t, L),
             AttentionGradTraffic(t, d, P), "attention_bwd", 1, 0)

SlidingAttention(name, t, L, d, P) ==
    Roofline(name, "fwd", 2 * d.n_heads * d.head_dim * SlidingScores(t, L, d.sliding_window),
             2 * d.n_heads * d.head_dim * SlidingScores(t, L, d.sliding_window),
             AttentionTraffic(t, d, P), "attention_fwd", 1, 0)
SlidingAttentionGrad(name, t, L, d, P) ==
    Roofline(name, "bwd", 5 * d.n_heads * d.head_dim * SlidingScores(t, L, d.sliding_window),
             4 * d.n_heads * d.head_dim * SlidingScores(t, L, d.sliding_window),
             AttentionGradTraffic(t, d, P), "attention_bwd", 1, 0)

MlaAttention(name, t, L, heads, qk, v, P) ==
    Roofline(name, "fwd", heads * (qk + v) * AttentionScores(t, L),
             heads * (qk + v) * AttentionScores(t, L),
             t * heads * (2 * qk + 2 * v) * P.act, "attention_fwd", 1, 0)
MlaAttentionGrad(name, t, L, heads, qk, v, P) ==
    Roofline(name, "bwd", heads * (2 * qk + 3 * v) * AttentionScores(t, L),
             heads * (2 * qk + 2 * v) * AttentionScores(t, L),
             t * heads * (3 * qk + 3 * v) * P.act, "attention_bwd", 1, 0)

DsaAttention(name, t, L, d, P) ==
    Roofline(name, "fwd",
             d.n_heads * (2 * d.kv_lora_rank + d.qk_rope_head_dim) * TopkScores(t, L, d.index_topk),
             d.n_heads * (2 * d.kv_lora_rank + d.qk_rope_head_dim) * TopkScores(t, L, d.index_topk),
             t * d.n_heads * (2 * (d.kv_lora_rank + d.qk_rope_head_dim) + 2 * d.v_head_dim) * P.act,
             "attention_fwd", 1, 0)
DsaAttentionGrad(name, t, L, d, P) ==
    Roofline(name, "bwd",
             d.n_heads * (5 * d.kv_lora_rank + 2 * d.qk_rope_head_dim) * TopkScores(t, L, d.index_topk),
             d.n_heads * (4 * d.kv_lora_rank + 2 * d.qk_rope_head_dim) * TopkScores(t, L, d.index_topk),
             t * d.n_heads * (3 * (d.kv_lora_rank + d.qk_rope_head_dim) + 3 * d.v_head_dim) * P.act,
             "attention_bwd", 1, 0)

(* The indexer scores every pair of tokens and keeps the k best: their     *)
(* indices, in fp32-sized words, and their scores when it is trained.      *)

IndexerTraffic(t, d) == t * d.index_n_heads * d.index_head_dim + t * d.index_head_dim + t * d.index_n_heads

LightningIndexScore(name, t, L, d, P) ==
    Roofline(name, "fwd", 2 * AttentionScores(t, L) * d.index_n_heads * d.index_head_dim,
             2 * AttentionScores(t, L) * d.index_n_heads * d.index_head_dim,
             IndexerTraffic(t, d) * P.idx + TopkScores(t, L, d.index_topk) * Widths.fp32
               + (IF d.train_indexer THEN TopkScores(t, L, d.index_topk) * P.idx ELSE 0),
             MatmulEfficiency(P.iprec), 1, 0)
LightningIndexScoreGrad(name, t, L, d, P) ==
    Roofline(name, "bwd", 6 * TopkScores(t, L, d.index_topk) * d.index_n_heads * d.index_head_dim,
             4 * TopkScores(t, L, d.index_topk) * d.index_n_heads * d.index_head_dim,
             (TopkScores(t, L, d.index_topk) + IndexerTraffic(t, d)) * P.idx,
             MatmulEfficiency(P.iprec), 1, 0)

Conv1d(name, t, dim, kernel, P) ==
    Roofline(name, "fwd", 2 * t * dim * kernel, 2 * t * dim * kernel,
             (2 * t * dim + dim * kernel) * P.act, "matmul", 1, dim * kernel)
Conv1dGrad(name, t, dim, kernel, P) ==
    Roofline(name, "bwd", 4 * t * dim * kernel, 4 * t * dim * kernel,
             2 * (2 * t * dim + dim * kernel) * P.act, "matmul", 1, dim * kernel)

DeltaRuleFlops(t, d) ==
    t * d.linear_num_value_heads
      * (6 * d.linear_key_head_dim * d.linear_value_head_dim
           + 2 * d.gdn_chunk_size * (d.linear_key_head_dim + d.linear_value_head_dim))

DeltaRuleTraffic(t, d) ==
    2 * t * d.linear_num_key_heads * d.linear_key_head_dim
      + 4 * t * d.linear_num_value_heads * d.linear_value_head_dim
      + 2 * t * d.linear_num_value_heads + t * d.linear_num_value_heads * d.gdn_chunk_size

GatedDeltaRule(name, t, d, P) ==
    Roofline(name, "fwd", DeltaRuleFlops(t, d), DeltaRuleFlops(t, d),
             DeltaRuleTraffic(t, d) * P.act, "attention_fwd", 1, 0)
GatedDeltaRuleGrad(name, t, d, P) ==
    Roofline(name, "bwd", 2 * DeltaRuleFlops(t, d), 2 * DeltaRuleFlops(t, d),
             2 * DeltaRuleTraffic(t, d) * P.act, "attention_bwd", 1, 0)

(* The chunks of one scan: sequences times chunks per sequence.            *)
ScanChunks(t, L, chunk) == (t \div L) * ((L + chunk - 1) \div chunk)

ChunkScanOf(name, t, n, d, P) ==
    LET heads == d.mamba_num_heads
        dim == d.mamba_head_dim
        chunk == d.mamba_chunk_size
        flops == 2 * n * chunk * chunk * heads * (d.ssm_state_size + dim)
                   + 4 * t * heads * dim * d.ssm_state_size
                   + 2 * n * heads * dim * d.ssm_state_size + 2 * t * heads * dim
        half == (t * (2 * heads * dim + 2 * d.n_groups * d.ssm_state_size + heads)
                   + n * chunk * chunk * heads + n * heads * dim * d.ssm_state_size) * P.act
    IN  Roofline(name, "fwd", flops, flops, half, "attention_fwd", 1, 0)

MambaChunkScan(name, t, L, d, P) ==
    ChunkScanOf(name, t, ScanChunks(t, L, d.mamba_chunk_size), d, P)

(* The backward scan doubles the forward one, its rounded bytes included.  *)
DoubledScan(op) == Roofline(op.name, "bwd", 2 * op.flops, 2 * op.flops, 4 * op.bytes, "attention_bwd", 1, 0)

MambaChunkScanGrad(name, t, L, d, P) == DoubledScan(MambaChunkScan(name, t, L, d, P))

-----------------------------------------------------------------------------
(* Optimizer steps.                                                        *)

AdamwStep(weight, gradient, state) ==
    MemoryOp("adamw", "opt", 2 * (2 * weight + gradient + 2 * state))

SgdStep(weight, gradient) == MemoryOp("sgd", "opt", 2 * (2 * weight + gradient))

NsIters == 5

MuonMatrixStep(mat, n, m, P) ==
    LET flops == 10 * n * m + NsIters * (4 * n * n * m + 2 * n * n * n + 2 * n * m + 3 * n * n)
    IN  Roofline(mat.name, "opt", flops, flops,
                 P.state * (12 * n * m + NsIters * (5 * n * m + 6 * n * n)), "matmul", mat.count, n * m)

MuonStep(mat, P) == MuonMatrixStep(mat, Min({mat.rows, mat.cols}), Max({mat.rows, mat.cols}), P)

OptimizerStateBytes(bytes, optimizer) ==
    CASE optimizer = "adamw" -> 2 * bytes
      [] optimizer = "muon" -> bytes
      [] OTHER -> 0

-----------------------------------------------------------------------------
(***************************************************************************)
(* The layers of the workload generator (dataflow_sim/workloads/modules):  *)
(* for every attention, mixer and feed-forward module, the operations of   *)
(* its forward pass, of the two halves of its backward pass (dgrad: the    *)
(* gradient of its input, wgrad: of its weights) and of its recomputation. *)
(*                                                                         *)
(* d is a record of dimensions with the fields of the Python class; c the  *)
(* call: c.t tokens in sequences of length c.L under policy c.P.           *)
(***************************************************************************)
When(cond, ops) == IF cond THEN ops ELSE <<>>

Mm(c, name, i, o) == PolicyMatmul(name, c.t, i, o, 1, FALSE, c.P)
MmResidual(c, name, i, o) == PolicyMatmul(name, c.t, i, o, 1, TRUE, c.P)
Dgrad(c, name, i, o) == PolicyInputGrad(name, c.t, i, o, 1, c.P)
Wgrad(c, name, i, o) == PolicyWeightGrad(name, c.t, i, o, 1, c.P)

Norm(c, name, dim) == RmsNorm(name, c.t, dim, c.P)
NormGrad(c, name, dim) == RmsNormGrad(name, c.t, dim, c.P)
InnerNorm(c, name, dim) == MemoryOp(name, "fwd", 2 * c.t * dim * c.P.act)
InnerNormGrad(c, name, dim) == MemoryOp(name, "bwd", 4 * c.t * dim * c.P.act)

(* A recomputed operation costs time and counts for nothing.               *)
Uncounted(ops) == [j \in DOMAIN ops |-> [ops[j] EXCEPT !.eff = 0]]
Without(ops, names) == LET Kept(op) == op.name \notin names IN SelectSeq(ops, Kept)

-----------------------------------------------------------------------------
(* Dense attention.                                                        *)

QkvDim(d) == (d.n_heads + 2 * d.n_kv_heads) * d.head_dim
AttnDim(d) == d.n_heads * d.head_dim
KvDim(d) == d.n_kv_heads * d.head_dim

DenseAttentionFwd(c, d) ==
    <<Norm(c, "attn_norm", d.d_model), Mm(c, "qkv_proj", d.d_model, QkvDim(d))>>
      \o When(d.qk_norm, <<QkNorm("qk_norm", c.t, d, c.P)>>)
      \o <<Rope("rope", c.t, d, c.P), Attention("attn", c.t, c.L, d, c.P),
           MmResidual(c, "attn_proj", AttnDim(d), d.d_model)>>

DenseAttentionDgrad(c, d) ==
    <<NormGrad(c, "ffn_norm", d.d_model), Dgrad(c, "attn_proj", AttnDim(d), d.d_model),
      AttentionGrad("attn", c.t, c.L, d, c.P), RopeGrad("rope", c.t, d, c.P)>>
      \o When(d.qk_norm, <<QkNormGrad("qk_norm", c.t, d, c.P)>>)
      \o <<Dgrad(c, "qkv_proj", d.d_model, QkvDim(d)), NormGrad(c, "attn_norm", d.d_model)>>

DenseAttentionWgrad(c, d) ==
    <<Wgrad(c, "attn_proj", AttnDim(d), d.d_model), Wgrad(c, "qkv_proj", d.d_model, QkvDim(d))>>

DenseAttentionRecompute(c, d) == Uncounted(DenseAttentionFwd(c, d))

-----------------------------------------------------------------------------
(* GPT-OSS attention: full or sliding window, by layer.                    *)

OssScores(c, d, kind) ==
    IF kind = "sliding_attention" THEN SlidingAttention("sliding_attn", c.t, c.L, d, c.P)
    ELSE Attention("attn", c.t, c.L, d, c.P)

OssScoresGrad(c, d, kind) ==
    IF kind = "sliding_attention" THEN SlidingAttentionGrad("sliding_attn", c.t, c.L, d, c.P)
    ELSE AttentionGrad("attn", c.t, c.L, d, c.P)

OssAttentionFwd(c, d, kind) ==
    <<Norm(c, "attn_norm", d.d_model), Mm(c, "qkv_proj", d.d_model, QkvDim(d))>>
      \o When(d.qk_norm, <<QkNorm("qk_norm", c.t, d, c.P)>>)
      \o <<Rope("rope", c.t, d, c.P), OssScores(c, d, kind),
           MmResidual(c, "attn_proj", AttnDim(d), d.d_model)>>

OssAttentionDgrad(c, d, kind) ==
    <<NormGrad(c, "ffn_norm", d.d_model), Dgrad(c, "attn_proj", AttnDim(d), d.d_model),
      OssScoresGrad(c, d, kind), RopeGrad("rope", c.t, d, c.P)>>
      \o When(d.qk_norm, <<QkNormGrad("qk_norm", c.t, d, c.P)>>)
      \o <<Dgrad(c, "qkv_proj", d.d_model, QkvDim(d)), NormGrad(c, "attn_norm", d.d_model)>>

OssAttentionWgrad(c, d) ==
    <<Wgrad(c, "attn_proj", AttnDim(d), d.d_model), Wgrad(c, "qkv_proj", d.d_model, QkvDim(d))>>

(* Unlike the other modules this one leaves the effective flops in place.  *)
OssAttentionRecompute(c, d, kind) == OssAttentionFwd(c, d, kind)

-----------------------------------------------------------------------------
(* Latent attention (DeepSeek-V3, Kimi-K2).                                *)

QkHeadDim(d) == d.qk_nope_head_dim + d.qk_rope_head_dim
QDim(d) == d.n_heads * QkHeadDim(d)
ODim(d) == d.n_heads * d.v_head_dim
KvADim(d) == d.kv_lora_rank + d.qk_rope_head_dim
KvBDim(d) == d.n_heads * (d.qk_nope_head_dim + d.v_head_dim)

MlaFwd(c, d) ==
    <<Norm(c, "attn_norm", d.d_model)>>
      \o (IF d.q_lora_rank > 0
          THEN <<Mm(c, "q_a_proj", d.d_model, d.q_lora_rank), InnerNorm(c, "q_a_norm", d.q_lora_rank),
                 Mm(c, "q_b_proj", d.q_lora_rank, QDim(d))>>
          ELSE <<Mm(c, "q_proj", d.d_model, QDim(d))>>)
      \o <<Mm(c, "kv_a_proj_with_mqa", d.d_model, KvADim(d)), InnerNorm(c, "kv_a_norm", d.kv_lora_rank),
           Mm(c, "kv_b_proj", d.kv_lora_rank, KvBDim(d)),
           MlaRope("mla_rope", c.t, d.qk_rope_head_dim, d.n_heads, c.P),
           MlaAttention("mla_attn", c.t, c.L, d.n_heads, QkHeadDim(d), d.v_head_dim, c.P),
           MmResidual(c, "o_proj", ODim(d), d.d_model)>>

MlaDgrad(c, d) ==
    <<Dgrad(c, "o_proj", ODim(d), d.d_model),
      MlaAttentionGrad("mla_attn", c.t, c.L, d.n_heads, QkHeadDim(d), d.v_head_dim, c.P),
      MlaRopeGrad("mla_rope", c.t, d.qk_rope_head_dim, d.n_heads, c.P),
      Dgrad(c, "kv_b_proj", d.kv_lora_rank, KvBDim(d)), InnerNormGrad(c, "kv_a_norm", d.kv_lora_rank),
      Dgrad(c, "kv_a_proj_with_mqa", d.d_model, KvADim(d))>>
      \o (IF d.q_lora_rank > 0
          THEN <<Dgrad(c, "q_b_proj", d.q_lora_rank, QDim(d)), InnerNormGrad(c, "q_a_norm", d.q_lora_rank),
                 Dgrad(c, "q_a_proj", d.d_model, d.q_lora_rank)>>
          ELSE <<Dgrad(c, "q_proj", d.d_model, QDim(d))>>)
      \o <<NormGrad(c, "attn_norm", d.d_model)>>

MlaWgrad(c, d) ==
    <<Wgrad(c, "o_proj", ODim(d), d.d_model), Wgrad(c, "kv_b_proj", d.kv_lora_rank, KvBDim(d)),
      Wgrad(c, "kv_a_proj_with_mqa", d.d_model, KvADim(d))>>
      \o (IF d.q_lora_rank > 0
          THEN <<Wgrad(c, "q_b_proj", d.q_lora_rank, QDim(d)), Wgrad(c, "q_a_proj", d.d_model, d.q_lora_rank)>>
          ELSE <<Wgrad(c, "q_proj", d.d_model, QDim(d))>>)

MlaRecompute(c, d) == Uncounted(MlaFwd(c, d))

-----------------------------------------------------------------------------
(* Sparse latent attention (DeepSeek-V3.2, GLM): a layer in full mode runs *)
(* its own indexer, one in shared mode takes another layer's selection.    *)

IndexQDim(d) == d.index_n_heads * d.index_head_dim

DsaFwd(c, d, mode) ==
    <<Norm(c, "attn_norm", d.d_model), Mm(c, "q_a_proj", d.d_model, d.q_lora_rank),
      InnerNorm(c, "q_a_norm", d.q_lora_rank), Mm(c, "q_b_proj", d.q_lora_rank, QDim(d))>>
      \o When(mode = "full",
              <<Mm(c, "index_q_b_proj", d.q_lora_rank, IndexQDim(d)),
                Mm(c, "index_k_proj", d.d_model, d.index_head_dim),
                Mm(c, "index_weight_proj", d.d_model, d.index_n_heads),
                LightningIndexScore("lightning_index_score", c.t, c.L, d, c.P)>>)
      \o <<Mm(c, "kv_a_proj_with_mqa", d.d_model, KvADim(d)), InnerNorm(c, "kv_a_norm", d.kv_lora_rank),
           Mm(c, "kv_b_proj", d.kv_lora_rank, KvBDim(d)),
           MlaRope("dsa_rope", c.t, d.qk_rope_head_dim, d.n_heads, c.P),
           DsaAttention("dsa_sparse_attn", c.t, c.L, d, c.P),
           MmResidual(c, "o_proj", ODim(d), d.d_model)>>

DsaDgrad(c, d, mode) ==
    <<Dgrad(c, "o_proj", ODim(d), d.d_model), DsaAttentionGrad("dsa_sparse_attn", c.t, c.L, d, c.P)>>
      \o When(mode = "full" /\ d.train_indexer,
              <<LightningIndexScoreGrad("lightning_index_score", c.t, c.L, d, c.P)>>)
      \o <<MlaRopeGrad("dsa_rope", c.t, d.qk_rope_head_dim, d.n_heads, c.P),
           Dgrad(c, "kv_b_proj", d.kv_lora_rank, KvBDim(d)), InnerNormGrad(c, "kv_a_norm", d.kv_lora_rank),
           Dgrad(c, "kv_a_proj_with_mqa", d.d_model, KvADim(d)),
           Dgrad(c, "q_b_proj", d.q_lora_rank, QDim(d)), InnerNormGrad(c, "q_a_norm", d.q_lora_rank),
           Dgrad(c, "q_a_proj", d.d_model, d.q_lora_rank), NormGrad(c, "attn_norm", d.d_model)>>

DsaWgrad(c, d, mode) ==
    <<Wgrad(c, "o_proj", ODim(d), d.d_model), Wgrad(c, "kv_b_proj", d.kv_lora_rank, KvBDim(d)),
      Wgrad(c, "kv_a_proj_with_mqa", d.d_model, KvADim(d)),
      Wgrad(c, "q_b_proj", d.q_lora_rank, QDim(d)), Wgrad(c, "q_a_proj", d.d_model, d.q_lora_rank)>>
      \o When(mode = "full" /\ d.train_indexer,
              <<Wgrad(c, "index_q_b_proj", d.q_lora_rank, IndexQDim(d)),
                Wgrad(c, "index_k_proj", d.d_model, d.index_head_dim),
                Wgrad(c, "index_weight_proj", d.d_model, d.index_n_heads)>>)

DsaRecompute(c, d, mode) == Uncounted(DsaFwd(c, d, mode))

-----------------------------------------------------------------------------
(* Qwen hybrid layers: gated full attention, or gated delta networks.      *)

HybridFullFwd(c, d) ==
    <<Norm(c, "attn_norm", d.d_model), Mm(c, "q_proj", d.d_model, 2 * AttnDim(d)),
      Mm(c, "k_proj", d.d_model, KvDim(d)), Mm(c, "v_proj", d.d_model, KvDim(d)),
      InnerNorm(c, "q_norm", AttnDim(d)), InnerNorm(c, "k_norm", KvDim(d)), Rope("rope", c.t, d, c.P),
      Attention("attn", c.t, c.L, d, c.P), GatedMultiply("sigmoid_gate_mul", c.t, AttnDim(d), c.P),
      MmResidual(c, "o_proj", AttnDim(d), d.d_model)>>

HybridFullDgrad(c, d) ==
    <<Dgrad(c, "o_proj", AttnDim(d), d.d_model), GatedMultiplyGrad("sigmoid_gate_mul", c.t, AttnDim(d), c.P),
      AttentionGrad("attn", c.t, c.L, d, c.P), RopeGrad("rope", c.t, d, c.P),
      InnerNormGrad(c, "k_norm", KvDim(d)), InnerNormGrad(c, "q_norm", AttnDim(d)),
      Dgrad(c, "v_proj", d.d_model, KvDim(d)), Dgrad(c, "k_proj", d.d_model, KvDim(d)),
      Dgrad(c, "q_proj", d.d_model, 2 * AttnDim(d)), NormGrad(c, "attn_norm", d.d_model)>>

HybridFullWgrad(c, d) ==
    <<Wgrad(c, "o_proj", AttnDim(d), d.d_model), Wgrad(c, "v_proj", d.d_model, KvDim(d)),
      Wgrad(c, "k_proj", d.d_model, KvDim(d)), Wgrad(c, "q_proj", d.d_model, 2 * AttnDim(d))>>

HybridFullRecompute(c, d) == Uncounted(HybridFullFwd(c, d))

KeyDim(d) == d.linear_num_key_heads * d.linear_key_head_dim
ValueDim(d) == d.linear_num_value_heads * d.linear_value_head_dim
ConvDim(d) == 2 * KeyDim(d) + ValueDim(d)

LinearFwd(c, d) ==
    <<Norm(c, "attn_norm", d.d_model), Mm(c, "in_proj_qkvz", d.d_model, 2 * KeyDim(d) + 2 * ValueDim(d)),
      Mm(c, "in_proj_ba", d.d_model, 2 * d.linear_num_value_heads),
      Conv1d("causal_conv1d", c.t, ConvDim(d), d.linear_conv_kernel_dim, c.P),
      GatedDeltaRule("gated_delta_rule", c.t, d, c.P), GatedRmsNorm("gated_rms_norm", c.t, ValueDim(d), c.P),
      MmResidual(c, "linear_out_proj", ValueDim(d), d.d_model)>>

LinearDgrad(c, d) ==
    <<Dgrad(c, "linear_out_proj", ValueDim(d), d.d_model), GatedRmsNormGrad("gated_rms_norm", c.t, ValueDim(d), c.P),
      GatedDeltaRuleGrad("gated_delta_rule", c.t, d, c.P),
      Conv1dGrad("causal_conv1d", c.t, ConvDim(d), d.linear_conv_kernel_dim, c.P),
      Dgrad(c, "in_proj_ba", d.d_model, 2 * d.linear_num_value_heads),
      Dgrad(c, "in_proj_qkvz", d.d_model, 2 * KeyDim(d) + 2 * ValueDim(d)),
      NormGrad(c, "attn_norm", d.d_model)>>

LinearWgrad(c, d) ==
    <<Wgrad(c, "linear_out_proj", ValueDim(d), d.d_model),
      Wgrad(c, "in_proj_ba", d.d_model, 2 * d.linear_num_value_heads),
      Wgrad(c, "in_proj_qkvz", d.d_model, 2 * KeyDim(d) + 2 * ValueDim(d))>>

LinearRecompute(c, d) == Uncounted(LinearFwd(c, d))

-----------------------------------------------------------------------------
(* Nemotron mixers: dense attention, or a Mamba-2 scan.                    *)

NemotronAttentionFwd(c, d) ==
    <<Mm(c, "q_proj", d.d_model, AttnDim(d)), Mm(c, "k_proj", d.d_model, KvDim(d)),
      Mm(c, "v_proj", d.d_model, KvDim(d)), Attention("attn", c.t, c.L, d, c.P),
      MmResidual(c, "o_proj", AttnDim(d), d.d_model)>>

NemotronAttentionDgrad(c, d) ==
    <<Dgrad(c, "o_proj", AttnDim(d), d.d_model), AttentionGrad("attn", c.t, c.L, d, c.P),
      Dgrad(c, "v_proj", d.d_model, KvDim(d)), Dgrad(c, "k_proj", d.d_model, KvDim(d)),
      Dgrad(c, "q_proj", d.d_model, AttnDim(d))>>

NemotronAttentionWgrad(c, d) ==
    <<Wgrad(c, "o_proj", AttnDim(d), d.d_model), Wgrad(c, "v_proj", d.d_model, KvDim(d)),
      Wgrad(c, "k_proj", d.d_model, KvDim(d)), Wgrad(c, "q_proj", d.d_model, AttnDim(d))>>

NemotronAttentionRecompute(c, d) == Uncounted(NemotronAttentionFwd(c, d))

MambaDim(d) == d.mamba_num_heads * d.mamba_head_dim
MambaConvDim(d) == MambaDim(d) + 2 * d.n_groups * d.ssm_state_size
MambaProjDim(d) == 2 * MambaDim(d) + 2 * d.n_groups * d.ssm_state_size + d.mamba_num_heads

MambaFwd(c, d) ==
    <<Mm(c, "mamba_in_proj", d.d_model, MambaProjDim(d)),
      Conv1d("mamba_depthwise_conv1d", c.t, MambaConvDim(d), d.conv_kernel, c.P),
      Silu("mamba_silu", c.t, MambaConvDim(d), c.P), MambaChunkScan("mamba_chunk_scan", c.t, c.L, d, c.P),
      MambaGatedRmsNorm("mamba_gated_rms_norm", c.t, MambaDim(d), c.P),
      MmResidual(c, "mamba_out_proj", MambaDim(d), d.d_model)>>

MambaDgrad(c, d) ==
    <<Dgrad(c, "mamba_out_proj", MambaDim(d), d.d_model),
      MambaGatedRmsNormGrad("mamba_gated_rms_norm", c.t, MambaDim(d), c.P),
      MambaChunkScanGrad("mamba_chunk_scan", c.t, c.L, d, c.P), SiluGrad("mamba_silu", c.t, MambaConvDim(d), c.P),
      Conv1dGrad("mamba_depthwise_conv1d", c.t, MambaConvDim(d), d.conv_kernel, c.P),
      Dgrad(c, "mamba_in_proj", d.d_model, MambaProjDim(d))>>

MambaWgrad(c, d) ==
    <<Wgrad(c, "mamba_out_proj", MambaDim(d), d.d_model), Wgrad(c, "mamba_in_proj", d.d_model, MambaProjDim(d))>>

MambaRecompute(c, d) == Uncounted(MambaFwd(c, d))
=============================================================================
