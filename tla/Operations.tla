----------------------------- MODULE Operations -----------------------------
(***************************************************************************)
(* The device under one call of an operation of dash-ops or dash-mlx: its   *)
(* kernels are launched one after the other, and the cubes of one launch    *)
(* run in any order.  Two opposite orders of them are explored: between     *)
(* them every two cubes run in both orders, and what a launch leaves could  *)
(* depend on the order only through two cubes of which one writes what the  *)
(* other touches.                                                           *)
(***************************************************************************)
EXTENDS Integers, Sequences, SequencesExt

CONSTANTS
  CHUNK, BLOCK, GROUP, H, DK, DV,   \* of the gated delta rule
  K, TILE,                          \* of the causal convolution
  Garbage,                          \* what memory nobody has written holds
  Calls                             \* the calls, each with its operation op

Delta == INSTANCE DeltaCalls
Conv  == INSTANCE Conv1dCalls
Loss  == INSTANCE LogprobCalls
Draw  == INSTANCE SampleCalls
Thin  == INSTANCE LowRank
Read  == INSTANCE AttentionDecode
ConvMlx == INSTANCE Conv1dMlx
ReadMlx == INSTANCE AttentionMlx
LossMlx == INSTANCE LogprobMlx
RuleMlx == INSTANCE DeltaMlx WITH CHUNK <- 4, BLOCK <- 2, DK <- 3, TV <- 1, SG <- 2

ASSUME SizesAssumption == Delta!DeltaAssumption /\ Conv!ConvAssumption /\ RuleMlx!DeltaMlxAssumption

ASSUME CallsAssumption ==
  \A c \in Calls : \/ c.op = "delta" /\ Delta!IsCall(c)
                   \/ c.op = "conv" /\ Conv!IsCall(c)
                   \/ c.op = "loss" /\ Loss!IsCall(c)
                   \/ c.op = "sample" /\ Draw!IsCall(c)
                   \/ c.op = "lowrank" /\ Thin!IsCall(c)
                   \/ c.op = "decode" /\ Read!IsCall(c)
                   \/ c.op = "mlxconv" /\ ConvMlx!IsMlxCall(c)
                   \/ c.op = "mlxattention" /\ ReadMlx!IsMlxCall(c)
                   \/ c.op = "mlxdelta" /\ RuleMlx!IsMlxCall(c)
                   \/ c.op = "mlxloss" /\ LossMlx!IsMlxCall(c)
                   \/ c.op = "mlxlowrank" /\ Thin!IsMlxCall(c)
                   \/ c.op = "mlxsample" /\ Draw!IsMlxCall(c)

VARIABLES
  call,     \* the call
  at,       \* the launch being run, an index into Stream(call)
  todo,     \* its cubes that have not run, in the order they will
  mem       \* device memory

vars == <<call, at, todo, mem>>

Stream(c) == CASE c.op = "delta" -> Delta!Stream(c)
               [] c.op = "conv"  -> Conv!Stream(c)
               [] c.op = "loss"  -> Loss!Stream(c)
               [] c.op = "sample" -> Draw!Stream(c)
               [] c.op = "lowrank" -> Thin!Stream(c)
               [] c.op = "decode" -> Read!Stream(c)
               [] c.op = "mlxconv" -> ConvMlx!MlxStream(c)
               [] c.op = "mlxattention" -> ReadMlx!MlxStream(c)
               [] c.op = "mlxdelta" -> RuleMlx!MlxStream(c)
               [] c.op = "mlxloss" -> LossMlx!MlxStream(c)
               [] c.op = "mlxlowrank" -> Thin!MlxStream(c)
               [] c.op = "mlxsample" -> Draw!MlxStream(c)

Allocated(c) == CASE c.op = "delta" -> Delta!Allocated(c)
                  [] c.op = "conv"  -> Conv!Allocated(c)
                  [] c.op = "loss"  -> Loss!Allocated(c)
                  [] c.op = "sample" -> Draw!Allocated(c)
                  [] c.op = "lowrank" -> Thin!Allocated(c)
                  [] c.op = "decode" -> Read!Allocated(c)
                  [] c.op = "mlxconv" -> ConvMlx!MlxAllocated(c)
                  [] c.op = "mlxattention" -> ReadMlx!MlxAllocated(c)
                  [] c.op = "mlxdelta" -> RuleMlx!MlxAllocated(c)
                  [] c.op = "mlxloss" -> LossMlx!MlxAllocated(c)
                  [] c.op = "mlxlowrank" -> Thin!Allocated(c)
                  [] c.op = "mlxsample" -> Draw!MlxAllocated(c)

Cubes(c, launch) == CASE c.op = "delta" -> Delta!Cubes(c, launch)
                      [] c.op = "conv"  -> Conv!Cubes(c, launch)
                      [] c.op = "loss"  -> Loss!Cubes(c, launch)
                      [] c.op = "sample" -> Draw!Cubes(c, launch)
                      [] c.op = "lowrank" -> Thin!Cubes(c, launch)
                      [] c.op = "decode" -> Read!Cubes(c, launch)
                      [] c.op = "mlxconv" -> ConvMlx!MlxCubes(c, launch)
                      [] c.op = "mlxattention" -> ReadMlx!MlxCubes(c, launch)
                      [] c.op = "mlxdelta" -> RuleMlx!MlxCubes(c, launch)
                      [] c.op = "mlxloss" -> LossMlx!MlxCubes(c, launch)
                      [] c.op = "mlxlowrank" -> Thin!MlxCubes(c, launch)
                      [] c.op = "mlxsample" -> Draw!MlxCubes(c, launch)

Effect(c, m, launch, cube) ==
  CASE c.op = "delta" -> Delta!Effect(c, m, launch, cube)
    [] c.op = "conv"  -> Conv!Effect(c, m, launch, cube)
    [] c.op = "loss"  -> Loss!Effect(c, m, launch, cube)
    [] c.op = "sample" -> Draw!Effect(c, m, launch, cube)
    [] c.op = "lowrank" -> Thin!Effect(c, m, launch, cube)
    [] c.op = "decode" -> Read!Effect(c, m, launch, cube)
    [] c.op = "mlxconv" -> ConvMlx!MlxEffect(c, m, launch, cube)
    [] c.op = "mlxattention" -> ReadMlx!MlxEffect(c, m, launch, cube)
    [] c.op = "mlxdelta" -> RuleMlx!MlxEffect(c, m, launch, cube)
    [] c.op = "mlxloss" -> LossMlx!MlxEffect(c, m, launch, cube)
    [] c.op = "mlxlowrank" -> Thin!MlxEffect(c, m, launch, cube)
    [] c.op = "mlxsample" -> Draw!MlxEffect(c, m, launch, cube)

Orders(c, launch) == {Cubes(c, launch), Reverse(Cubes(c, launch))}

Init ==
  /\ call \in Calls
  /\ at = 1
  /\ todo \in Orders(call, Stream(call)[1])
  /\ mem = Allocated(call)

RunCube ==
  /\ todo # <<>>
  /\ mem' = Effect(call, mem, Stream(call)[at], todo[1])
  /\ todo' = Tail(todo)
  /\ UNCHANGED <<call, at>>

NextLaunch ==
  /\ todo = <<>>
  /\ at < Len(Stream(call))
  /\ at' = at + 1
  /\ todo' \in Orders(call, Stream(call)[at + 1])
  /\ UNCHANGED <<call, mem>>

Next == RunCube \/ NextLaunch
Spec == Init /\ [][Next]_vars

-----------------------------------------------------------------------------
Of(op, kind)    == call.op = op /\ call.kind = kind
After(launches) == todo = <<>> /\ at = Len(launches)
Ended           == After(Stream(call))

(* The gated delta rule: whatever the order of the cubes, the forward pass  *)
(* leaves in each row and each final state what the rule gives one token at *)
(* a time, and decoding from those states goes on with the rule.            *)
DeltaForwardExact ==
  /\ (call.op = "delta" /\ Delta!Ordered(call) /\ After(Delta!Forward(call)))
       => Delta!ForwardIs(call, mem)
  /\ (Of("delta", "decode") /\ Ended) => Delta!DecodingIs(call, mem)
  /\ (call.op = "mlxdelta" /\ After(RuleMlx!MlxForward(call))) => RuleMlx!ForwardIs(call, mem)
  /\ (Of("mlxdelta", "decode") /\ Ended) => RuleMlx!DecodingIs(call, mem)

(* The backward pass leaves the rule's derivative in every gradient, though *)
(* it knows nothing of the forward pass but the inputs and what was kept.   *)
DeltaBackwardExact ==
  /\ (Of("delta", "train") /\ Delta!Ordered(call) /\ Ended) => Delta!GradientsAre(call, mem)
  /\ (Of("mlxdelta", "train") /\ Ended) => RuleMlx!GradientsAre(call, mem)

(* The plan's chunks stay inside the tokens and its offsets inside the      *)
(* plan, whatever the boundaries: no later kernel leaves its tensors.  And   *)
(* where the boundaries are in order, each token is in one chunk, one of its *)
(* own sequence's: the most chunks there can be, as max_chunks counts them,  *)
(* are enough.                                                              *)
PlanExact ==
  (call.op = "delta" /\ mem.plan # Garbage) =>
    Delta!PlanIsInside(call, mem) /\ Delta!PlanIsWhole(call, mem)

(* The convolution: outputs and final states are those of each sequence's   *)
(* history, wherever runs and sequences start and end, and decoding from    *)
(* the final states goes on as the sequence with its tokens.                *)
ConvForwardExact ==
  /\ (call.op = "conv" /\ Conv!Ordered(call) /\ After(Conv!Forward(call)))
       => Conv!ForwardIs(call, mem)
  /\ (call.op = "mlxconv" /\ After(ConvMlx!MlxForward(call))) => ConvMlx!ForwardIs(call, mem)
  /\ (call.op \in {"conv", "mlxconv"} /\ call.kind = "decode" /\ Ended) => Conv!DecodingIs(call, mem)

(* Its gradients, by inputs, taps, bias and initial states, are all there,  *)
(* each row computed by some run, and are its derivatives.                  *)
ConvBackwardExact ==
  (call.op \in {"conv", "mlxconv"} /\ call.kind = "train" /\ Conv!Ordered(call) /\ Ended)
    => Conv!GradientsAre(call, mem)

(* Log-probabilities and losses: each row has the log-softmax of all its    *)
(* unmasked logits, however blocks and chunks cut them, and the gradients,  *)
(* whichever pass gives them, are its derivatives.  The one exception is    *)
(* MLX's operations, the reference the tests hold its kernels to, on a      *)
(* vocabulary whose first chunks are masked whole: there the entropies are  *)
(* NaN, with the gradients that use them, but no other result.              *)
LossExact ==
  /\ (call.op = "loss" /\ After(Loss!Forward(call))) => Loss!ForwardIs(call, mem)
  /\ (call.op = "loss" /\ Ended) => Loss!GradientsAre(call, mem)
  /\ (call.op = "mlxloss" /\ After(LossMlx!MlxForward(call))) => LossMlx!MlxForwardIs(call, mem)
  /\ (call.op = "mlxloss" /\ Ended) => LossMlx!MlxGradientsAre(call, mem)

(* Sampling: each row's token and its three log-probabilities are the       *)
(* definition's, by whichever way the cube found what the cuts keep.        *)
SampleExact == (call.op \in {"sample", "mlxsample"} /\ Ended) => Draw!SampleIs(call, mem)

(* The low-rank product and the gradients wanted of it are the definition's *)
(* and its derivatives, in one run or several.                              *)
LowRankExact ==
  /\ (call.op = "lowrank" /\ After(Thin!Forward(call))) => Thin!ProductIs(call, mem)
  /\ (call.op = "mlxlowrank" /\ After(Thin!MlxForward(call))) => Thin!ProductIs(call, mem)
  /\ (call.op \in {"lowrank", "mlxlowrank"} /\ Ended) => Thin!GradientsAre(call, mem)

(* Decoding sees the keys a sequence holds, within its window, each once,   *)
(* however the cache is cut into splits and wherever those end, by the      *)
(* kernels of either backend.                                               *)
DecodeExact ==
  (call.op \in {"decode", "mlxattention"} /\ call.kind = "decode" /\ Ended) => Read!DecodeIs(call, mem)

(* MLX's blocked attention takes every tile some query sees: the outputs    *)
(* and log-sum-exps are the softmax's over all the keys each query sees,    *)
(* the gradients its derivatives, whatever a block cuts.                    *)
BlockedExact ==
  (call.op = "mlxattention" /\ call.kind = "train") =>
    /\ After(ReadMlx!MlxForward(call)) => ReadMlx!AttentionIs(call, mem)
    /\ Ended => ReadMlx!AttentionGradientsAre(call, mem)

(* No thread of the backward kernel reads past a final state's gradient,    *)
(* whatever the boundaries, as the clamping of offset is to ensure.         *)
ConvInsideTensors ==
  (call.op = "conv" /\ call.gfin /\ Stream(call)[at] = "backward_sequences")
    => Conv!FinalRowsInside(call, mem)
=============================================================================
