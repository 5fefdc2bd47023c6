----------------------------- MODULE CubeMemory -----------------------------
(***************************************************************************)
(* The shared memory of one cube: its units run a kernel each at its own    *)
(* pace, meet at barriers, and between two barriers read what other units   *)
(* put in buffers.  A kernel is the sequence of its barriers and of its     *)
(* accesses of shared buffers, in program order; what it computes is in     *)
(* GatedDelta, GatedDeltaTc, DeltaRule, Logprob and Sample.                 *)
(*                                                                          *)
(* A unit's share of a buffer is one slot, which holds the place in the     *)
(* kernel of the put that last wrote it, 0 before any: the memory is not    *)
(* initialised.  A unit that reads only its own share back is left out.     *)
(* Of the rounds of a loop two are kept: more repeat the second.            *)
(***************************************************************************)
EXTENDS Integers, Sequences

CONSTANTS
  CubeUnits,   \* a cube's units, which stand in rows
  COLS         \* the units of a row

RowUnits == 0..(COLS - 1)   \* the first row, which does per-row work: 64 of 256 in the code
Lead     == {0}             \* the unit that works alone

(* What Device assumes of them.                                            *)
CubeAssumption ==
  COLS \in Nat \ {0} /\ CubeUnits \subseteq Nat /\ RowUnits \subseteq CubeUnits

(* The accesses.  A unit of `by` puts its share of the buffers, or gets all *)
(* shares of them, or with a column those of the units in its column.       *)
PutBy(who, bufs)     == <<[do |-> "put", bufs |-> bufs, by |-> who]>>
GetBy(who, bufs)     == <<[do |-> "get", bufs |-> bufs, by |-> who]>>
ColumnBy(who, bufs)  == <<[do |-> "column", bufs |-> bufs, by |-> who]>>
Put(bufs) == PutBy(CubeUnits, bufs)
Get(bufs) == GetBy(CubeUnits, bufs)
Sync      == <<[do |-> "sync"]>>
Twice(body) == body \o body
When(c, p)  == IF c THEN p ELSE <<>>

-----------------------------------------------------------------------------
(* The f32 kernels of the gated delta rule.                                 *)
Plan ==
  Twice(Put({"scan"}) \o Sync
        \o Twice(Get({"scan"}) \o Sync \o Put({"scan"}) \o Sync)
        \o Get({"scan"}) \o Sync)

StateFill == Put({"wt", "ks"}) \o Sync
StateNew  == Get({"wt", "ss"}) \o Put({"vs"}) \o Sync
StatePass == Get({"ks", "vs"}) \o Put({"ss"}) \o Sync
StateForward == Put({"ss"}) \o Twice(StateFill \o StateNew \o StatePass)

BackFill == Put({"xs", "ys", "dos"}) \o Sync
BackNew  == Get({"xs", "dss"}) \o Put({"dvs"}) \o Sync \o Put({"xs"}) \o Sync
BackPass == Get({"dos", "dvs", "xs", "ys"}) \o Put({"dss"}) \o Sync
StateBackward == Put({"dss"}) \o Twice(BackFill \o BackNew \o BackPass)

(* Rows put, their norms found by one unit a row, and scaled.               *)
LoadRows(dst) ==
  Put({dst}) \o Sync \o GetBy(RowUnits, {dst}) \o PutBy(RowUnits, {"norm"}) \o Sync
  \o Get({"norm"}) \o Put({dst}) \o Sync

(* T's inversion: diagonal blocks by column, then block rows; the products  *)
(* of a block row are stashed in the half of am that A leaves free.         *)
DiagonalT == GetBy(RowUnits, {"am", "tm"}) \o PutBy(RowUnits, {"tm_diag"}) \o Sync
BlockRows ==
  Twice(Get({"am", "tm", "tm_diag"}) \o Put({"am_free"}) \o Sync
        \o Get({"am_free", "tm_diag"}) \o Put({"tm_row"}) \o Sync)

PrepA ==
  PutBy(RowUnits, {"gs", "bs"}) \o LoadRows("rows") \o GetBy(Lead, {"gs"}) \o PutBy(Lead, {"gcs"}) \o Sync
  \o Get({"rows", "bs", "gcs"}) \o Put({"am"}) \o Sync \o Put({"tm"}) \o Sync
PrepWU == Get({"tm_row", "tm_diag", "am", "bs", "gcs", "rows"}) \o Sync \o LoadRows("rows")
          \o Get({"tm_row", "tm_diag", "bs", "rows"})
Prep == PrepA \o DiagonalT \o BlockRows \o PrepWU

(* P = Q K^T under the decays.                                              *)
ScoresP == PutBy(RowUnits, {"gs"}) \o LoadRows("qs") \o LoadRows("ks") \o Get({"qs", "ks", "gs"}) \o Put({"pm"})
OutputP == ScoresP \o Sync \o Get({"gs"}) \o Put({"qs"}) \o Sync
Streamed(with) == Twice(Put({"ks"}) \o Sync \o Get({"ks"} \cup with) \o Sync)
OutputSum == Streamed({"qs"}) \o Streamed({"pm"})
Output  == OutputP \o OutputSum
DvLocal == ScoresP \o Get({"qs", "gs"}) \o Sync \o Streamed({"pm"})

Dvb == Put({"tm", "ds"}) \o PutBy(RowUnits, {"bs"}) \o Sync \o Get({"tm", "ds", "bs"}) \o Put({"red"}) \o Sync
       \o GetBy(RowUnits, {"red"})

(* Mutant: the next round's values are put with no barrier after the reads. *)
ByValuesUnsynced(bufs) == Twice(Put(bufs) \o Sync \o Get(bufs))
ByValues(bufs) == Twice(Put(bufs) \o Sync \o Get(bufs) \o Sync)
Blocks == {"so", "sv", "sd", "ss", "sz"}
DState == ByValues(Blocks) \o Put({"red"}) \o Sync \o GetBy(Lead, {"red"})

DAttnScores == PutBy(RowUnits, {"gs"}) \o ByValues({"r4"}) \o Put({"dpm"}) \o LoadRows("qs") \o LoadRows("ks")
DAttnSums == Get({"qs", "ks", "gs"}) \o Put({"dpm", "r4"}) \o Sync \o GetBy(RowUnits, {"r4"})
             \o Get({"dpm", "ks", "qs"})
DAttn == DAttnScores \o DAttnSums

RowsProduct == ByValues({"blk"})
DWyA == PutBy(RowUnits, {"bs"}) \o RowsProduct \o RowsProduct \o Put({"mam", "dam"}) \o LoadRows("ks")
DWySums == GetBy(RowUnits, {"mam"}) \o Get({"bs", "dam", "ks"}) \o Put({"red"}) \o Sync \o GetBy(RowUnits, {"red"})
DWy == DWyA \o DWySums

CombineSums ==
  Put({"rg", "rl", "rb"}) \o Sync \o GetBy(Lead, {"rl", "rg"}) \o PutBy(Lead, {"dg"}) \o Sync
  \o GetBy(RowUnits, {"dg", "rb"})

-----------------------------------------------------------------------------
(* The recurrent step, a token a round.                                     *)
StepNorms == Put({"squares"}) \o Sync \o ColumnBy(RowUnits, {"squares"}) \o PutBy(RowUnits, {"squares"}) \o Sync
             \o Get({"squares"})
StepParts == Put({"kv_parts"}) \o Sync \o Get({"kv_parts"}) \o Put({"out_parts"}) \o Sync
             \o GetBy(RowUnits, {"out_parts"})
Step(norm) ==
  Twice(Sync \o Put({"q", "k"}) \o (IF norm THEN StepNorms ELSE Sync) \o Get({"q", "k"}) \o StepParts)

-----------------------------------------------------------------------------
(* The wide kernels, which stage the keys' columns a half at a time.        *)
RowScales(norm, scratch) ==
  (IF norm THEN Put({scratch}) \o Sync \o GetBy(RowUnits, {scratch}) ELSE <<>>)
  \o PutBy(RowUnits, {"norms"}) \o Sync
LoadCols(dst) == Get({"norms"}) \o Put({dst}) \o Sync
StageColumns  == Put({"st"}) \o Sync
WideScores    == Twice(LoadCols("qs") \o LoadCols("ks") \o Get({"gs", "qs", "ks"}) \o Sync)

(* The two halves of the state are buffers of their own.                    *)
WideNew(s) == Put({"st"}) \o Sync \o Get({"st"} \cup s) \o Sync
StateForwardWideNew == WideNew({"ss0"}) \o WideNew({"ss1"}) \o Put({"vs"})
StateForwardWidePass ==
  StageColumns \o Get({"vs", "st"}) \o Put({"ss0"}) \o Sync
  \o StageColumns \o Get({"vs", "st"}) \o Put({"ss1"}) \o Sync
StateForwardWide == Put({"ss0", "ss1"}) \o Sync \o Twice(StateForwardWideNew \o StateForwardWidePass)

StateBackwardWideNew ==
  Put({"dos"}) \o WideNew({"dss0"}) \o WideNew({"dss1"}) \o Put({"dvs"})
StateBackwardWideHalf(dss) ==
  StageColumns \o Get({"dos", "st"}) \o Sync \o StageColumns \o Get({"dvs", "st"}) \o Sync \o Put({dss})
StateBackwardWidePass == StateBackwardWideHalf("dss0") \o StateBackwardWideHalf("dss1") \o Sync
StateBackwardWide ==
  Put({"dss0", "dss1"}) \o Sync \o Twice(StateBackwardWideNew \o StateBackwardWidePass)

ScoresWide(norm) ==
  PutBy(RowUnits, {"gs"}) \o RowScales(norm, "pm") \o RowScales(norm, "pm") \o WideScores \o Get({"gs"})
  \o Put({"pm"}) \o Sync
OutputWideSum == Twice(LoadCols("qs") \o Streamed({"qs", "gs"})) \o Streamed({"pm"})
OutputWide(norm)  == ScoresWide(norm) \o OutputWideSum
DvLocalWide(norm) == ScoresWide(norm) \o Streamed({"pm"})
DStateWide == Twice(ByValues(Blocks)) \o Put({"red"}) \o Sync \o GetBy(Lead, {"red"})

DAttnWideScores(norm) ==
  PutBy(RowUnits, {"gs"}) \o ByValues({"qs"}) \o Put({"dpm"})
  \o RowScales(norm, "ks") \o RowScales(norm, "ks") \o WideScores
DAttnWideSums ==
  Get({"gs"}) \o Put({"qs", "dpm"}) \o Sync \o GetBy(RowUnits, {"qs"}) \o Sync
  \o Twice(LoadCols("qs") \o LoadCols("ks") \o Get({"dpm", "ks", "qs"}) \o Sync)
DAttnWide(norm) == DAttnWideScores(norm) \o DAttnWideSums

DWyWideA(norm) ==
  PutBy(RowUnits, {"bs"}) \o RowsProduct \o RowsProduct \o Put({"mam", "dam"}) \o RowScales(norm, "blk")
DWyWideSums ==
  GetBy(RowUnits, {"mam"}) \o Twice(LoadCols("ks") \o Get({"bs", "dam", "ks"}) \o Sync)
  \o Put({"red"}) \o Sync \o GetBy(RowUnits, {"red"})
DWyWide(norm) == DWyWideA(norm) \o DWyWideSums

-----------------------------------------------------------------------------
(* The tensor-core kernels.  G: the gates summed by warps of a scan, then   *)
(* the first warp's total added to the second's.                            *)
TcGates ==
  GetBy(RowUnits, {"gs"}) \o PutBy(RowUnits, {"fs"}) \o Sync \o GetBy(RowUnits, {"fs"}) \o PutBy(RowUnits, {"gs"})

TcPrepStage == PutBy(RowUnits, {"gs", "bs"}) \o Put({"s_k"}) \o Sync
TcPrepA ==
  TcGates \o Get({"s_k"}) \o Sync \o PutBy(RowUnits, {"fs"}) \o Get({"s_k", "bs", "gs"}) \o Put({"am"})
  \o Put({"tm"}) \o Sync
TcPrepDiagonal ==
  GetBy(RowUnits, {"am", "tm"}) \o PutBy(RowUnits, {"tm_diag"}) \o Get({"s_k", "fs"}) \o Put({"s_x"}) \o Sync
TcPrepT == Get({"tm_row", "tm_diag"}) \o Put({"s_t"}) \o Sync
TcPrepWU == Get({"s_t", "s_x"}) \o Sync \o Get({"bs"}) \o Put({"s_x"}) \o Sync \o Get({"s_t", "s_x"})
TcPrep == TcPrepStage \o TcPrepA \o TcPrepDiagonal \o BlockRows \o TcPrepT \o TcPrepWU

TcWuGates ==
  PutBy(RowUnits, {"gs", "bs"}) \o Put({"s_k", "s_t"}) \o Sync \o TcGates \o Get({"s_k"}) \o Sync
  \o GetBy(RowUnits, {"bs", "gs"}) \o PutBy(RowUnits, {"fs"}) \o Sync \o Get({"s_k", "fs"}) \o Put({"s_x"}) \o Sync
TcWu == TcWuGates \o TcPrepWU

TcForwardNew  == Put({"s_s"}) \o Sync \o Get({"s_w", "s_s"}) \o Put({"s_v"}) \o Sync
TcForwardPass == Get({"s_k", "s_v"}) \o Sync \o Put({"s_w", "s_k"})
TcStateForward == Put({"s_w", "s_k"}) \o Twice(TcForwardNew \o TcForwardPass)

TcOutputP == PutBy(RowUnits, {"gs"}) \o Put({"s_q", "s_k"}) \o Sync \o Get({"s_q", "s_k", "gs"})
TcOutputSum == Put({"s_s", "s_v"}) \o Sync \o Get({"s_q", "s_s", "s_v"})
TcOutput == TcOutputP \o TcOutputSum

TcDvLocalP == PutBy(RowUnits, {"gs"}) \o Put({"s_x", "s_k"}) \o Sync \o Get({"s_k", "s_x", "gs"}) \o Sync
TcDvLocal == TcDvLocalP \o Put({"s_x"}) \o Sync \o Get({"s_x"})

TcBackwardNew ==
  Put({"s_g", "s_f", "s_s", "s_o"}) \o Sync \o Get({"s_x", "s_s"}) \o Put({"s_v"}) \o Sync
TcBackwardPass ==
  Get({"s_f", "s_g"}) \o Put({"s_x"}) \o Sync \o Get({"s_x", "s_o", "s_w", "s_v"}) \o Sync
  \o Put({"s_x", "s_w"})
TcStateBackward == Put({"s_x", "s_w"}) \o Twice(TcBackwardNew \o TcBackwardPass)

(* A total per row over the two warps that share it.                        *)
RowTotals3(outs) == Put({"red_c"}) \o Sync \o GetBy(RowUnits, {"red_c"}) \o PutBy(RowUnits, outs) \o Sync
RowTotals(out)   == Put({"red"}) \o Sync \o GetBy(RowUnits, {"red"}) \o PutBy(RowUnits, {out}) \o Sync
RowMinusCol(out) == Put({"red", "red_c"}) \o Sync \o GetBy(RowUnits, {"red", "red_c"}) \o PutBy(RowUnits, {out}) \o Sync

TcDqkValues ==
  PutBy(RowUnits, {"gs", "bs"}) \o Put({"tt", "t1"}) \o Sync \o Get({"tt", "t1"}) \o Put({"t2"}) \o Get({"bs"})
  \o RowTotals("s_bv")
TcDqkBlocks ==
  Twice(Put({"t3", "t4", "t1", "t5"}) \o Sync \o Get({"t1", "t5", "t3", "t4", "t2"}) \o Sync)
TcDqkSums ==
  Put({"t1", "t5", "inv"}) \o Sync \o Get({"t5", "t1", "gs", "bs"}) \o RowTotals3({"s_bg", "s_kt", "s_qg"})
TcDqkScores ==
  Get({"t1", "t5", "gs"}) \o Put({"tt"}) \o RowMinusCol("s_dp")
TcDqkQueries(norm) ==
  Get({"tt", "t5", "t1"}) \o When(norm, RowTotals("s_pq") \o Get({"s_pq", "inv"}))
TcDqkTail == GetBy(RowUnits, {"gs", "bs"}) \o Put({"red"}) \o Sync \o GetBy(Lead, {"red"})
TcDqk(norm) == TcDqkValues \o TcDqkBlocks \o TcDqkSums \o TcDqkScores \o TcDqkQueries(norm) \o TcDqkTail

TcWyProducts ==
  PutBy(RowUnits, {"gs", "bs"}) \o Twice(ByValues({"s_a", "s_b"}))
TcWyScores ==
  Put({"s_k", "inv"}) \o Sync \o Get({"s_k", "bs"}) \o Put({"s_kb"}) \o Get({"gs", "bs"})
  \o Put({"tt"}) \o RowTotals("s_ba") \o RowMinusCol("s_da")
TcWyKeys(norm) ==
  Get({"tt", "s_k", "s_kb", "bs"}) \o When(norm, RowTotals("s_pk") \o Get({"s_pk", "inv", "s_k"}))
TcWyGates == PutBy(RowUnits, {"rg"}) \o Sync \o GetBy(RowUnits, {"rg"})
TcWy(norm) == TcWyProducts \o TcWyScores \o TcWyKeys(norm) \o TcWyGates

-----------------------------------------------------------------------------
(* The reductions of the log-probabilities' cubes and of the sampling's.    *)
CubeMax == Put({"scratch0"}) \o Sync \o Get({"scratch0"}) \o Sync
CubeSum(slot) == Put({slot}) \o Sync \o Get({slot})
ChunkRow == CubeMax \o CubeSum("scratch0") \o CubeSum("scratch1") \o CubeSum("scratch2")

Uniform(buf) == Sync \o Get({buf}) \o Sync      \* workgroup_uniform_load
SumOver(slot) == Put({slot}) \o Sync \o GetBy(Lead, {slot}) \o PutBy(Lead, {"out"}) \o Uniform("out")
ArgMax   == SumOver("red4")
SumFirst == SumOver("red0")
GatherAbove == PutBy(Lead, {"count"}) \o Sync \o Put({"keys", "ids"})
BandCut ==
  Put({"keys", "wts"}) \o Sync \o GetBy(Lead, {"keys", "wts"}) \o PutBy(Lead, {"out"})
  \o Uniform("out") \o Uniform("out")
Weigh == Get({"keys"}) \o Put({"wts"}) \o Sync
ScanSums == Sync \o Get({"wts"}) \o Put({"red5"}) \o Sync \o Get({"red5"}) \o Put({"runs"}) \o Sync
FirstReaching == Get({"runs"}) \o SumOver("red6")
Candidates ==
  SumFirst \o GatherAbove \o Sync \o BandCut \o GatherAbove \o Sync \o Weigh \o ScanSums
  \o FirstReaching \o Uniform("keys") \o Get({"keys"}) \o SumOver("red7") \o Get({"ids", "keys"}) \o ArgMax
RadixPass ==
  Put({"red0"}) \o Sync \o GetBy(Lead, {"red0"}) \o PutBy(Lead, {"out"}) \o Uniform("out") \o Uniform("out")
Refinement == Twice(RadixPass) \o GatherAbove \o Sync \o Weigh \o ScanSums \o FirstReaching \o Uniform("keys")
              \o SumFirst \o ArgMax

-----------------------------------------------------------------------------
(* The low-rank product's slices, and the slots of a decoding split.        *)
Down == Twice(Sync \o Put({"slice"}) \o Sync \o Get({"slice"}))
DecodeSplit == PutBy(RowUnits, {"s_max", "s_sum"}) \o Put({"s_acc"}) \o Sync \o Get({"s_max", "s_sum", "s_acc"})

-----------------------------------------------------------------------------
(* MLX's kernels.  A slice of the state is multiplied by simdgroups, a tile *)
(* each, and aged by threads, an element each: S and Ub the tiles, Se and   *)
(* Ue the elements of the same memory.                                      *)
Substitution == Put({"lower"}) \o Sync \o Get({"lower"})

ScanTiles    == Get({"S"}) \o Put({"Ub", "Ue"}) \o Sync
ScanElements == Get({"Ub"}) \o Put({"Ue", "Se", "S"}) \o Sync
ScanPass     == ScanTiles \o ScanElements \o Get({"Se", "Ue"}) \o Put({"S"}) \o Sync
MlxScan      == Put({"S"}) \o Sync \o Twice(ScanPass) \o Get({"S"})

(* The parts of the products by simdgroup, of both sums of a token.         *)
MlxStepSum(units) == Get({"q", "k"}) \o Put({"parts"}) \o Sync \o GetBy(units, {"parts"})
MlxStep ==
  Twice(Sync \o Put({"q", "k"}) \o Sync \o MlxStepSum(CubeUnits) \o Sync \o MlxStepSum(RowUnits))

(* What simdgroups found of a row of logits, or of a decoding split.        *)
RowState   == PutBy(RowUnits, {"gm", "gs", "ga", "gr", "gz"}) \o Sync \o GetBy(Lead, {"gm", "gs", "ga", "gr", "gz"})
RowWeights == PutBy(RowUnits, {"gsum"}) \o Sync \o GetBy(Lead, {"gsum"})
MlxDecode  == PutBy(RowUnits, {"tm", "ts"}) \o Put({"to"}) \o Sync \o Get({"tm", "ts", "to"})

-----------------------------------------------------------------------------
Programs ==
  { [name |-> "plan", program |-> Plan], [name |-> "state_forward", program |-> StateForward],
    [name |-> "state_backward", program |-> StateBackward], [name |-> "prep", program |-> Prep],
    [name |-> "output", program |-> Output], [name |-> "dvlocal", program |-> DvLocal],
    [name |-> "dvb", program |-> Dvb], [name |-> "dstate", program |-> DState],
    [name |-> "dattn", program |-> DAttn], [name |-> "dwy", program |-> DWy],
    [name |-> "combine", program |-> CombineSums],
    [name |-> "state_forward_wide", program |-> StateForwardWide],
    [name |-> "state_backward_wide", program |-> StateBackwardWide],
    [name |-> "dstate_wide", program |-> DStateWide],
    [name |-> "tc_prep", program |-> TcPrep], [name |-> "tc_wu", program |-> TcWu],
    [name |-> "tc_state_forward", program |-> TcStateForward], [name |-> "tc_output", program |-> TcOutput],
    [name |-> "tc_dvlocal", program |-> TcDvLocal], [name |-> "tc_state_backward", program |-> TcStateBackward],
    [name |-> "chunk", program |-> ChunkRow], [name |-> "candidates", program |-> Candidates],
    [name |-> "refinement", program |-> Refinement],
    [name |-> "down", program |-> Down], [name |-> "decode_split", program |-> DecodeSplit],
    [name |-> "mlx_substitution", program |-> Substitution], [name |-> "mlx_scan", program |-> MlxScan],
    [name |-> "mlx_step", program |-> MlxStep], [name |-> "mlx_row_state", program |-> RowState],
    [name |-> "mlx_row_weights", program |-> RowWeights], [name |-> "mlx_decode", program |-> MlxDecode] }
  \cup UNION {
    { [name |-> "step", program |-> Step(norm)], [name |-> "output_wide", program |-> OutputWide(norm)],
      [name |-> "dvlocal_wide", program |-> DvLocalWide(norm)], [name |-> "dattn_wide", program |-> DAttnWide(norm)],
      [name |-> "dwy_wide", program |-> DWyWide(norm)], [name |-> "tc_dqk", program |-> TcDqk(norm)],
      [name |-> "tc_wy", program |-> TcWy(norm)] } : norm \in BOOLEAN }

-----------------------------------------------------------------------------
VARIABLES
  kernel,   \* the kernel the cube runs
  pc,       \* each unit's place in its program
  slots     \* slots[buf][u]: the put that last wrote u's share of buf

cubeVars == <<kernel, pc, slots>>

Program == kernel.program
Buffers(p) == UNION {IF p[i].do = "sync" THEN {} ELSE p[i].bufs : i \in DOMAIN p}
At(u) == pc[u] <= Len(Program)
Does(u, what) == At(u) /\ Program[pc[u]].do = what

CubeInit ==
  /\ kernel \in Programs
  /\ pc = [u \in CubeUnits |-> 1]
  /\ slots = [buf \in Buffers(kernel.program) |-> [u \in CubeUnits |-> 0]]

Advance(u) == pc' = [pc EXCEPT ![u] = @ + 1]

PutShare(u) ==
  /\ Does(u, "put")
  /\ LET s == Program[pc[u]]
     IN  slots' = [buf \in DOMAIN slots |->
                     IF buf \in s.bufs /\ u \in s.by THEN [slots[buf] EXCEPT ![u] = pc[u]] ELSE slots[buf]]
  /\ Advance(u)
  /\ UNCHANGED kernel

GetShares(u) ==
  /\ Does(u, "get") \/ Does(u, "column")
  /\ Advance(u)
  /\ UNCHANGED <<kernel, slots>>

(* All units leave a barrier together, once all have come to it.            *)
Barrier ==
  /\ \A u \in CubeUnits : Does(u, "sync")
  /\ pc' = [u \in CubeUnits |-> pc[u] + 1]
  /\ UNCHANGED <<kernel, slots>>

CubeNext == Barrier \/ \E u \in CubeUnits : PutShare(u) \/ GetShares(u)
CubeSpec == CubeInit /\ [][CubeNext]_cubeVars

-----------------------------------------------------------------------------
(* The put of a buffer by v that a read at place i of the program is of.    *)
Latest(i, buf, v) ==
  LET puts == {j \in 1..(i - 1) : Program[j].do = "put" /\ buf \in Program[j].bufs /\ v \in Program[j].by}
  IN  IF puts = {} THEN 0 ELSE CHOOSE j \in puts : \A k \in puts : k <= j

Shares(u) ==
  LET s == Program[pc[u]]
  IN  IF u \notin s.by THEN {} ELSE IF s.do = "get" THEN CubeUnits ELSE {v \in CubeUnits : v % COLS = u % COLS}

(* A unit that reads shares finds in each what the kernel's text says was   *)
(* last put there: no unit is still to put it, none has put the next round's *)
(* over it, and some unit has.                                              *)
ReadsExact ==
  \A u \in CubeUnits :
    (Does(u, "get") \/ Does(u, "column")) =>
      \A buf \in Program[pc[u]].bufs :
        /\ \A v \in Shares(u) : slots[buf][v] = Latest(pc[u], buf, v)
        /\ \E v \in CubeUnits : Latest(pc[u], buf, v) # 0
=============================================================================
