---------------------------- MODULE MCDevice ----------------------------
(* Calls of each operation, small enough for TLC and large enough for a     *)
(* sequence to take several chunks or runs, to start inside one, to be      *)
(* shorter than a window and to be empty.                                   *)
EXTENDS Device

DeltaTrain(path, keep, b, t, cu, norm) ==
  [op |-> "delta", kind |-> "train", path |-> path, keep |-> keep, b |-> b, t |-> t, cu |-> cu,
   norm |-> norm, scale |-> 5, step |-> <<>>]
DeltaDecode(path, b, t, cu, step) ==
  [op |-> "delta", kind |-> "decode", path |-> path, keep |-> FALSE, b |-> b, t |-> t, cu |-> cu,
   norm |-> TRUE, scale |-> 5, step |-> step]

DeltaSome ==
  { DeltaTrain("f32", FALSE, 2, 8, <<>>, TRUE), DeltaTrain("tc", TRUE, 1, 8, <<>>, TRUE),
    DeltaTrain("tc", FALSE, 1, 8, <<>>, FALSE),
    DeltaTrain("f32", FALSE, 1, 9, <<0, 0, 8, 8, 9>>, FALSE),
    DeltaTrain("tc", TRUE, 1, 9, <<0, 0, 8, 8, 9>>, TRUE),
    DeltaDecode("f32", 1, 3, <<0, 2, 3>>, [t |-> 2, cu |-> <<0, 2, 2>>]),
    DeltaDecode("tc", 2, 3, <<>>, [t |-> 2, cu |-> <<>>]),
    DeltaTrain("reference", FALSE, 2, 8, <<>>, TRUE),
    DeltaTrain("reference", FALSE, 1, 13, <<0, 0, 12, 12, 13>>, FALSE),
    DeltaDecode("reference", 1, 3, <<0, 2, 3>>, [t |-> 2, cu |-> <<0, 2, 2>>]),
    DeltaDecode("reference", 2, 3, <<>>, [t |-> 2, cu |-> <<>>]),
    DeltaTrain("f32", FALSE, 1, 12, <<0, 7, 3, 12>>, FALSE), DeltaTrain("tc", TRUE, 1, 13, <<0, 13, 0, 13>>, FALSE) }

(* kind, b, t, cu, initial rows, final rows asked for, its gradient given,  *)
(* bias, activation, whether the device takes the kernels, decoding steps.  *)
ConvCall(kind, b, t, cu, w, fin, gfin, bias, act, device, tokens) ==
  [op |-> "conv", kind |-> kind, b |-> b, t |-> t, cu |-> cu, w |-> w, fin |-> fin, gfin |-> gfin,
   bias |-> bias, act |-> act, device |-> device, tokens |-> tokens]
ConvTrain(b, t, cu, w, fin, gfin, bias, act, device) ==
  ConvCall("train", b, t, cu, w, fin, gfin, bias, act, device, 0)

ConvSome ==
  { ConvTrain(2, 9, <<>>, 0, <<>>, FALSE, TRUE, TRUE, TRUE),
    ConvTrain(1, 4, <<>>, 0, <<5>>, TRUE, FALSE, FALSE, TRUE),
    ConvTrain(2, 5, <<>>, 4, <<5>>, TRUE, TRUE, TRUE, TRUE),
    ConvTrain(1, 10, <<0, 0, 1, 3, 4, 4, 5, 10, 10>>, 4, <<4>>, TRUE, TRUE, TRUE, TRUE),
    ConvTrain(1, 10, <<0, 3, 5, 8, 8, 10>>, 2, <<2>>, FALSE, TRUE, TRUE, TRUE),
    ConvTrain(1, 9, <<0, 7, 9>>, 0, <<>>, FALSE, FALSE, TRUE, TRUE),
    ConvTrain(1, 7, <<0, 1, 1, 4, 7>>, 4, <<5>>, TRUE, TRUE, TRUE, FALSE),
    ConvTrain(2, 0, <<>>, 3, <<2>>, TRUE, TRUE, TRUE, TRUE) }
  \cup { ConvCall("decode", 1, 3, <<0, 0, 1, 3>>, 3, <<3>>, FALSE, TRUE, TRUE, d, 4) : d \in BOOLEAN }

LossCall(kind, chunk, rowchunk, targets, eps, lambda, want, device, split, stackrows) ==
  [op |-> "loss", kind |-> kind, n |-> Len(targets), d |-> 2, v |-> 6, chunk |-> chunk,
   rowchunk |-> rowchunk, masked |-> {2, 3}, targets |-> targets, eps |-> eps, lambda |-> lambda,
   wanth |-> want[1], wantw |-> want[2], wantent |-> want[3], ignore |-> -7, device |-> device,
   split |-> split, stackrows |-> stackrows]
LossSome ==
  { LossCall("chosen", <<2, 2, 0>>, 2, <<0, 3, 9>>, 0, 0, <<TRUE, FALSE, FALSE>>, <<d, d>>, d, 2)
      : d \in BOOLEAN }
  \cup { LossCall("loss", <<2, 3, 2>>, 2, <<5, -7, 1>>, e, 11, <<TRUE, FALSE, FALSE>>, <<d, d>>, d, 8)
      : d \in BOOLEAN, e \in {0, 3} }
  \cup { LossCall("loss", <<2, 4, 2>>, 2, <<5, -7, 3>>, 3, 11, want, <<d, d>>, FALSE, 0)
      : d \in BOOLEAN, want \in {<<TRUE, TRUE, TRUE>>, <<FALSE, TRUE, FALSE>>, <<TRUE, FALSE, TRUE>>} }
  \cup { LossCall("loss", <<6, 6, 0>>, 8, <<4, 2>>, 1, 0, <<TRUE, TRUE, FALSE>>, <<TRUE, FALSE>>, FALSE, 0) }

(* Sampling.  Sixteen tokens a row, or eight.                               *)
DrawCall(n, units, capacity, masked, k, p, tau, z, gumbel, device) ==
  [op |-> "sample", v |-> Len(z[1]), n |-> n, units |-> units, capacity |-> capacity, masked |-> masked,
   k |-> k, p |-> p, tau |-> tau, z |-> z, gumbel |-> gumbel, device |-> device]

Inf == -1000
NoRow == [x \in 1..16 |-> Inf]
RowA == <<3, 6, 6, 1, 10, 0, 5, 6, 2, 7, Inf, 4, 8, 3, 9, 6>>
RowB == <<5, 5, 6, 5, 5, 7, 5, 5, 6, 5, 5, 5, 6, 5, 5, 5>>
RowC == <<Inf, 9, Inf, 9, 8, 9, Inf, 9, 7, 9, 9, 9, 10, 9, 8, 9>>
RowD == <<0, 10, 0, Inf, 2, 0, 0, Inf, 3, 0, 2, 0, Inf, 0, 0, Inf>>
RowE == <<6, 7, 6, Inf, 10, Inf, 7, 6, Inf, 6, Inf, 7, 6, Inf, 6, Inf>>
Logits == <<RowA, RowB, RowC, RowD, RowE, NoRow>>
NoiseA == <<1, 0, 3, 5, -1, 2, 0, 4, 1, 2, 5, 0, 1, 3, -2, 2>>
NoiseB == <<2, 5, -1, 0, 4, 1, 3, 0, 2, 5, 1, -1, 3, 0, 5, 1>>
Noise == <<NoiseA, NoiseB, NoiseB, NoiseA, NoiseB, NoiseA>>

Cuts == { <<0, <<1, 1>>>>, <<2, <<1, 1>>>>, <<6, <<1, 1>>>>, <<0, <<0, 1>>>>, <<0, <<3, 4>>>>, <<0, <<9, 10>>>>,
          <<0, <<99, 100>>>>, <<6, <<3, 4>>>>, <<12, <<9, 10>>>>, <<2, <<99, 100>>>> }
SampleSome ==
  { DrawCall(4, 2, on[1], on[2], cut[1], cut[2], tau, Logits, Noise, on[3])
      : on \in {<<5, {}, TRUE>>, <<2, {0, 4, 9}, TRUE>>, <<2, {0, 4, 9}, FALSE>>}, cut \in Cuts, tau \in {1, 2} }
  \cup { DrawCall(2, 4, 4, {1}, cut[1], cut[2], 1, Logits, Noise, TRUE) : cut \in Cuts }
  \cup { DrawCall(4, 2, 5, {2, 4}, 3, <<1, 2>>, 0, Logits, Noise, device) : device \in BOOLEAN }

(* Low-rank products: sums in one run or several, ranks that divide the     *)
(* lanes and ranks that do not, rows and runs cut short.                    *)
LowCall(rows, inp, rank, out, fill, gfill, base, x, u, v, device) ==
  [op |-> "lowrank", rows |-> rows, inp |-> inp, rank |-> rank, out |-> out, base |-> base, scale |-> 3,
   wanted |-> [w \in {"x", "u", "v"} |-> IF w = "x" THEN x ELSE IF w = "u" THEN u ELSE v],
   device |-> device, cube |-> 4, lanes |-> 2, glanes |-> 2, tile |-> 4, width |-> 2, minrun |-> 3,
   gminrun |-> 2, uprows |-> 2, fill |-> fill, gfill |-> gfill]
LowSome ==
  { LowCall(5, 6, 3, 4, fill, 4 * fill, base, TRUE, TRUE, TRUE, TRUE) : fill \in {1, 6}, base \in BOOLEAN }
  \cup { LowCall(5, 10, 1, 2, 6, 20, FALSE, FALSE, TRUE, v, TRUE) : v \in BOOLEAN }
  \cup { LowCall(3, 4, 2, 6, 1, 1, TRUE, x, FALSE, TRUE, d) : x \in BOOLEAN, d \in BOOLEAN }

(* Decoding: sequences, keys, heads, cubes aimed at, window, lengths.       *)
DecodeCall(b, s, cubes, left, lengths, device) ==
  [op |-> "decode", kind |-> "decode", b |-> b, s |-> s, hq |-> 4, hkv |-> 2, slots |-> 2, cubes |-> cubes, left |-> left,
   lengths |-> lengths, device |-> device]
DecodeSome ==
  { DecodeCall(2, 7, 12, left, lengths, d) :
      left \in {0, 2, 6, 100}, lengths \in {<<>>, <<7, 0>>, <<3, 6>>}, d \in BOOLEAN }
  \cup { DecodeCall(2, 5, cubes, 3, <<9, -2>>, TRUE) : cubes \in {2, 100} }

(* On MLX: the same convolutions, as far as their boundaries are in order,  *)
(* and the same decodings; and blocked attention: batch, queries, keys,     *)
(* window, keys left out, offsets, the log-sum-exp's gradient.              *)
ConvMlxSome ==
  {[c EXCEPT !.op = "mlxconv"] : c \in {c \in ConvSome : c.device}}
BlockedCall(b, tq, tk, left, right, padded, cq, ck, dlse) ==
  [op |-> "mlxattention", kind |-> "train", b |-> b, tq |-> tq, tk |-> tk, hq |-> 2, hkv |-> 1,
   block |-> 2, left |-> left, right |-> right, padded |-> padded, cq |-> cq, ck |-> ck, dlse |-> dlse]
BlockedSome ==
  { BlockedCall(1, 5, 6, left, right, <<>>, <<>>, <<>>, TRUE) :
      left \in {<<>>, <<1>>}, right \in {<<>>, <<0>>, <<1>>} }
  \cup { BlockedCall(1, 5, 3, <<2>>, <<0>>, <<>>, <<>>, <<>>, TRUE),
         BlockedCall(2, 2, 5, <<>>, <<0>>, <<{0, 4}, {0, 1, 2, 3, 4}>>, <<>>, <<>>, TRUE),
         BlockedCall(1, 6, 7, <<1>>, <<0>>, <<>>, <<0, 1, 1, 4, 5>>, <<0, 3, 4, 6, 6>>, FALSE) }
ReadMlxSome == {[c EXCEPT !.op = "mlxattention"] : c \in DecodeSome}

(* The gated delta rule on MLX, in chunks of 4.                             *)
MlxTrain(path, b, t, cu, norm)  == [DeltaTrain(path, FALSE, b, t, cu, norm) EXCEPT !.op = "mlxdelta"]
MlxDecodeCall(path, b, t, cu, step) == [DeltaDecode(path, b, t, cu, step) EXCEPT !.op = "mlxdelta"]
DeltaMlxSome ==
  { MlxTrain("kernels", 1, 7, <<0, 0, 6, 6, 7>>, TRUE), MlxTrain("operations", 1, 6, <<>>, FALSE),
    MlxTrain("inverse", 1, 2, <<>>, FALSE), MlxTrain("scan", 2, 3, <<>>, TRUE),
    MlxDecodeCall("kernels", 1, 3, <<0, 2, 3>>, [t |-> 2, cu |-> <<0, 2, 2>>]),
    MlxDecodeCall("kernels", 2, 1, <<>>, [t |-> 2, cu |-> <<>>]),
    MlxDecodeCall("operations", 1, 3, <<>>, [t |-> 2, cu |-> <<0, 2>>]) }

(* Losses, in chunks of one size: some wholly masked, the first ones too,   *)
(* ids masked one by one; targets ignored, masked and out of range.         *)
LossMlxCall(kind, chunk, rowchunk, targets, eps, lambda, ent, kernels) ==
  [LossCall(kind, <<chunk, chunk, 0>>, rowchunk, targets, eps, lambda, <<TRUE, kind = "loss", ent>>,
            <<kernels, kernels>>, FALSE, 0) EXCEPT !.op = "mlxloss"]
LossMlxSome ==
  UNION { { LossMlxCall("chosen", 2, 2, <<0, 3, 9>>, 0, 0, FALSE, d),
            LossMlxCall("chosen", 6, 8, <<5, -7>>, 0, 0, FALSE, d),
            LossMlxCall("loss", 5, 2, <<5, -7, 1>>, 3, 11, TRUE, d),
            LossMlxCall("loss", 2, 3, <<4, 3, 1>>, 0, 0, TRUE, d),
            LossMlxCall("loss", 4, 1, <<4, 9>>, 1, 5, FALSE, d) } : d \in BOOLEAN }
  \cup UNION { { [LossMlxCall("chosen", 2, 2, <<4, 0>>, 0, 0, FALSE, d) EXCEPT !.masked = {0, 1}],
                 [LossMlxCall("loss", 1, 1, <<5, -7>>, 3, 11, TRUE, d) EXCEPT !.masked = {0, 1}],
                 [LossMlxCall("loss", 1, 2, <<5, 0>>, 0, 0, TRUE, d) EXCEPT !.masked = {0, 3}],
                 [LossMlxCall("loss", 2, 2, <<9, 3>>, 1, 5, FALSE, d) EXCEPT !.masked = {0, 1, 2}] } : d \in BOOLEAN }

(* Samples of 14 tokens, not whole groups of four.                          *)
DrawMlxSome ==
  { [DrawCall(2, 1, 2, masked, cut[1], cut[2], tau, [r \in 1..6 |-> SubSeq(Logits[r], 1, 14)],
              [r \in 1..6 |-> SubSeq(Noise[r], 1, 14)], TRUE) EXCEPT !.op = "mlxsample"]
      : masked \in {{}, {0, 4, 9}}, cut \in Cuts, tau \in {1, 2} }
  \cup { [DrawCall(4, 2, 5, {2, 4}, 3, <<1, 2>>, 0, Logits, Noise, TRUE) EXCEPT !.op = "mlxsample"] }

LowMlxSome ==
  { [LowCall(5, 6, 3, 4, 1, 1, base, TRUE, TRUE, TRUE, TRUE) EXCEPT !.op = "mlxlowrank"] : base \in BOOLEAN }

MCCalls == DrawMlxSome \cup LowMlxSome \cup LossMlxSome \cup DeltaMlxSome \cup ConvMlxSome \cup BlockedSome \cup ReadMlxSome
  \cup DeltaSome \cup ConvSome \cup LossSome \cup SampleSome \cup LowSome \cup DecodeSome

(* Boundaries that end before the tokens do.                                *)
MCMalformed == { ConvTrain(1, 6, <<0, 4>>, 0, <<2>>, TRUE, TRUE, TRUE, TRUE) }
=============================================================================
