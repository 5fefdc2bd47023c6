---------------------------- MODULE AttentionMlx ----------------------------
(***************************************************************************)
(* Attention on MLX (dash-mlx attention.rs): the two blocked passes, tile   *)
(* by tile, and decoding in splits.                                         *)
(*                                                                          *)
(* The forward pass takes, for a block of queries, the blocks of keys some  *)
(* of them see, with an online softmax; the backward pass, for a block of   *)
(* keys, each block of queries cut down to those that see some of them, and *)
(* pads the queries' gradient back.  Packed sequences go one at a time.     *)
(*                                                                          *)
(* The numbers are AttentionDecode's, and one column stands for every       *)
(* column of queries, keys and values; a log-sum-exp is <<m, s>>, for       *)
(* m + ln s, and so is the maximum and sum the forward pass keeps.          *)
(***************************************************************************)
EXTENDS AttentionDecode

(* A training call: batch, queries, keys, heads, what a query sees before   *)
(* and after it (<<>>: everything), keys left out of each batch element     *)
(* (padded) or the offsets of packed sequences (cq, ck), the side of a      *)
(* block, whether the log-sum-exp has a gradient too, which it has not      *)
(* where the caller runs attention_backward itself.  A decoding call is     *)
(* AttentionDecode's, its c.slots the simdgroups.                           *)
IsOffsets(cu, t) ==
  /\ Len(cu) > 1 /\ cu[1] = 0 /\ cu[Len(cu)] <= t
  /\ \A i \in 2..Len(cu) : cu[i - 1] <= cu[i]

PackedCall(c) == c.cq # <<>>

IsMlxCall(c) ==
  \/ c.kind = "decode" /\ IsCall(c)
  \/ /\ c.kind = "train"
     /\ {c.b, c.tq, c.tk, c.hq, c.hkv, c.block} \subseteq Nat \ {0}
     /\ c.hq % c.hkv = 0
     /\ {c.left, c.right} \subseteq {<<>>} \cup {<<n>> : n \in 0..100}
     /\ PackedCall(c) => /\ c.b = 1 /\ c.padded = <<>> /\ Len(c.cq) = Len(c.ck)
                         /\ IsOffsets(c.cq, c.tq) /\ IsOffsets(c.ck, c.tk)

(* A piece of a call: a batch element, or the queries and the keys of one   *)
(* sequence, from and to.  Only pieces with both are run.                   *)
Pieces(c) ==
  IF PackedCall(c)
  THEN [n \in 1..(Len(c.cq) - 1) |->
          [b |-> 0, q |-> <<c.cq[n], c.cq[n + 1]>>, k |-> <<c.ck[n], c.ck[n + 1]>>]]
  ELSE [n \in 1..c.b |-> [b |-> n - 1, q |-> <<0, c.tq>>, k |-> <<0, c.tk>>]]

QueriesOf(piece) == piece.q[2] - piece.q[1]
KeysOf(piece)    == piece.k[2] - piece.k[1]

-----------------------------------------------------------------------------
(* Geometry.  Queries and keys are counted within the piece.                *)
OffsetOf(piece) == KeysOf(piece) - QueriesOf(piece)

Inside(x, top) == Max({0, Min({x, top})})

QueriesFor(c, piece, k0, k1) ==
  LET lo == IF c.right = <<>> THEN 0 ELSE k0 - OffsetOf(piece) - c.right[1]
      hi == IF c.left = <<>> THEN QueriesOf(piece) ELSE k1 - OffsetOf(piece) + c.left[1]
  IN  <<Inside(lo, QueriesOf(piece)), Inside(hi, QueriesOf(piece))>>

(* Mutant: the last query's own position is left out.                       *)
KeysForShort(c, piece, q0, q1) ==
  LET lo == IF c.left = <<>> THEN 0 ELSE q0 + OffsetOf(piece) - c.left[1]
      hi == IF c.right = <<>> THEN KeysOf(piece) ELSE q1 - 1 + OffsetOf(piece) + c.right[1]
  IN  <<Inside(lo, KeysOf(piece)), Inside(hi, KeysOf(piece))>>

KeysFor(c, piece, q0, q1) ==
  LET lo == IF c.left = <<>> THEN 0 ELSE q0 + OffsetOf(piece) - c.left[1]
      hi == IF c.right = <<>> THEN KeysOf(piece) ELSE q1 + OffsetOf(piece) + c.right[1]
  IN  <<Inside(lo, KeysOf(piece)), Inside(hi, KeysOf(piece))>>

Visible(c, piece, i, j) ==
  LET pos == i + OffsetOf(piece)
  IN  /\ c.left # <<>> => j >= pos - c.left[1]
      /\ c.right # <<>> => j <= pos + c.right[1]
      /\ c.padded # <<>> => j \notin c.padded[piece.b + 1]

(* The n-th block, of total.                                                *)
BlockOf(c, n, total) == <<n * c.block, Min({(n + 1) * c.block, total})>>
BlockCount(c, total) == CeilDiv(total, c.block)

Q(c, m, piece, h, i) == m.q[piece.b][piece.q[1] + i][h]
Kv(c, tensor, piece, h, j) == tensor[piece.b][piece.k[1] + j][h \div Group(c)]
ScoreOf(c, m, piece, h, i, j) == Q(c, m, piece, h, i) * Kv(c, m.k, piece, h, j)

RowAt(piece, i, h) == <<piece.b, piece.q[1] + i, h>>

-----------------------------------------------------------------------------
(* A row's maximum, sum and output after one more tile.                     *)
TileSoftmax(c, m, piece, h, i, keys, old) ==
  LET seen == {j \in keys[1]..(keys[2] - 1) : Visible(c, piece, i, j)}
      new  == Max({old.m} \cup {ScoreOf(c, m, piece, h, i, j) : j \in seen})
      p(n) == IF keys[1] + n \in seen THEN Exp(ScoreOf(c, m, piece, h, i, keys[1] + n) - new) ELSE 0
      width == keys[2] - keys[1]
      alpha == Exp(old.m - new)
  IN  [m |-> new, s |-> (old.s * alpha + Total(width, p)) % P,
       o |-> (old.o * alpha + Total(width, LAMBDA n : p(n) * Kv(c, m.v, piece, h, keys[1] + n))) % P]

(* The key blocks a block of queries takes: from the one its first key is   *)
(* in to the last before its last key's end.                                *)
BlockedRow(c, m, piece, h, i) ==
  LET queries == BlockOf(c, i \div c.block, QueriesOf(piece))
      range   == KeysFor(c, piece, queries[1], queries[2])
      first   == range[1] \div c.block
      last    == Max({first, CeilDiv(range[2], c.block)})
      row[n \in first..last] ==
        IF n = first THEN [m |-> NegInf, s |-> 0, o |-> 0]
        ELSE TileSoftmax(c, m, piece, h, i, BlockOf(c, n - 1, KeysOf(piece)), row[n - 1])
  IN  row[last]

(* Without keys: zeros, and -inf.                                           *)
ForwardPiece(c, m, piece) ==
  LET rows == {RowAt(piece, i, h) : i \in 0..(QueriesOf(piece) - 1), h \in 0..(c.hq - 1)}
      Row(at) == IF KeysOf(piece) = 0 THEN [m |-> NegInf, s |-> 0, o |-> 0]
                 ELSE BlockedRow(c, m, piece, at[3], at[2] - piece.q[1])
      Written(result) ==
        [m EXCEPT
           !.out = [at \in DOMAIN @ |-> IF at \notin rows THEN @[at]
                    ELSE (result[at].o * Inv(IF result[at].s = 0 THEN 1 ELSE result[at].s)) % P],
           !.lse = [at \in DOMAIN @ |-> IF at \notin rows THEN @[at] ELSE <<result[at].m, result[at].s>>]]
  IN  Written(Tabulated([at \in rows |-> Row(at)]))

(* Queries past the last offset belong to no sequence.                      *)
PastOffsets(c, at) == PackedCall(c) /\ at[2] >= c.cq[Len(c.cq)]
ForwardRest(c, m) ==
  [m EXCEPT !.out = [at \in DOMAIN @ |-> IF PastOffsets(c, at) THEN 0 ELSE @[at]],
            !.lse = [at \in DOMAIN @ |-> IF PastOffsets(c, at) THEN <<NegInf, 0>> ELSE @[at]]]

-----------------------------------------------------------------------------
(* The backward pass.  A tile's probability and score gradient.             *)
Prob(c, m, piece, h, i, j) ==
  LET lse == m.lse[RowAt(piece, i, h)]
  IN  IF Visible(c, piece, i, j)
      THEN (Exp(ScoreOf(c, m, piece, h, i, j) - lse[1]) * Inv(lse[2])) % P ELSE 0

Delta(c, m, piece, h, i) ==
  LET at == RowAt(piece, i, h)
  IN  m.gradout[at] * m.out[at] - IF c.dlse THEN m.gradlse[at] ELSE 0

ScoreGrad(c, m, piece, h, i, j) ==
  (Prob(c, m, piece, h, i, j)
    * ((m.gradout[RowAt(piece, i, h)] * Kv(c, m.v, piece, h, j) - Delta(c, m, piece, h, i)) % P)) % P

(* The queries of a tile, from and to: none if the range is empty.          *)
TileQueries(c, piece, nq, nk) ==
  LET block == BlockOf(c, nq, QueriesOf(piece))
      keys  == BlockOf(c, nk, KeysOf(piece))
      range == QueriesFor(c, piece, keys[1], keys[2])
  IN  <<Max({block[1], range[1]}), Min({block[2], range[2]})>>

BackwardPiece(c, m, piece) ==
  LET In(n, range) == range[1] <= n /\ n < range[2]
      Width(range) == Max({0, range[2] - range[1]})
      GradQ(h, i) ==
        Total(BlockCount(c, KeysOf(piece)), LAMBDA nk :
          LET keys == BlockOf(c, nk, KeysOf(piece))
          IN  IF ~In(i, TileQueries(c, piece, i \div c.block, nk)) THEN 0
              ELSE Total(Width(keys), LAMBDA n :
                     ScoreGrad(c, m, piece, h, i, keys[1] + n) * Kv(c, m.k, piece, h, keys[1] + n)))
      (* Over the heads of a group and the tiles of a block of keys.        *)
      OverQueries(hkv, j, Term(_, _)) ==
        Total(BlockCount(c, QueriesOf(piece)), LAMBDA nq :
          LET queries == TileQueries(c, piece, nq, j \div c.block)
          IN  Total(Group(c), LAMBDA g : Total(Width(queries), LAMBDA n :
                Term(hkv * Group(c) + g, queries[1] + n))))
      GradK(hkv, j) == OverQueries(hkv, j, LAMBDA h, i : ScoreGrad(c, m, piece, h, i, j) * Q(c, m, piece, h, i))
      GradV(hkv, j) == OverQueries(hkv, j, LAMBDA h, i :
                         Prob(c, m, piece, h, i, j) * m.gradout[RowAt(piece, i, h)])
      OfKeys(at) == at[1] = piece.b /\ In(at[2], piece.k)
  IN  [m EXCEPT
         !.gradq = [at \in DOMAIN @ |-> IF ~(at[1] = piece.b /\ In(at[2], piece.q)) THEN @[at]
                    ELSE IF KeysOf(piece) = 0 THEN 0 ELSE GradQ(at[3], at[2] - piece.q[1])],
         !.gradk = [at \in DOMAIN @ |-> IF OfKeys(at) THEN GradK(at[3], at[2] - piece.k[1]) ELSE @[at]],
         !.gradv = [at \in DOMAIN @ |-> IF OfKeys(at) THEN GradV(at[3], at[2] - piece.k[1]) ELSE @[at]]]

BackwardRest(c, m) ==
  LET Past(at, cu) == PackedCall(c) /\ at[2] >= cu[Len(cu)]
      Zeroed(grad, cu) == [at \in DOMAIN grad |-> IF Past(at, cu) THEN 0 ELSE grad[at]]
  IN  [m EXCEPT !.gradq = Zeroed(@, c.cq), !.gradk = Zeroed(@, c.ck), !.gradv = Zeroed(@, c.ck)]

-----------------------------------------------------------------------------
(* Decoding: the keys lo to hi a sequence's query sees, cut into as many    *)
(* chunks whatever their number, each chunk's keys taken in turn by the     *)
(* simdgroups, which are then merged, and the chunks after them.            *)
MlxSplits(c) == Max({1, Min({CeilDiv(c.s, 2), CeilDiv(c.cubes, c.b * c.hkv)})})

MlxShare(c, b, split) ==
  LET hi == Last(c, b)
      lo == Max({0, hi - 1 - c.left})
      chunk == CeilDiv(hi - lo, MlxSplits(c))
      j0 == lo + split * chunk
  IN  <<j0, Max({j0, Min({hi, j0 + chunk})})>>

(* Parts <<maximum, sum, output>> put together by their maxima.             *)
Merged(n, part(_)) ==
  LET top  == Max({part(x)[1] : x \in 0..(n - 1)})
      w(x) == Exp(part(x)[1] - top)
  IN  <<top, Total(n, LAMBDA x : w(x) * part(x)[2]), Total(n, LAMBDA x : w(x) * part(x)[3])>>

MlxSplitKernel(c, m, cube) ==
  LET Part(at) == <<at.m, at.sum, at.acc>>
      Simdgroup(h, sg) == Part(Slot(c, m, cube[1], h, MlxShare(c, cube[1], cube[3]), sg))
  IN  [m EXCEPT !.parts = [at \in DOMAIN @ |->
         IF at[1] = cube[1] /\ at[2] \div Group(c) = cube[2] /\ at[3] = cube[3]
         THEN Merged(c.slots, LAMBDA sg : Simdgroup(at[2], sg)) ELSE @[at]]]

MlxMerge(c, m) ==
  LET Row(b, h) == LET all == Merged(MlxSplits(c), LAMBDA x : m.parts[<<b, h, x>>])
                   IN  (all[3] * Inv(IF all[2] = 0 THEN 1 ELSE all[2])) % P
  IN  [m EXCEPT !.out = [row \in DOMAIN @ |-> Row(row \div c.hq, row % c.hq)]]

-----------------------------------------------------------------------------
MlxForward(c) == <<"mlx_forward", "mlx_rest">>
MlxStream(c) ==
  IF c.kind = "decode" THEN IF c.device THEN <<"mlx_split", "mlx_merge">> ELSE <<"reference">>
  ELSE MlxForward(c) \o <<"mlx_backward", "mlx_backward_rest">>

MlxCubes(c, launch) ==
  CASE launch \in {"mlx_forward", "mlx_backward"} -> Pieces(c)
    [] launch = "mlx_split" ->
         [i \in 1..(MlxSplits(c) * c.hkv * c.b) |->
            <<(i - 1) \div (MlxSplits(c) * c.hkv), ((i - 1) \div MlxSplits(c)) % c.hkv, (i - 1) % MlxSplits(c)>>]
    [] OTHER -> <<0>>

MlxEffect(c, m, launch, cube) ==
  CASE launch = "mlx_forward"       -> ForwardPiece(c, m, cube)
    [] launch = "mlx_rest"          -> ForwardRest(c, m)
    [] launch = "mlx_backward"      -> BackwardPiece(c, m, cube)
    [] launch = "mlx_backward_rest" -> BackwardRest(c, m)
    [] launch = "mlx_split"         -> MlxSplitKernel(c, m, cube)
    [] launch = "mlx_merge"         -> MlxMerge(c, m)
    [] launch = "reference"         -> ReferenceDecode(c, m)

MlxAllocated(c) ==
  IF c.kind = "decode"
  THEN Allocated(c) @@
       [parts |-> [at \in (0..(c.b - 1)) \X (0..(c.hq - 1)) \X (0..(MlxSplits(c) - 1)) |-> <<30, 1, 1>>]]
  ELSE
  LET Rows(t, heads, stream, most) ==
        [b \in 0..(c.b - 1) |-> [i \in 0..(t - 1) |-> [h \in 0..(heads - 1) |->
           Arbitrary(stream, 100 * b + 7 * i + h) % most]]]
      OfQueries == (0..(c.b - 1)) \X (0..(c.tq - 1)) \X (0..(c.hq - 1))
      OfKeys    == (0..(c.b - 1)) \X (0..(c.tk - 1)) \X (0..(c.hkv - 1))
      Filled(cells, stream) == [at \in cells |-> Arbitrary(stream, 100 * at[1] + 7 * at[2] + at[3])]
  IN  [q |-> Rows(c.tq, c.hq, 1, 3), k |-> Rows(c.tk, c.hkv, 2, 4), v |-> Rows(c.tk, c.hkv, 3, P),
       gradout |-> Filled(OfQueries, 4), gradlse |-> Filled(OfQueries, 5),
       out |-> Filled(OfQueries, 6), lse |-> [at \in OfQueries |-> <<30, 1>>],
       gradq |-> Filled(OfQueries, 7), gradk |-> Filled(OfKeys, 8), gradv |-> Filled(OfKeys, 9)]

-----------------------------------------------------------------------------
(* The definition, over dual numbers: each query's softmax over all the     *)
(* keys its sequence shows it, and the derivative of the loss by one entry  *)
(* of one of q, k and v.                                                    *)
Seeded(x, name, at, by) == [v |-> x, d |-> IF <<name, at>> = by THEN 1 ELSE 0]

DualExp(x) == [v |-> Exp(x.v), d |-> (Exp(x.v) * x.d) % P]
DualInv(x) == [v |-> Inv(x.v), d |-> ((P - Pow(Inv(x.v), 2)) * x.d) % P]
DualScore(x, y) == [v |-> x.v * y.v, d |-> (x.v * y.d + x.d * y.v) % P]

(* The row's sum of exp and its output; the sum is zero if it sees no key.  *)
SoftmaxRow(c, m, piece, h, i, by) ==
  LET seen == {j \in 0..(KeysOf(piece) - 1) : Visible(c, piece, i, j)}
      At(j) == <<piece.b, piece.k[1] + j, h \div Group(c)>>
      query == Seeded(Q(c, m, piece, h, i), "q", RowAt(piece, i, h), by)
      w(j) == IF j \in seen
              THEN DualExp(DualScore(query, Seeded(Kv(c, m.k, piece, h, j), "k", At(j), by)))
              ELSE Const(0)
      acc == DualTotal(KeysOf(piece), LAMBDA j :
               Times(w(j), Seeded(Kv(c, m.v, piece, h, j), "v", At(j), by)))
      Of(sum) == [sum |-> sum, out |-> IF seen = {} THEN Const(0) ELSE Times(acc, DualInv(sum))]
  IN  Of(DualTotal(KeysOf(piece), w))

AttentionIs(c, m) ==
  /\ \A n \in DOMAIN Pieces(c) : LET piece == Pieces(c)[n] IN
       \A i \in 0..(QueriesOf(piece) - 1), h \in 0..(c.hq - 1) :
         LET row == SoftmaxRow(c, m, piece, h, i, <<>>)
             lse == m.lse[RowAt(piece, i, h)]
         IN  /\ m.out[RowAt(piece, i, h)] = row.out.v
             /\ (Exp(lse[1]) * lse[2]) % P = row.sum.v
  /\ \A at \in DOMAIN m.out : PastOffsets(c, at) => m.out[at] = 0 /\ m.lse[at] = <<NegInf, 0>>

(* The derivative of a piece's part of the loss.                            *)
LossSlope(c, m, piece, by) ==
  Total(QueriesOf(piece), LAMBDA i : Total(c.hq, LAMBDA h :
    LET at == RowAt(piece, i, h)
        Of(row) == m.gradout[at] * row.out.d
                   + IF c.dlse /\ row.sum.v # 0 THEN m.gradlse[at] * ((row.sum.d * Inv(row.sum.v)) % P) ELSE 0
    IN  Of(SoftmaxRow(c, m, piece, h, i, by))))

AttentionGradientsAre(c, m) ==
  LET pieces == Pieces(c)
      Slope(by) == Total(Len(pieces), LAMBDA n :
                     IF pieces[n + 1].b = by[2][1] THEN LossSlope(c, m, pieces[n + 1], by) ELSE 0)
  IN  /\ \A at \in DOMAIN m.gradq : m.gradq[at] = Slope(<<"q", at>>)
      /\ \A at \in DOMAIN m.gradk : m.gradk[at] = Slope(<<"k", at>>)
      /\ \A at \in DOMAIN m.gradv : m.gradv[at] = Slope(<<"v", at>>)
=============================================================================
