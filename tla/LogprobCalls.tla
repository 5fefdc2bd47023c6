---------------------------- MODULE LogprobCalls ----------------------------
(***************************************************************************)
(* A call of the log-probabilities or of the fused cross-entropy: what the  *)
(* kernels' launches or, where the device does not take a pass's kernels,   *)
(* the reference's tensor operations leave, and what they should, over dual *)
(* numbers: the log-softmax of all unmasked logits at once.                 *)
(***************************************************************************)
EXTENDS Logprob

(* kind "chosen", the log-probability and its gradient by hidden, or        *)
(* "loss"; device = <<whether the kernels take the pass, the second pass>>. *)
IsCall(c) ==
  /\ c.kind \in {"chosen", "loss"}
  /\ c.n \in Nat \ {0} /\ c.v \in Nat \ {0} /\ Len(c.targets) = c.n
  /\ c.masked \subseteq 0..(c.v - 1) /\ c.masked # 0..(c.v - 1)
  /\ c.rowchunk > 0 /\ c.chunk[1] > 0 /\ c.chunk[2] > 0
  /\ c.kind = "chosen" => c.eps = 0 /\ c.lambda = 0 /\ ~c.wantent /\ c.wanth /\ ~c.wantw

-----------------------------------------------------------------------------
(* The reference.  A row through one chunk: masked logits are the lowest    *)
(* float, their distances 0 and their exponentials 0.                       *)
All(j) == TRUE

ReferenceOnline(c, m, i, st, l) ==
  LET Masked(j) == j \in c.masked
      z == [j \in l.c0..(l.c1 - 1) |-> Logit(c, m, i, j)]
      zm(j)  == IF Masked(j) THEN Lowest ELSE z[j]
      top    == Max({zm(j) : j \in DOMAIN z})
      mnew   == IF top > st.m THEN top ELSE st.m
      shift  == st.m - mnew
      alpha  == Exp(shift)
      dz(j)  == IF Masked(j) THEN 0 ELSE zm(j) - mnew
      e(j)   == IF Masked(j) THEN 0 ELSE Exp(dz(j))
      one(j) == IF j = c.targets[i + 1] /\ ~Masked(j) THEN 1 ELSE 0
      other(j) == IF one(j) = 1 THEN 0 ELSE e(j)
  IN  [m |-> mnew,
       s |-> (st.s * alpha + Over(l, All, e)) % P,
       r |-> (st.r * alpha + Over(l, All, other)) % P,
       a |-> (alpha * ((st.a + st.s * shift) % P) + Over(l, All, LAMBDA j : e(j) * dz(j))) % P,
       zt |-> (st.zt + Over(l, All, LAMBDA j : z[j] * one(j))) % P,
       found |-> st.found + Over(l, All, one),
       alpha |-> alpha,
       zsum |-> IF c.eps = 0 THEN st.zsum
                ELSE (st.zsum + Over(l, All, LAMBDA j : IF Masked(j) THEN 0 ELSE z[j])) % P,
       o |-> Vector(c.d, LAMBDA k :
               st.o[k] * alpha + Over(l, All, LAMBDA j : other(j) * m.weight[j][k]))]

(* The rows of a block through the chunks the block's own size gives.       *)
ReferenceBlock(c, m, block) ==
  LET chunks == Ranges(c.v, VocabChunkFor(c, block[2] - block[1]))
      walk[i \in block[1]..(block[2] - 1), k \in 0..Len(chunks)] ==
        IF k = 0 THEN Nothing @@ [o |-> Vector(c.d, LAMBDA x : 0)]
        ELSE ReferenceOnline(c, m, i, walk[i, k - 1], [c0 |-> chunks[k][1], c1 |-> chunks[k][2]])
      At(i) == walk[i, Len(chunks)]
      InBlock(i) == block[1] <= i /\ i < block[2]
  IN  [m EXCEPT
         !.state = [i \in DOMAIN @ |->
            IF InBlock(i) THEN [x \in DOMAIN Nothing |-> At(i)[x]] ELSE @[i]],
         !.o = [i \in DOMAIN @ |-> IF InBlock(i) THEN At(i).o ELSE @[i]]]

ReferenceFinish(c, m) ==
  LET Lse(i)   == (m.state[i].m + Ln(m, i, m.state[i].s)) % P
      Grad(i)  ==
        LET st == m.state[i]
            wt == m.weight[Clamped(c, c.targets[i + 1])]
        IN  Vector(c.d, LAMBDA k : ((wt[k] * ((st.r * st.found) % P) - m.o[i][k]) % P) * Inv(st.s))
  IN  [m EXCEPT
         !.logprob = [i \in DOMAIN @ |->
            IF m.state[i].found > 0 THEN (m.state[i].zt - Lse(i)) % P ELSE NegInf],
         !.entropy = [i \in DOMAIN @ |->
            (Ln(m, i, m.state[i].s) - m.state[i].a * Inv(m.state[i].s)) % P],
         !.o = [i \in DOMAIN @ |-> Grad(i)]]

(* The second pass, by the chunks of the first block, block after block,    *)
(* each adding its part to every chunk of the weight's gradient.            *)
ReferenceGradient(c, m) ==
  LET G(i, j) ==
        LET co == m.coef[i]
            dz == (Logit(c, m, i, j) - co.lse) % P
            p  == ExpLess(m, i, dz)
        IN  IF j \in c.masked THEN 0
            ELSE IF j = c.targets[i + 1] THEN (co.target + co.uniform) % P
            ELSE (p * co.softmax - ((p * dz) % P) * co.entropy + co.uniform) % P
      g == [i \in 0..(c.n - 1) |-> [j \in 0..(c.v - 1) |-> G(i, j)]]
      blocks == RowBlocks(c)
      Part(b, j, k) == Total(blocks[b + 1][2] - blocks[b + 1][1],
                             LAMBDA r : g[blocks[b + 1][1] + r][j] * m.hidden[blocks[b + 1][1] + r][k])
  IN  [m EXCEPT
         !.gradh = [i \in DOMAIN @ |->
            IF c.wanth THEN Vector(c.d, LAMBDA k : Total(c.v, LAMBDA j : g[i][j] * m.weight[j][k]))
            ELSE @[i]],
         !.gradw = [j \in DOMAIN @ |->
            IF c.wantw THEN Vector(c.d, LAMBDA k : Total(Len(blocks), LAMBDA b : Part(b, j, k)))
            ELSE @[j]]]

-----------------------------------------------------------------------------
(* The launches.  Forward, for each block its own chunks; backward, for     *)
(* each chunk of the first block's the blocks.                              *)
Launch(k, b, ch) == [k |-> k, r0 |-> b[1], r1 |-> b[2], c0 |-> ch[1], c1 |-> ch[2]]
One(k) == <<[k |-> k]>>

Pass(c) ==
  IF ~c.device[1] THEN One("reference_pass")
  ELSE FlattenSeq([b \in DOMAIN RowBlocks(c) |->
         LET block  == RowBlocks(c)[b]
             chunks == Ranges(c.v, VocabChunkFor(c, block[2] - block[1]))
         IN  FlattenSeq([x \in DOMAIN chunks |->
               <<Launch("chunk", block, chunks[x])>>
               \o IF Accumulates(c) THEN <<Launch("accumulate", block, chunks[x])>> ELSE <<>>])])

GradientPass(c) ==
  LET first  == RowBlocks(c)[1]
      chunks == Ranges(c.v, VocabChunkFor(c, first[2] - first[1]))
      all    == <<0, c.n>>
      Slices(ch) ==
        LET ranges == Ranges(ch[2] - ch[1], WeightSlice(c, VocabChunkFor(c, first[2] - first[1])))
        IN  [x \in DOMAIN ranges |-> Launch("weight_rows", all, <<ch[1] + ranges[x][1], ch[1] + ranges[x][2]>>)]
  IN  IF ~c.device[2] THEN One("reference_gradient")
      ELSE FlattenSeq([x \in DOMAIN chunks |->
             FlattenSeq([b \in DOMAIN RowBlocks(c) |->
               <<Launch("gradient", RowBlocks(c)[b], chunks[x])>>
               \o IF c.wanth THEN <<Launch("add_rows", RowBlocks(c)[b], chunks[x])>> ELSE <<>>])
             \o IF c.wantw THEN Slices(chunks[x]) ELSE <<>>])

Forward(c) ==
  Pass(c) \o IF c.kind = "loss" THEN One("finish")
             ELSE IF c.device[1] THEN One("finish_rows") \o One("finish_grad")
             ELSE One("reference_finish")

Backward(c) ==
  IF c.kind = "chosen" THEN One("chosen_grad")
  ELSE One("coefficients") \o IF Accumulates(c) THEN One("accumulated") ELSE GradientPass(c)

Stream(c) == Forward(c) \o Backward(c)

Cubes(c, launch) ==
  IF launch.k \in {"chunk", "accumulate", "gradient", "add_rows"}
  THEN [r \in 1..(launch.r1 - launch.r0) |-> r - 1]
  ELSE IF launch.k \in {"finish_rows", "finish_grad"} THEN [i \in 1..c.n |-> i - 1]
  ELSE IF launch.k = "reference_pass" THEN RowBlocks(c)
  ELSE <<0>>

Effect(c, m, launch, cube) ==
  CASE launch.k = "chunk"        -> ChunkKernel(c, m, launch, cube)
    [] launch.k = "accumulate"   -> AccumulateKernel(c, m, launch, cube)
    [] launch.k = "finish_rows"  -> FinishRowsKernel(c, m, cube)
    [] launch.k = "finish_grad"  -> FinishGradKernel(c, m, cube)
    [] launch.k = "finish"       -> Finish(c, m)
    [] launch.k = "coefficients" -> Coefficients(c, m)
    [] launch.k = "accumulated"  -> AccumulatedGrad(c, m)
    [] launch.k = "gradient"     -> GradientKernel(c, m, launch, cube)
    [] launch.k = "add_rows"     -> AddRowsKernel(c, m, launch, cube)
    [] launch.k = "weight_rows"  -> WriteWeightRows(c, m, launch)
    [] launch.k = "chosen_grad"  -> ChosenGrad(c, m)
    [] launch.k = "reference_pass"     -> ReferenceBlock(c, m, cube)
    [] launch.k = "reference_finish"   -> ReferenceFinish(c, m)
    [] launch.k = "reference_gradient" -> ReferenceGradient(c, m)

(* Unmasked tokens, and the sum of a row's exponentials.                    *)
Unmasked(c) == 0..(c.v - 1) \ c.masked
Small(s, k) == (Arbitrary(s, k) % 7) - 3

Allocated(c) ==
  LET rows   == 0..(c.n - 1)
      Zeros  == Vector(c.d, LAMBDA k : 0)
      Unset  == [j \in 0..(c.v - 1) |-> 0]
      inputs == [hidden |-> [i \in rows |-> [k \in 0..(c.d - 1) |-> Small(1, 10 * i + k)]],
                 weight |-> [j \in 0..(c.v - 1) |-> [k \in 0..(c.d - 1) |-> Small(2, 10 * j + k)]]]
  IN  inputs @@
      [z |-> [i \in rows |-> Total(c.v, LAMBDA j : IF j \in c.masked THEN 0 ELSE Exp(Logit(c, inputs, i, j)))],
       lse |-> [i \in rows |-> Arbitrary(3, i)],
       up  |-> [i \in rows |-> [k \in 1..3 |-> Arbitrary(4, 10 * i + k)]],
       state |-> [i \in rows |-> Nothing], o |-> [i \in rows |-> Zeros],
       weights |-> [r \in 0..(2 * c.n - 1) |-> Unset], weightslo |-> [r \in rows |-> Unset],
       logprob |-> [i \in rows |-> 0], entropy |-> [i \in rows |-> 0],
       rows |-> [i \in rows |-> <<>>], coef |-> [i \in rows |-> <<>>],
       g |-> [i \in rows |-> Unset],
       gradh |-> [i \in rows |-> Zeros], gradw |-> [j \in 0..(c.v - 1) |-> Zeros]]

-----------------------------------------------------------------------------
(* The definition (dash_contract::loss).  Differentiated by an element of   *)
(* hidden, <<"hidden", i, k>>, or of weight, <<"weight", j, k>>.            *)
Slope(m, i, j, by) ==
  IF by[1] = "hidden" THEN IF by[2] = i THEN m.weight[j][by[3]] ELSE 0
  ELSE IF by[2] = j THEN m.hidden[i][by[3]] ELSE 0

HasTarget(c, i) == c.targets[i + 1] \in Unmasked(c)

RowOf(c, m, i, by) ==
  LET z(j) == [v |-> Logit(c, m, i, j) % P, d |-> Slope(m, i, j, by) % P]
      e(j) == [v |-> Exp(Logit(c, m, i, j)), d |-> (Exp(Logit(c, m, i, j)) * z(j).d) % P]
      Sum(f(_)) == DualTotal(c.v, LAMBDA j : IF j \in c.masked THEN Const(0) ELSE f(j))
      InvZ(Z) == [v |-> Inv(Z.v), d |-> (0 - Z.d * ((Inv(Z.v) * Inv(Z.v)) % P)) % P]
      Lse(Z)  == [v |-> m.lse[i], d |-> (Z.d * Inv(Z.v)) % P]
      zt   == IF HasTarget(c, i) THEN z(c.targets[i + 1]) ELSE Const(0)
      mean == Times(Sum(z), Const(Inv(Classes(c))))
      Row(lse, invZ) ==
        [loss |-> Plus(Plus(Times(Const(1 - c.eps), Minus(lse, zt)), Times(Const(c.eps), Minus(lse, mean))),
                       Times(Const(c.lambda), Times(lse, lse))),
         logprob |-> Minus(zt, lse),
         entropy |-> Minus(lse, Times(Sum(LAMBDA j : Times(e(j), z(j))), invZ))]
      OfSum(Z) == Row(Lse(Z), InvZ(Z))
  IN  OfSum(Sum(e))

Nowhere == <<"hidden", -1, 0>>

(* What the forward pass must leave of each row, its entropy as given.      *)
RowsAre(c, m, Entropy(_)) ==
  \A i \in 0..(c.n - 1) :
    LET Is(row, logprob) ==
        IF c.kind = "chosen" THEN m.logprob[i] = logprob /\ m.entropy[i] = Entropy(row.entropy.v)
        ELSE IF ~Counted(c, i)
        THEN m.rows[i].loss = 0 /\ m.rows[i].logprob = 0 /\ m.rows[i].entropy = 0
        ELSE /\ m.rows[i].logprob = logprob
             /\ m.rows[i].entropy = Entropy(row.entropy.v)
             /\ m.rows[i].loss = IF HasTarget(c, i) \/ c.eps = 1 THEN row.loss.v ELSE PosInf
        Of(row) == Is(row, IF HasTarget(c, i) THEN row.logprob.v ELSE NegInf)
    IN  Of(RowOf(c, m, i, Nowhere))
ForwardIs(c, m) == RowsAre(c, m, LAMBDA entropy : entropy)

(* The loss the upstream gradients make of the rows; an ignored row's       *)
(* count for nothing.                                                       *)
LossSlope(c, m, by) ==
  Total(c.n, LAMBDA i :
    LET Of(row) ==
          IF c.kind = "chosen" THEN m.up[i][2] * row.logprob.d
          ELSE IF ~Counted(c, i) THEN 0
          ELSE m.up[i][1] * row.loss.d + m.up[i][2] * row.logprob.d
                + (IF c.wantent THEN m.up[i][3] * row.entropy.d ELSE 0)
    IN  Of(RowOf(c, m, i, by)))

GradientsAre(c, m) ==
  /\ c.wanth => \A i \in 0..(c.n - 1) : \A k \in 0..(c.d - 1) :
       m.gradh[i][k] = LossSlope(c, m, <<"hidden", i, k>>)
  /\ c.wantw => \A j \in 0..(c.v - 1) : \A k \in 0..(c.d - 1) :
       m.gradw[j][k] = LossSlope(c, m, <<"weight", j, k>>)
=============================================================================
