----------------------------- MODULE LogprobMlx -----------------------------
(***************************************************************************)
(* Log-probabilities and the fused cross-entropy on MLX (dash-mlx           *)
(* logprob.rs, loss.rs): a threadgroup a row for each chunk of the          *)
(* vocabulary, or MLX's operations; no gradient is formed in the forward    *)
(* pass, the backward pass walks the vocabulary again from the maximum and  *)
(* the sum of each row.                                                     *)
(*                                                                          *)
(* The inputs of a call, and what it is to leave, are LogprobCalls'.        *)
(***************************************************************************)
EXTENDS LogprobCalls

LANES  == 2   \* of a simdgroup, 32 in the code
GROUPS == 2   \* simdgroups of a threadgroup, 8 in the code
TG     == LANES * GROUPS

Chunks(c) == Ranges(c.v, c.chunk[1])

(* One chunk size for any number of rows.                                   *)
IsMlxCall(c) ==
  /\ IsCall(c)
  /\ c.chunk[1] = c.chunk[2] /\ c.device[1] = c.device[2]
  /\ c.kind = "loss" => c.wanth /\ c.wantw

-----------------------------------------------------------------------------
(* What the passes share: a valid target is in the vocabulary and not       *)
(* masked; others are taken as token 0, and lie in no chunk.                *)
InRange(c, i)  == c.targets[i + 1] >= 0 /\ c.targets[i + 1] < c.v
Target(c, i)   == IF InRange(c, i) THEN c.targets[i + 1] ELSE 0
Valid(c, i)    == InRange(c, i) /\ Target(c, i) \notin c.masked
LocalTarget(c, i, l) ==
  IF l.c0 <= Target(c, i) /\ Target(c, i) < l.c1 /\ Valid(c, i) THEN Target(c, i) - l.c0 ELSE -1

(* The flags of a chunk, read if it holds a masked token; z, a row of a     *)
(* chunk's logits, which the operations take with the masked ones lowest.   *)
Flag(c, l, j)  == /\ PartitionPoint(c, l.c0) < PartitionPoint(c, l.c1)
                  /\ (l.c0 + j) \in c.masked
Width(l)       == l.c1 - l.c0
Logits(c, m, i, l) ==
  Tabulated([j \in 0..(Width(l) - 1) |->
    IF ~c.device[1] /\ Flag(c, l, j) THEN Lowest ELSE Logit(c, m, i, l.c0 + j)])
Sums(l, f(_))  == Total(Width(l), f)

-----------------------------------------------------------------------------
(* dash_combine: two parts of a row, one state.                             *)
Combine(x, y) ==
  LET m  == IF x.m > y.m THEN x.m ELSE y.m
      fx == Exp(x.m - m)
      fy == Exp(y.m - m)
  IN  [x EXCEPT !.m = m,
                !.a = (fx * ((x.a + x.s * (x.m - m)) % P) + fy * ((y.a + y.s * (y.m - m)) % P)) % P,
                !.s = (x.s * fx + y.s * fy) % P,
                !.r = (x.r * fx + y.r * fy) % P]

(* STATE: a thread through its columns; its part rescaled as the maximum    *)
(* rises, then the column's terms added.                                    *)
Rising(x, v) ==
  LET sc == Exp(x.m - v)
  IN  IF v > x.m THEN [x EXCEPT !.a = (sc * ((x.a + x.s * (x.m - v)) % P)) % P,
                                !.s = (@ * sc) % P, !.r = (@ * sc) % P, !.m = v]
      ELSE x
Counting(x, v, other) ==
  LET d == v - x.m
      e == Exp(d)
  IN  [x EXCEPT !.s = (@ + e) % P, !.a = (@ + e * d) % P, !.zsum = (@ + v) % P,
                !.r = IF other THEN (@ + e) % P ELSE @]

ThreadPart(c, l, z, t, tid) ==
  LET Column(x, j) == IF Flag(c, l, j) THEN x ELSE Counting(Rising(x, z[j]), z[j], j # t)
      part[k \in 0..CeilDiv(Width(l), TG)] ==
        IF k = 0 THEN Nothing
        ELSE LET j == tid + (k - 1) * TG
             IN  IF j < Width(l) THEN Column(part[k - 1], j) ELSE part[k - 1]
  IN  part[CeilDiv(Width(l), TG)]

(* The lanes of a simdgroup by shuffles, half of them at a time; lane 0's.  *)
Meet(x, y)     == [Combine(x, y) EXCEPT !.zsum = (x.zsum + y.zsum) % P]
Shuffled(part, Join(_, _)) ==
  LET after[lanes \in 1..LANES] ==
        IF lanes = LANES THEN part
        ELSE Once(after[2 * lanes], LAMBDA now :
               Tabulated([lane \in 0..(lanes - 1) |-> Join(now[lane], now[lane + lanes])]))
  IN  after[1][0]

StateKernel(c, m, l, row) ==
  LET i == l.r0 + row
      t == LocalTarget(c, i, l)
      Group(z, g) ==
        Shuffled(Tabulated([lane \in 0..(LANES - 1) |-> ThreadPart(c, l, z, t, g * LANES + lane)]), Meet)
      Row(z, part) ==
        LET upto[g \in 0..GROUPS] == IF g = 0 THEN m.state[i] ELSE Combine(upto[g - 1], part[g - 1])
        IN  [upto[GROUPS] EXCEPT
               !.zsum = (@ + Total(GROUPS, LAMBDA g : part[g].zsum)) % P,
               !.zt   = (@ + IF t >= 0 THEN z[t] ELSE 0) % P]
      Of(z) == Row(z, Tabulated([g \in 0..(GROUPS - 1) |-> Group(z, g)]))
  IN  [m EXCEPT !.state[i] = Once(Logits(c, m, i, l), Of)]

(* The same as MLX's operations.  While every token so far is masked each   *)
(* counts 1 in s, at the lowest maximum; two or more of them times its      *)
(* distance to the first real one are -inf, and 0 times that is a NaN.      *)
StateOperations(c, m, l, row) ==
  LET i   == l.r0 + row
      old == m.state[i]
      t   == LocalTarget(c, i, l)
      Of(z, new) ==
        LET scale == Exp(old.m - new)
            d(j)  == z[j] - new
            e(j)  == Exp(d(j))
            picked == z[IF t > 0 THEN t ELSE 0]
        IN  [old EXCEPT
               !.zt   = (@ + IF t >= 0 THEN picked ELSE 0) % P,
               !.zsum = (@ + Sums(l, LAMBDA j : IF Flag(c, l, j) THEN 0 ELSE z[j])) % P,
               !.a    = IF @ = NaN \/ (old.m = Lowest /\ new > Lowest /\ old.s > 1) THEN NaN
                        ELSE (scale * ((@ + old.s * (old.m - new)) % P)
                         + Sums(l, LAMBDA j : IF e(j) = 0 THEN 0 ELSE e(j) * d(j))) % P,
               !.s    = (@ * scale + Sums(l, e)) % P,
               !.r    = (@ * scale + Sums(l, LAMBDA j : IF j = t THEN 0 ELSE e(j))) % P,
               !.m    = new]
  IN  [m EXCEPT !.state[i] =
         Once(Logits(c, m, i, l), LAMBDA z : Of(z, Max({old.m} \cup {z[j] : j \in DOMAIN z})))]

(* forward: of the rows of a block, what the backward pass starts from kept *)
(* in their state.                                                          *)
MlxFinishRow(c, m, i) ==
  LET st == m.state[i]
      ln == Ln(m, i, st.s)
  IN  [m EXCEPT !.logprob[i] = IF Valid(c, i) THEN (st.zt - (st.m + ln)) % P ELSE NegInf,
                !.entropy[i] = IF st.a = NaN THEN NaN ELSE (ln - st.a * Inv(st.s)) % P]

-----------------------------------------------------------------------------
(* WEIGHTS: e = exp(z - m), neither masked nor the target, and its sum over *)
(* threads, lanes and simdgroups; then r + r_part and o + e W.  The         *)
(* operations know the target by its id.                                    *)
WeightsKernel(c, m, l, row) ==
  LET i == l.r0 + row
      t == LocalTarget(c, i, l)
      E(z) == [j \in DOMAIN z |-> IF Flag(c, l, j) \/ j = t THEN 0 ELSE Exp(z[j] - m.state[i].m)]
      Thread(e, tid) == MapThenSumSet(LAMBDA j : e[j], {j \in DOMAIN e : j % TG = tid}) % P
      Group(e, g) ==
        Shuffled(Tabulated([lane \in 0..(LANES - 1) |-> Thread(e, g * LANES + lane)]), LAMBDA x, y : (x + y) % P)
  IN  Once(Tabulated(E(Logits(c, m, i, l))), LAMBDA e :
        [e |-> e, r |-> Total(GROUPS, LAMBDA g : Group(e, g))])

WeightsOperations(c, m, l, row) ==
  LET i   == l.r0 + row
      col == IF Valid(c, i) THEN Target(c, i) ELSE -1
      E(z) == [j \in DOMAIN z |-> IF l.c0 + j = col THEN 0 ELSE Exp(z[j] - m.state[i].m)]
  IN  Once(Tabulated(E(Logits(c, m, i, l))), LAMBDA e : [e |-> e, r |-> Sums(l, LAMBDA j : e[j])])

Weights(c, m, l, row) ==
  LET i == l.r0 + row
      Added(w) == [m EXCEPT !.r[i] = (@ + w.r) % P,
                            !.o[i] = Vector(c.d, LAMBDA k : @[k] + Sums(l, LAMBDA j : w.e[j] * m.weight[l.c0 + j][k]))]
  IN  IF c.device[1] THEN Once(WeightsKernel(c, m, l, row), Added)
      ELSE Once(WeightsOperations(c, m, l, row), Added)

(* The gradient, (r w_t - o) / s, times the cotangent.                      *)
ChosenGradient(c, m, i) ==
  LET r  == IF Valid(c, i) THEN m.r[i] ELSE 0
      wt == m.weight[Target(c, i)]
  IN  [m EXCEPT !.gradh[i] = Vector(c.d, LAMBDA k :
         (((r * wt[k] - m.o[i][k]) % P) * Inv(m.state[i].s) % P) * m.up[i][2])]

-----------------------------------------------------------------------------
(* The loss.  Its rows and its coefficients are dash-ops', formed from m    *)
(* and s; the target's coefficient has the uniform term in it.  A NaN       *)
(* entropy, of a row that counts, is in the coefficients where the entropy  *)
(* was asked for.                                                           *)
MlxFinish(c, m) ==
  LET WithNaN(mm) ==
        [mm EXCEPT !.rows = [i \in DOMAIN @ |->
           [@[i] EXCEPT !.entropy = IF m.state[i].a = NaN /\ Counted(c, i) THEN NaN ELSE @]]]
  IN  WithNaN(Finish(c, [m EXCEPT !.state = [i \in DOMAIN @ |->
                                    [@[i] EXCEPT !.found = IF Valid(c, i) THEN 1 ELSE 0]]]))

MlxCoefficients(c, m) ==
  LET Lost(i) == c.wantent /\ m.rows[i].entropy = NaN
      WithUniform(mm) ==
        [mm EXCEPT !.coef = [i \in DOMAIN @ |->
           [@[i] EXCEPT !.softmax = IF Lost(i) THEN NaN ELSE @,
                        !.target = IF Lost(i) /\ Valid(c, i) THEN NaN
                                   ELSE (@ + mm.coef[i].uniform) % P]]]
  IN  WithUniform(Coefficients(c, m))

(* GRADIENT: a thread an element of the gradient of a chunk's logits.       *)
GradientElement(c, m, l, i, z, j) ==
  LET co == m.coef[i]
      s  == m.state[i].s
      d  == z[j] - m.state[i].m
      p  == (Exp(d) * Inv(s)) % P
      Soft == p * co.softmax
              - IF c.wantent THEN p * (((d - Ln(m, i, s)) * co.entropy) % P) ELSE 0
  IN  IF Flag(c, l, j) THEN 0
      ELSE IF j = LocalTarget(c, i, l) THEN co.target
      ELSE (Soft + co.uniform) % P

(* gradient_ops: the whole chunk, then the target's, then the masked.       *)
GradientOperations(c, m, l, i, z, j) ==
  LET co == m.coef[i]
      s  == m.state[i].s
      d  == z[j] - m.state[i].m
      p  == (Exp(d) * Inv(s)) % P
      dz == (d - Ln(m, i, s)) % P
      g  == p * co.softmax - IF c.wantent THEN ((p * dz) % P) * co.entropy ELSE 0
  IN  IF Flag(c, l, j) THEN 0
      ELSE IF j = LocalTarget(c, i, l) THEN co.target
      ELSE IF co.softmax = NaN THEN NaN
      ELSE (g + co.uniform) % P

MlxGradient(c, m, l, row) ==
  LET i == l.r0 + row
      Element(z, j) == IF c.device[1] THEN GradientElement(c, m, l, i, z, j) ELSE GradientOperations(c, m, l, i, z, j)
  IN  [m EXCEPT !.g[row] = Once(Logits(c, m, i, l), LAMBDA z : Tabulated([j \in DOMAIN z |-> Element(z, j)]))]

(* A chunk's parts of the gradients: of a block's rows of hidden, the first *)
(* chunk's starts the sum; of the chunk's rows of weight, the first block's. *)
(* A NaN in a row or a column of the gradient of the logits makes its part   *)
(* one.                                                                      *)
NaNPlus(x, y) == IF x = NaN \/ y = NaN THEN NaN ELSE (x + y) % P

MlxParts(c, m, l) ==
  LET Lost(i, j) == m.g[i - l.r0][j - l.c0] = NaN
      OfHidden(i, k) ==
        IF \E j \in l.c0..(l.c1 - 1) : Lost(i, j) THEN NaN
        ELSE Sums(l, LAMBDA j : m.g[i - l.r0][j] * m.weight[l.c0 + j][k])
      OfWeight(j, k) ==
        IF \E i \in l.r0..(l.r1 - 1) : Lost(i, j) THEN NaN
        ELSE Total(l.r1 - l.r0, LAMBDA row : m.g[row][j - l.c0] * m.hidden[l.r0 + row][k])
      Summed(first, old, part(_)) ==
        Tabulated([k \in 0..(c.d - 1) |-> NaNPlus(part(k), IF first THEN 0 ELSE old[k])])
  IN  [m EXCEPT
         !.gradh = [i \in DOMAIN @ |->
            IF l.r0 <= i /\ i < l.r1
            THEN Summed(l.c0 = 0, @[i], LAMBDA k : OfHidden(i, k)) ELSE @[i]],
         !.gradw = [j \in DOMAIN @ |->
            IF l.c0 <= j /\ j < l.c1
            THEN Summed(l.r0 = 0, @[j], LAMBDA k : OfWeight(j, k)) ELSE @[j]]]

-----------------------------------------------------------------------------
(* The launches: a block of rows after the other, each through the chunks.  *)
Walk(c, kernels) ==
  FlattenSeq([b \in DOMAIN RowBlocks(c) |->
    FlattenSeq([x \in DOMAIN Chunks(c) |->
      [k \in DOMAIN kernels |-> Launch(kernels[k], RowBlocks(c)[b], Chunks(c)[x])]])])

MlxForward(c) == Walk(c, <<"state">>) \o One(IF c.kind = "loss" THEN "finish" ELSE "finish_rows")
MlxStream(c) ==
  MlxForward(c)
  \o IF c.kind = "loss" THEN One("coefficients") \o Walk(c, <<"gradient", "parts">>)
     ELSE Walk(c, <<"weights">>) \o One("chosen_gradient")

MlxCubes(c, launch) ==
  IF launch.k \in {"state", "weights", "gradient"} THEN [r \in 1..(launch.r1 - launch.r0) |-> r - 1]
  ELSE IF launch.k \in {"finish_rows", "chosen_gradient"} THEN [i \in 1..c.n |-> i - 1]
  ELSE <<0>>

MlxEffect(c, m, launch, cube) ==
  CASE launch.k = "state" /\ c.device[1]  -> StateKernel(c, m, launch, cube)
    [] launch.k = "state" /\ ~c.device[1] -> StateOperations(c, m, launch, cube)
    [] launch.k = "finish_rows"     -> MlxFinishRow(c, m, cube)
    [] launch.k = "weights"         -> Weights(c, m, launch, cube)
    [] launch.k = "chosen_gradient" -> ChosenGradient(c, m, cube)
    [] launch.k = "finish"          -> MlxFinish(c, m)
    [] launch.k = "coefficients"    -> MlxCoefficients(c, m)
    [] launch.k = "gradient"        -> MlxGradient(c, m, launch, cube)
    [] launch.k = "parts"           -> MlxParts(c, m, launch)

(* What a chunk's first or a block's first sums start from is never read.   *)
MlxAllocated(c) ==
  LET Unwritten(n) == [i \in 0..(n - 1) |-> Vector(c.d, LAMBDA k : Arbitrary(9, i + k))]
  IN  [Allocated(c) EXCEPT !.gradh = Unwritten(c.n), !.gradw = Unwritten(c.v)]
      @@ [r |-> [i \in 0..(c.n - 1) |-> 0]]

-----------------------------------------------------------------------------
(* The definition, but where the operations meet two masked tokens or more  *)
(* before the first chunk that is not masked whole: then each entropy that   *)
(* counts is a NaN, and with it, where the entropy was asked for, every      *)
(* gradient of a row that counts or of an unmasked token, and nothing else.  *)
MaskedFirst(c) ==
  {j \in c.masked : \A x \in DOMAIN Chunks(c) :
     Chunks(c)[x][1] <= j => Chunks(c)[x][1]..(Chunks(c)[x][2] - 1) \subseteq c.masked}
Spoilt(c) == ~c.device[1] /\ Cardinality(MaskedFirst(c)) > 1

MlxForwardIs(c, m) == RowsAre(c, m, LAMBDA entropy : IF Spoilt(c) THEN NaN ELSE entropy)

MlxGradientsAre(c, m) ==
  LET lost == {i \in 0..(c.n - 1) : Spoilt(c) /\ c.wantent /\ Counted(c, i)}
  IN  /\ c.wanth => \A i \in 0..(c.n - 1) : \A k \in 0..(c.d - 1) :
           m.gradh[i][k] = IF i \in lost THEN NaN ELSE LossSlope(c, m, <<"hidden", i, k>>)
      /\ c.wantw => \A j \in 0..(c.v - 1) : \A k \in 0..(c.d - 1) :
           m.gradw[j][k] = IF lost # {} /\ j \notin c.masked THEN NaN
                           ELSE LossSlope(c, m, <<"weight", j, k>>)
=============================================================================
