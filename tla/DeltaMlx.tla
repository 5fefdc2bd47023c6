------------------------------ MODULE DeltaMlx -------------------------------
(***************************************************************************)
(* The gated delta rule on MLX (dash-mlx gated_delta): the chunks' inverses *)
(* by a kernel or by doubling, the states' walk by kernels or by operations, *)
(* each with a backward pass of its own in place of MLX's; the rest is MLX's *)
(* operations and their derivatives.  And the decoding step, whose rows are *)
(* shared out among the simdgroups of a threadgroup.                        *)
(*                                                                          *)
(* The inputs of a call, and what it is to leave, are DeltaCalls'.          *)
(***************************************************************************)
EXTENDS DeltaCalls

CONSTANTS
  TV,   \* columns of a state one threadgroup of a scan carries, which divide it
  SG    \* simdgroups of the step's threadgroup

DeltaMlxAssumption ==
  /\ DeltaAssumption
  /\ {TV, SG} \subseteq Nat \ {0} /\ DV % TV = 0
  /\ \E n \in 0..CHUNK : CHUNK = 2^n   \* for doubling

(* path "kernels", "inverse" or "scan", which alone is by kernels, or       *)
(* "operations".  The boundaries are read on the host, and refused when not *)
(* in order.                                                                *)
IsMlxCall(c) ==
  /\ c.path \in {"kernels", "inverse", "scan", "operations"} /\ c.kind \in {"train", "decode"}
  /\ Packed(c) => c.b = 1 /\ Seqs(c) > 0
  /\ Ordered(c) /\ c.t > 0
  /\ c.kind = "decode" => Ordered(c.step)

Substitutes(c) == c.path \in {"kernels", "inverse"}
SliceOf(c)     == IF c.path \in {"kernels", "scan"} THEN TV ELSE DV

-----------------------------------------------------------------------------
(* The operations before the inverse.  A row's norm is MLX's rms_norm: by   *)
(* the mean of squares and the epsilon over the width, over its root.       *)
MlxNorm(x) ==
  Once((Inv(Root((Dot(DK, x, x) + Eps) * Inv(DK))) * Inv(Root(DK))) % P, LAMBDA inv :
    [hat |-> Vector(DK, LAMBDA d : x[d] * inv), inv |-> inv])

MlxNormed(call, x) == IF call.norm THEN Tabulated([r \in DOMAIN x |-> MlxNorm(x[r]).hat]) ELSE x

(* Of a chunk, with the decays above the diagonal -inf before exp; a is not *)
(* masked on the diagonal.                                                  *)
MlxChunk(call, normed, chunk, h) ==
  LET With(p, gamma, decay) ==
        [p |-> p, gamma |-> gamma, decay |-> decay,
         lam |-> Vector(CHUNK, LAMBDA i : Decay(gamma, LastRow, i)),
         a   |-> Each(CHUNK, Mm(CHUNK, DK, CHUNK, Scaled(CHUNK, DK, p.k, p.beta), Tr(CHUNK, DK, p.k)), decay)]
  IN  Once(Prepare([call EXCEPT !.norm = FALSE], normed, chunk, h), LAMBDA p :
        Once(Products(p.g), LAMBDA gamma : Both(gamma, Pairwise(gamma), LAMBDA g, decay : With(p, g, decay))))

ChunkCount(call, y) == CeilDiv(Span(call, y \div H)[2], CHUNK)
MlxParts(call, mem, y) ==
  LET normed == [mem EXCEPT !.q = MlxNormed(call, @), !.k = MlxNormed(call, @)]
  IN  [mem EXCEPT !.chunks[y] =
         Once(normed, LAMBDA m :
           Tabulated([c \in 0..(ChunkCount(call, y) - 1) |-> MlxChunk(call, m, ChunkAt(call, y, c), y % H)]))]

-----------------------------------------------------------------------------
(* The inverse of I + N, N the triangle of a below the diagonal.            *)
(* SUBSTITUTION: thread j forms column j.                                   *)
Substitution(a) ==
  LET Column(j) ==
        LET value[i \in 0..LastRow] ==
              IF i < j THEN 0
              ELSE ((IF i = j THEN 1 ELSE 0) - Total(i - j, LAMBDA l : a[i][j + l] * value[j + l])) % P
        IN  Tabulated(value)
  IN  Once(Tabulated([j \in 0..LastRow |-> Column(j)]), LAMBDA columns :
        Matrix(CHUNK, CHUNK, LAMBDA i, j : columns[j][i]))

(* doubling: the inverses of the diagonal blocks of one size, as a matrix,  *)
(* give those of twice the size: of a pair, the corner below is             *)
(* -bottom below top.                                                       *)
Doubling(a) ==
  LET Doubled(inv, size) ==
        LET Corner(i, j) ==     \* row i in the lower half of a pair, column j in the upper
              LET lower == (i \div size) * size
                  upper == (j \div size) * size
              IN  0 - Total(size, LAMBDA l :
                        inv[i][lower + l] * Total(size, LAMBDA m : (a[lower + l][upper + m] * inv[upper + m][j]) % P))
            OfPair(i, j) == /\ i \div (2 * size) = j \div (2 * size)
                            /\ i \div size > j \div size
        IN  Matrix(CHUNK, CHUNK, LAMBDA i, j : IF OfPair(i, j) THEN Corner(i, j) ELSE inv[i][j])
      sizes == {n \in 0..CHUNK : 2^n <= CHUNK}
      after[n \in sizes] ==
        IF n = 0 THEN Matrix(CHUNK, CHUNK, LAMBDA i, j : IF i = j THEN 1 ELSE 0)
        ELSE Once(after[n - 1], LAMBDA inv : Doubled(inv, 2^(n - 1)))
  IN  after[CHOOSE n \in sizes : 2^n = CHUNK]

MlxInverse(call, mem, yc) ==
  [mem EXCEPT !.inverses[yc] =
     Once(mem.chunks[yc[1]][yc[2]].a, LAMBDA a : IF Substitutes(call) THEN Substitution(a) ELSE Doubling(a))]

(* W and U0.                                                                *)
MlxWu(mem, yc) ==
  LET x == mem.chunks[yc[1]][yc[2]]
      t == mem.inverses[yc]
      KBeta == Scaled(CHUNK, DK, x.p.k, x.p.beta)
  IN  [mem EXCEPT !.w[yc]  = Mm(CHUNK, CHUNK, DK, t, Scaled(CHUNK, DK, KBeta, x.gamma)),
                  !.u0[yc] = Mm(CHUNK, CHUNK, DV, t, Scaled(CHUNK, DV, x.p.v, x.p.beta))]

-----------------------------------------------------------------------------
(* The scan, FORWARD or forward_ops: each column of a slice of the state    *)
(* through the chunks, the entering states and U kept; the last is final.   *)
WithColumns(mem, y, slice, n, walks) ==
  LET Mine(ycv) == ycv[1] = y /\ ycv[3] \in slice
  IN  [mem EXCEPT !.states = [ycv \in DOMAIN @ |-> IF Mine(ycv) THEN walks[ycv[3]].s[ycv[2]] ELSE @[ycv]],
                  !.us     = [ycv \in DOMAIN @ |-> IF Mine(ycv) THEN walks[ycv[3]].u[ycv[2]] ELSE @[ycv]],
                  !.last   = [yv \in DOMAIN @ |->
                                IF yv[1] = y /\ yv[2] \in slice THEN walks[yv[2]].s[n] ELSE @[yv]]]

MlxScan(call, mem, cube) ==
  LET y == cube[1]
      n == ChunkCount(call, y)
      U(c, v, s) == Vector(CHUNK, LAMBDA i : mem.u0[<<y, c>>][i][v] - Dot(DK, mem.w[<<y, c>>][i], s))
      Next(x, s, u) ==
        Vector(DK, LAMBDA d : s[d] * x.gamma[LastRow]
                              + Total(CHUNK, LAMBDA i : ((x.p.k[i][d] * x.lam[i]) % P) * u[i]))
      Walk(v) ==
        LET s[c \in 0..n] ==
              IF c = 0 THEN Vector(DK, LAMBDA d : mem.h0[y][d][v])
              ELSE Once(s[c - 1], LAMBDA before :
                     Once(U(c - 1, v, before), LAMBDA u : Next(mem.chunks[y][c - 1], before, u)))
        IN  Once(Tabulated(s), LAMBDA states :
              [s |-> states, u |-> Tabulated([c \in 0..(n - 1) |-> U(c, v, states[c])])])
  IN  Once(Tabulated([v \in cube[2] |-> Walk(v)]), LAMBDA walks : WithColumns(mem, y, cube[2], n, walks))

(* A kept tensor of a chunk, n rows by DV, from its columns.                *)
Gathered(columns, n, y, c) == Matrix(n, DV, LAMBDA i, v : columns[<<y, c, v>>][i])

MlxOutput(call, mem, y) ==
  LET Output(c) ==
        LET x == mem.chunks[y][c]
        IN  Add(CHUNK, DV, Mm(CHUNK, DK, DV, QgOf(x.p, x), Gathered(mem.states, DK, y, c)),
                           Mm(CHUNK, CHUNK, DV, AttnOf(x.p, x), Gathered(mem.us, CHUNK, y, c)))
  IN  [mem EXCEPT !.out =
         Once(Tabulated([c \in 0..(ChunkCount(call, y) - 1) |-> Output(c)]), LAMBDA out : Unchunk(call, y, @, out))]

-----------------------------------------------------------------------------
(* Backward.  The scan's cotangents, of the entering states and of U, from  *)
(* the output's: MLX's derivative of the operations after it.               *)
MlxCotangents(call, mem, y) ==
  LET DO(c) == Chunk4(mem.dout, ChunkAt(call, y, c), y % H, DV)
      X(c)  == mem.chunks[y][c]
      Of(c, dO) ==
        [s |-> Mm(DK, CHUNK, DV, Tr(CHUNK, DK, QgOf(X(c).p, X(c))), dO),
         u |-> Mm(CHUNK, CHUNK, DV, Tr(CHUNK, CHUNK, AttnOf(X(c).p, X(c))), dO)]
  IN  [mem EXCEPT !.cotangents[y] =
         Tabulated([c \in 0..(ChunkCount(call, y) - 1) |-> Once(DO(c), LAMBDA dO : Of(c, dO))])]

(* BACKWARD or backward_ops: each column of a slice of the states' gradient *)
(* back through the chunks; dU and the gradient of each leaving state kept. *)
MlxScanBack(call, mem, cube) ==
  LET y == cube[1]
      n == ChunkCount(call, y)
      DU(c, v, ds) ==
        LET x == mem.chunks[y][c]
        IN  Vector(CHUNK, LAMBDA i : mem.cotangents[y][c].u[i][v]
                                     + Total(DK, LAMBDA d : ((x.p.k[i][d] * x.lam[i]) % P) * ds[d]))
      DSBefore(c, v, ds, du) ==
        Vector(DK, LAMBDA d : ds[d] * mem.chunks[y][c].gamma[LastRow] + mem.cotangents[y][c].s[d][v]
                              - Total(CHUNK, LAMBDA i : mem.w[<<y, c>>][i][d] * du[i]))
      Walk(v) ==
        LET ds[c \in 0..n] ==
              IF c = n THEN Vector(DK, LAMBDA d : mem.dlast[y][d][v])
              ELSE Once(ds[c + 1], LAMBDA next : Once(DU(c, v, next), LAMBDA du : DSBefore(c, v, next, du)))
        IN  Once(Tabulated(ds), LAMBDA all :
              [ds |-> all, du |-> Tabulated([c \in 0..(n - 1) |-> DU(c, v, all[c + 1])])])
      Mine(ycv) == ycv[1] = y /\ ycv[3] \in cube[2]
      Written(walks) ==
        [mem EXCEPT !.dus = [ycv \in DOMAIN @ |-> IF Mine(ycv) THEN walks[ycv[3]].du[ycv[2]] ELSE @[ycv]],
                    !.dsnext = [ycv \in DOMAIN @ |->
                                  IF Mine(ycv) THEN walks[ycv[3]].ds[ycv[2] + 1] ELSE @[ycv]],
                    !.dfirst = [yv \in DOMAIN @ |->
                                  IF yv[1] = y /\ yv[2] \in cube[2] THEN walks[yv[2]].ds[0] ELSE @[yv]]]
  IN  Written(Tabulated([v \in cube[2] |-> Walk(v)]))

(* The scan's gradients formed of all chunks', then back through the        *)
(* inverse, by its closed form, and the operations before it.               *)
MlxGradients(call, mem, y) ==
  LET I(c) == LET x == mem.chunks[y][c]
              IN  [gamma |-> x.gamma, lam |-> x.lam, decay |-> x.decay, a |-> x.a, t |-> mem.inverses[<<y, c>>]]
      OfChunk(c, s, u, du, dsnext) ==
        Both(DW(du, s), DKt(u, dsnext), LAMBDA dw, dkt :
          GradientsFrom(mem.chunks[y][c].p, I(c), s, u, du, dw, dkt, SdS(s, dsnext),
                        Chunk4(mem.dout, ChunkAt(call, y, c), y % H, DV)))
      Chunk(c) ==
        Both(Gathered(mem.states, DK, y, c), Gathered(mem.us, CHUNK, y, c), LAMBDA s, u :
          Both(Gathered(mem.dus, CHUNK, y, c), Gathered(mem.dsnext, DK, y, c), LAMBDA du, dsnext :
            OfChunk(c, s, u, du, dsnext)))
      Norms(x) == [r \in DOMAIN x |-> MlxNorm(x[r])]
  IN  Once(Tabulated([c \in 0..(ChunkCount(call, y) - 1) |-> Chunk(c)]), LAMBDA grads :
        Gradients(call, mem, y, grads, Norms(mem.q), Norms(mem.k)))

-----------------------------------------------------------------------------
(* STEP: a column, its rows shared out; each simdgroup's sums meet in       *)
(* threadgroup memory.  The norms scale the sums, not the rows.             *)
RowsOfGroup(w) == LET r == CeilDiv(DK, SG) IN {d \in (w * r)..(w * r + r - 1) : d < DK}

OverGroups(f(_)) == Total(SG, LAMBDA w : MapThenSumSet(f, RowsOfGroup(w)))

StepToken(call, in, r, v, s) ==
  LET k == in.k[r]
      q == in.q[r]
      RowScale(x) == IF call.norm THEN Inv(Root((Dot(DK, x, x) + Eps) % P)) ELSE 1
      Grown(aged, kd) == Vector(DK, LAMBDA d : aged[d] + k[d] * kd)
      Read(next) == [s |-> next, out |-> (OverGroups(LAMBDA d : next[d] * q[d]) * ((call.scale * RowScale(q)) % P)) % P]
      Correct(aged, kscale) ==
        Once((OverGroups(LAMBDA d : aged[d] * k[d]) * kscale) % P, LAMBDA kvmem :
          Once((((kscale * in.beta[r]) % P) * ((in.v[r][v] - kvmem) % P)) % P, LAMBDA kd :
            Read(Grown(aged, kd))))
  IN  Correct(Vector(DK, LAMBDA d : s[d] * in.g[r]), RowScale(k))

MlxStepKernel(call, mem, cube) ==
  LET y     == cube[1]
      v     == cube[2]
      h     == y % H
      bound == IF call.step.cu = <<>> THEN <<y \div H, y \div H + 1>>
               ELSE <<call.step.cu[y \div H + 1], call.step.cu[y \div H + 2]>>
      after[t \in bound[1]..bound[2]] ==
        IF t = bound[1] THEN [s |-> mem.last[cube], out |-> 0]
        ELSE Once(after[t - 1], LAMBDA before : StepToken(call, mem.step, <<t - 1, h>>, v, before.s))
      Written(done) ==
        [mem EXCEPT !.last[cube] = done[bound[2]].s,
                    !.stepout = [rv \in DOMAIN @ |->
                                   IF rv[1][2] = h /\ rv[2] = v /\ bound[1] <= rv[1][1] /\ rv[1][1] < bound[2]
                                   THEN done[rv[1][1] + 1].out ELSE @[rv]]]
  IN  Written(Tabulated(after))

-----------------------------------------------------------------------------
(* A call's launches, in the order in which one needs what another gives.   *)
MlxForward(c) == <<"parts", "inverse", "wu", "scan", "output">>
MlxStream(c) ==
  IF c.kind = "train" THEN MlxForward(c) \o <<"cotangents", "scan_backward", "gradients">>
  ELSE MlxForward(c) \o <<IF c.path = "operations" THEN "reference_steps" ELSE "step">>

Ys(c)        == 0..(Seqs(c) * H - 1)
MlxChunks(c) == {yc \in Ys(c) \X (0..CeilDiv(c.t, CHUNK)) : yc[2] < ChunkCount(c, yc[1])}
Slices(c)    == {{v \in 0..(DV - 1) : v \div SliceOf(c) = x} : x \in 0..(DV \div SliceOf(c) - 1)}

InTurn(set)  == FoldSet(LAMBDA x, seq : Append(seq, x), <<>>, set)

MlxCubes(c, launch) ==
  CASE launch \in {"inverse", "wu"}         -> InTurn(MlxChunks(c))
    [] launch \in {"scan", "scan_backward"} -> InTurn(Ys(c) \X Slices(c))
    [] launch = "step"                      -> InTurn(PerState(c))
    [] OTHER                                -> InTurn(Ys(c))

MlxAllocated(c) ==
  LET Columns == {<<yc[1], yc[2], v>> : yc \in MlxChunks(c), v \in 0..(DV - 1)}
      U(d)    == Untouched(d)
  IN  Inputs(c, Rows(c), 0)
      @@ [h0 |-> StateInput(c, "h0"), dlast |-> StateInput(c, "dlast"),
          chunks |-> U(Ys(c)), inverses |-> U(MlxChunks(c)), w |-> U(MlxChunks(c)), u0 |-> U(MlxChunks(c)),
          states |-> U(Columns), us |-> U(Columns), cotangents |-> U(Ys(c)), dus |-> U(Columns),
          dsnext |-> U(Columns), out |-> U(Rows(c)), last |-> U(PerState(c)), dfirst |-> U(PerState(c)),
          dq |-> U(Rows(c)), dk |-> U(Rows(c)), dv |-> U(Rows(c)), dg |-> U(Rows(c)), dbeta |-> U(Rows(c))]
      @@ IF c.kind = "decode"
         THEN [step |-> Inputs(c, StepRows(c), 7), stepout |-> U(StepRows(c) \X (0..(DV - 1)))]
         ELSE [step |-> <<>>, stepout |-> <<>>]

MlxEffect(c, m, launch, cube) ==
  CASE launch = "parts"           -> MlxParts(c, m, cube)
    [] launch = "inverse"         -> MlxInverse(c, m, cube)
    [] launch = "wu"              -> MlxWu(m, cube)
    [] launch = "scan"            -> MlxScan(c, m, cube)
    [] launch = "output"          -> MlxOutput(c, m, cube)
    [] launch = "cotangents"      -> MlxCotangents(c, m, cube)
    [] launch = "scan_backward"   -> MlxScanBack(c, m, cube)
    [] launch = "gradients"       -> MlxGradients(c, m, cube)
    [] launch = "step"            -> MlxStepKernel(c, m, cube)
    [] launch = "reference_steps" -> ReferenceSteps(c, m, cube)
=============================================================================
