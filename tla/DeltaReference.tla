--------------------------- MODULE DeltaReference ---------------------------
(***************************************************************************)
(* The chunked gated delta rule as Burn's tensor operations                 *)
(* (gated_delta/chunk/reference.rs), which every device can run and the     *)
(* kernels' tests compare them with.  The tensors' batch, head and chunk    *)
(* axes are independent but for the state: one step here is one sequence    *)
(* and head, all its chunks.  Packed sequences are calls on each alone.     *)
(*                                                                          *)
(* And the reference of the decoding step (gated_delta/recurrent.rs).       *)
(***************************************************************************)
EXTENDS DeltaRule

(* Operations on matrices: the product of n by m and m by k, the transpose, *)
(* rows scaled each by a factor, sums of a row's products, elementwise.     *)
Mm(n, m, k, a, b)   == Matrix(n, k, LAMBDA i, j : Total(m, LAMBDA l : a[i][l] * b[l][j]))
Tr(n, m, a)         == Matrix(m, n, LAMBDA i, j : a[j][i])
Scaled(n, m, a, f)  == Matrix(n, m, LAMBDA i, j : a[i][j] * f[i])
SumLast(n, m, a, b) == Vector(n, LAMBDA i : Dot(m, a[i], b[i]))
Add(n, m, a, b)     == Matrix(n, m, LAMBDA i, j : a[i][j] + b[i][j])
Sub(n, m, a, b)     == Matrix(n, m, LAMBDA i, j : a[i][j] - b[i][j])
Neg(n, m, a)        == Matrix(n, m, LAMBDA i, j : 0 - a[i][j])
Each(n, a, b)       == Matrix(n, n, LAMBDA i, j : a[i][j] * b[i][j])
PerToken(a, b)      == Vector(CHUNK, LAMBDA i : a[i] * b[i])
LessColumns(m)      == RowsLessColumns(m)

(* 1 where i > j, or i >= j.                                                *)
LowerMask(strict) ==
  Matrix(CHUNK, CHUNK, LAMBDA i, j : IF i > j \/ (~strict /\ i = j) THEN 1 ELSE 0)

-----------------------------------------------------------------------------
(* Rows normalised, with the inverse norms for the way back.                *)
L2norm(x) ==
  Once(Inv(Root((Dot(DK, x, x) + Eps) % P)), LAMBDA inv :
    [hat |-> Vector(DK, LAMBDA d : x[d] * inv), inv |-> inv])
L2normBackward(x, dhat) ==
  Both(dhat, Dot(DK, x.hat, dhat), LAMBDA dy, s :
    Vector(DK, LAMBDA d : x.inv * ((dy[d] - x.hat[d] * s) % P)))

(* Chunk c of a sequence, its first row and its count of tokens; and a      *)
(* tensor's rows of it, past the last token what padding with zeros gives.  *)
ChunkAt(call, y, c) ==
  LET Of(span) == <<span[1] + c * CHUNK, Min({CHUNK, span[2] - c * CHUNK})>>
  IN  Of(Span(call, y \div H))
Chunk4(x, chunk, h, depth) ==
  Tabulated([i \in 0..LastRow |->
    IF i < chunk[2] THEN x[<<chunk[1] + i, h>>] ELSE Vector(depth, LAMBDA d : 0)])
Chunk3(x, chunk, h, padding) ==
  [i \in 0..LastRow |-> IF i < chunk[2] THEN x[<<chunk[1] + i, h>>] ELSE padding]

Prepare(call, mem, chunk, h) ==
  LET Normed(x) == [i \in DOMAIN x |-> IF call.norm THEN L2norm(x[i]).hat ELSE x[i]]
      Of(q, k) ==
        [q    |-> Matrix(CHUNK, DK, LAMBDA i, d : q[i][d] * call.scale),
         k    |-> k,
         v    |-> Chunk4(mem.v, chunk, h, DV),
         g    |-> Chunk3(mem.g, chunk, h, 1),       \* exp(g), so 1 where g is 0
         beta |-> Chunk3(mem.beta, chunk, h, 0)]
  IN  Of(Tabulated(Normed(Chunk4(mem.q, chunk, h, DK))), Tabulated(Normed(Chunk4(mem.k, chunk, h, DK))))

-----------------------------------------------------------------------------
(* (I + A)^-1, a row at a time: row i of what is so far -A gets added its   *)
(* product with the rows above.                                             *)
UnitLowerInverse(a) ==
  LET WithRow(m, i) ==
        [m EXCEPT ![i] = Vector(CHUNK, LAMBDA j :
                           IF j < i THEN m[i][j] + Total(i, LAMBDA l : m[i][l] * m[l][j]) ELSE m[i][j])]
      after[i \in 0..LastRow] == IF i = 0 THEN Neg(CHUNK, CHUNK, a)
                                 ELSE Once(after[i - 1], LAMBDA m : WithRow(m, i))
  IN  Once(after[LastRow], LAMBDA m : Matrix(CHUNK, CHUNK, LAMBDA i, j : m[i][j] + IF i = j THEN 1 ELSE 0))

(* What does not depend on the state.                                       *)
Pairwise(gamma) ==
  Matrix(CHUNK, CHUNK, LAMBDA i, j : IF i >= j THEN Decay(gamma, i, j) ELSE 0)

AMasked(p, decay) ==
  Each(CHUNK, Mm(CHUNK, DK, CHUNK, Scaled(CHUNK, DK, p.k, p.beta), Tr(CHUNK, DK, p.k)),
              Each(CHUNK, decay, LowerMask(TRUE)))

Intra(p) ==
  LET With(gamma, decay, a, t) ==
        [gamma |-> gamma, decay |-> decay, a |-> a, t |-> t,
         lam   |-> Vector(CHUNK, LAMBDA i : Decay(gamma, LastRow, i)),
         w     |-> Mm(CHUNK, CHUNK, DK, t, Scaled(CHUNK, DK, Scaled(CHUNK, DK, p.k, p.beta), gamma)),
         u     |-> Mm(CHUNK, CHUNK, DV, t, Scaled(CHUNK, DV, p.v, p.beta))]
  IN  Once(Products(p.g), LAMBDA gamma :
      Once(Pairwise(gamma), LAMBDA decay :
      Once(AMasked(p, decay), LAMBDA a :
      Once(UnitLowerInverse(a), LAMBDA t : With(gamma, decay, a, t)))))

KtOf(p, i)   == Scaled(CHUNK, DK, p.k, i.lam)
QgOf(p, i)   == Scaled(CHUNK, DK, p.q, i.gamma)
AttnOf(p, i) == Each(CHUNK, Mm(CHUNK, DK, CHUNK, p.q, Tr(CHUNK, DK, p.k)), i.decay)

-----------------------------------------------------------------------------
(* The state passing, on whole states: V' of a chunk and the state leaving  *)
(* it; backward, dV' and the gradient of the state entering.                *)
VPrime(i, s) == Sub(CHUNK, DV, i.u, Mm(CHUNK, DK, DV, i.w, s))
StateAfter(p, i, s, vn) ==
  Add(DK, DV, Matrix(DK, DV, LAMBDA d, v : s[d][v] * i.gamma[LastRow]),
              Mm(DK, CHUNK, DV, Tr(CHUNK, DK, KtOf(p, i)), vn))

DVPrime(p, i, dsnext, dO) ==
  Add(CHUNK, DV, Mm(CHUNK, DK, DV, KtOf(p, i), dsnext),
                 Mm(CHUNK, CHUNK, DV, Tr(CHUNK, CHUNK, AttnOf(p, i)), dO))
DStateBefore(p, i, dsnext, dO, dvn) ==
  Sub(DK, DV, Add(DK, DV, Matrix(DK, DV, LAMBDA d, v : dsnext[d][v] * i.gamma[LastRow]),
                          Mm(DK, CHUNK, DV, Tr(CHUNK, DK, QgOf(p, i)), dO)),
              Mm(DK, CHUNK, DV, Tr(CHUNK, DK, i.w), dvn))

(* A sequence and head's chunks, n of them: what each is prepared as, its   *)
(* own work and, from the initial state on, the states between them.        *)
StateForward(n, p, i, initial) ==
  LET Through(c, before) == StateAfter(p[c], i[c], before, VPrime(i[c], before))
      s[c \in 0..n] == IF c = 0 THEN initial ELSE Once(s[c - 1], LAMBDA before : Through(c - 1, before))
  IN  Tabulated(s)
StateBackward(n, p, i, dO, dfinal) ==
  LET Through(c, next) == DStateBefore(p[c], i[c], next, dO[c], DVPrime(p[c], i[c], next, dO[c]))
      ds[c \in 0..n] == IF c = n THEN dfinal ELSE Once(ds[c + 1], LAMBDA next : Through(c, next))
  IN  Tabulated(ds)

WithChunks(call, mem, y) ==
  LET Of(n) ==
        Once(Tabulated([c \in 0..(n - 1) |-> Prepare(call, mem, ChunkAt(call, y, c), y % H)]), LAMBDA p :
        Once(Tabulated([c \in 0..(n - 1) |-> Intra(p[c])]), LAMBDA i :
          [n |-> n, p |-> p, i |-> i, s |-> StateForward(n, p, i, mem.h0[y])]))
  IN  Of(CeilDiv(Span(call, y \div H)[2], CHUNK))

-----------------------------------------------------------------------------
(* forward, forward_packed: O = (gamma Q) S + P V'.                         *)
OutputOf(p, i, s) ==
  Add(CHUNK, DV, Mm(CHUNK, DK, DV, QgOf(p, i), s),
                 Mm(CHUNK, CHUNK, DV, AttnOf(p, i), VPrime(i, s)))

(* The rows of a sequence, taken from its chunks', in place of its own.     *)
Unchunk(call, y, buffer, chunks) ==
  RowsSet(buffer, Span(call, y \div H), y % H, LAMBDA t : chunks[t \div CHUNK][t % CHUNK])

ReferenceForward(call, mem, y) ==
  LET Outputs(x) == Tabulated([c \in 0..(x.n - 1) |-> OutputOf(x.p[c], x.i[c], x.s[c])])
      Written(out, last) ==
        [mem EXCEPT !.out  = Unchunk(call, y, @, out),
                    !.last = [yv \in DOMAIN @ |->
                                IF yv[1] = y THEN [d \in 0..(DK - 1) |-> last[d][yv[2]]] ELSE @[yv]]]
  IN  Once(WithChunks(call, mem, y), LAMBDA x : Written(Outputs(x), x.s[x.n]))

-----------------------------------------------------------------------------
(* backward: what a chunk's gradients are made of, once the states and      *)
(* their gradients are known.  Each part gives the gradients of what it     *)
(* reads; G is the gate summed, its gradient per row.                       *)
Zero(n, m) == Matrix(n, m, LAMBDA i, j : 0)
NoGates    == Vector(CHUNK, LAMBDA i : 0)

(* O = (gamma Q) S + P V'.                                                  *)
OutputPart(p, i, s, vn, dO) ==
  LET Of(dqg, dattn) ==
        Once(Each(CHUNK, dattn, i.decay), LAMBDA dattnE :
          [q |-> Add(CHUNK, DK, Scaled(CHUNK, DK, dqg, i.gamma), Mm(CHUNK, CHUNK, DK, dattnE, p.k)),
           k |-> Mm(CHUNK, CHUNK, DK, Tr(CHUNK, CHUNK, dattnE), p.q),
           gamma |-> SumLast(CHUNK, DK, dqg, p.q),
           G |-> LessColumns(Each(CHUNK, dattn, AttnOf(p, i))),
           beta |-> NoGates])
  IN  Of(Mm(CHUNK, DV, DK, dO, Tr(DK, DV, s)), Each(CHUNK, Mm(CHUNK, DV, CHUNK, dO, Tr(CHUNK, DV, vn)), LowerMask(FALSE)))

(* S_next = exp(G_last) S + (lam K)^T V': the last row's gate gathers what  *)
(* every row's decay to it and the state's own give.                        *)
StatePart(p, i, dkt, sds) ==
  LET Of(lamDlam, dlast) ==
        [q |-> Zero(CHUNK, DK), k |-> Scaled(CHUNK, DK, dkt, i.lam), gamma |-> NoGates, beta |-> NoGates,
         G |-> Vector(CHUNK, LAMBDA r : (IF r = LastRow THEN dlast ELSE 0) - lamDlam[r])]
  IN  Once(PerToken(SumLast(CHUNK, DK, dkt, p.k), i.lam), LAMBDA x :
        Of(x, Total(CHUNK, LAMBDA r : x[r]) + sds * i.gamma[LastRow]))

(* What the state's walk leaves of it: dlam K = V' dS_next^T, <S, dS_next>  *)
(* and, as V' = U - W S, dW = -dV' S^T.                                     *)
DKt(vn, dsnext) == Mm(CHUNK, DV, DK, vn, Tr(DK, DV, dsnext))
SdS(s, dsnext)  == Total(DK, LAMBDA d : Dot(DV, s[d], dsnext[d]))
DW(du, s)       == Neg(CHUNK, DK, Mm(CHUNK, DV, DK, du, Tr(DK, DV, s)))

(* W = T (beta gamma K), U = T (beta V).                                    *)
GammaK(p, i) == Scaled(CHUNK, DK, p.k, i.gamma)
WyPart(p, i, dkbg, dvb) ==
  [q |-> Zero(CHUNK, DK),
   k |-> Scaled(CHUNK, DK, Scaled(CHUNK, DK, dkbg, p.beta), i.gamma),
   gamma |-> PerToken(SumLast(CHUNK, DK, dkbg, p.k), p.beta),
   G |-> NoGates,
   beta |-> Both(SumLast(CHUNK, DV, dvb, p.v), SumLast(CHUNK, DK, dkbg, GammaK(p, i)), LAMBDA x, z :
              Vector(CHUNK, LAMBDA r : x[r] + z[r]))]

DT(p, i, du, dw) ==
  Add(CHUNK, CHUNK, Mm(CHUNK, DV, CHUNK, du, Tr(CHUNK, DV, Scaled(CHUNK, DV, p.v, p.beta))),
                    Mm(CHUNK, DK, CHUNK, dw, Tr(CHUNK, DK, Scaled(CHUNK, DK, GammaK(p, i), p.beta))))

(* T = (I + A)^-1: dA = -T^T dT T^T below the diagonal.                     *)
DInverse(t, dT) ==
  Each(CHUNK, Neg(CHUNK, CHUNK, Mm(CHUNK, CHUNK, CHUNK, Mm(CHUNK, CHUNK, CHUNK, Tr(CHUNK, CHUNK, t), dT),
                                   Tr(CHUNK, CHUNK, t))),
              LowerMask(TRUE))

(* A = (beta K K^T) decay below the diagonal.                               *)
APart(p, i, dA) ==
  LET Of(dAe, dkbeta) ==
        [q |-> Zero(CHUNK, DK),
         k |-> Add(CHUNK, DK, Scaled(CHUNK, DK, dkbeta, p.beta),
                   Mm(CHUNK, CHUNK, DK, Tr(CHUNK, CHUNK, dAe), Scaled(CHUNK, DK, p.k, p.beta))),
         gamma |-> NoGates,
         G |-> LessColumns(Each(CHUNK, dA, i.a)),
         beta |-> SumLast(CHUNK, DK, dkbeta, p.k)]
  IN  Once(Each(CHUNK, dA, i.decay), LAMBDA dAe :
        Once(Mm(CHUNK, CHUNK, DK, dAe, p.k), LAMBDA dkbeta : Of(dAe, dkbeta)))

(* Their sum, the gradient of exp(G) becoming one of G, and of the gates:   *)
(* the sum of all rows' less those up to it, and its own.                   *)
SumOfParts(a, b) ==
  [q |-> Add(CHUNK, DK, a.q, b.q), k |-> Add(CHUNK, DK, a.k, b.k),
   G |-> Vector(CHUNK, LAMBDA r : a.G[r] + b.G[r]),
   gamma |-> Vector(CHUNK, LAMBDA r : a.gamma[r] + b.gamma[r]),
   beta |-> Vector(CHUNK, LAMBDA r : a.beta[r] + b.beta[r])]
Together(a, b, c, d) == SumOfParts(SumOfParts(a, b), SumOfParts(c, d))
GatesFrom(G) ==
  LET cumsum(r) == Total(r + 1, LAMBDA l : G[l])
  IN  Vector(CHUNK, LAMBDA r : Total(CHUNK, LAMBDA l : G[l]) - cumsum(r) + G[r])

GradientsFrom(p, i, s, vn, du, dw, dkt, sds, dO) ==
  LET Parts(dvb, dkbg, dA) ==
        Together(OutputPart(p, i, s, vn, dO), StatePart(p, i, dkt, sds), WyPart(p, i, dkbg, dvb), APart(p, i, dA))
      Of(sum, dvb) ==
        [q |-> sum.q, k |-> sum.k, v |-> Scaled(CHUNK, DV, dvb, p.beta), beta |-> sum.beta,
         g |-> GatesFrom(Vector(CHUNK, LAMBDA r : sum.G[r] + sum.gamma[r] * i.gamma[r]))]
      With(dvb, dkbg) ==
        Once(DInverse(i.t, DT(p, i, du, dw)), LAMBDA dA :
          Once(Parts(dvb, dkbg, dA), LAMBDA sum : Of(sum, dvb)))
  IN  With(Mm(CHUNK, CHUNK, DV, Tr(CHUNK, CHUNK, i.t), du), Mm(CHUNK, CHUNK, DK, Tr(CHUNK, CHUNK, i.t), dw))

ChunkGradients(p, i, s, dsnext, dO) ==
  Both(VPrime(i, s), DVPrime(p, i, dsnext, dO), LAMBDA vn, du :
    Both(DW(du, s), DKt(vn, dsnext), LAMBDA dw, dkt :
      GradientsFrom(p, i, s, vn, du, dw, dkt, SdS(s, dsnext), dO)))

(* The rows of a gradient of a sequence, through the norm of each.          *)
UnchunkNormed(call, y, buffer, chunks, factor, norms) ==
  LET span == Span(call, y \div H)
      Back(r, dhat) == IF call.norm THEN L2normBackward(norms[r], dhat) ELSE dhat
  IN  RowsSet(buffer, span, y % H, LAMBDA t :
        Back(<<span[1] + t, y % H>>, RowTimes(chunks[t \div CHUNK][t % CHUNK], DK, factor)))

(* Every gradient of a sequence's chunks in its place.                      *)
Gradients(call, mem, y, grads, qnorms, knorms) ==
  LET Field(field) == [c \in DOMAIN grads |-> grads[c][field]]
  IN  [mem EXCEPT !.dq = UnchunkNormed(call, y, @, Field("q"), call.scale, qnorms),
                  !.dk = UnchunkNormed(call, y, @, Field("k"), 1, knorms),
                  !.dv = Unchunk(call, y, @, Field("v")),
                  !.dg = Unchunk(call, y, @, Field("g")),
                  !.dbeta = Unchunk(call, y, @, Field("beta"))]

(* backward, backward_packed: the forward pass's quantities again, the      *)
(* state's gradient back through the chunks, every chunk's gradients.       *)
ReferenceBackward(call, mem, y) ==
  LET Norms(x) == [r \in DOMAIN x |-> L2norm(x[r])]
      Written(grads, ds) ==
        [Gradients(call, mem, y, grads, Norms(mem.q), Norms(mem.k)) EXCEPT
           !.dfirst = [yv \in DOMAIN @ |->
                         IF yv[1] = y THEN [d \in 0..(DK - 1) |-> ds[0][d][yv[2]]] ELSE @[yv]]]
      Of(x, dO) ==
        Once(StateBackward(x.n, x.p, x.i, dO, mem.dlast[y]), LAMBDA ds :
          Once(Tabulated([c \in 0..(x.n - 1) |->
                 ChunkGradients(x.p[c], x.i[c], x.s[c], ds[c + 1], dO[c])]), LAMBDA grads :
            Written(grads, ds)))
  IN  Once(WithChunks(call, mem, y), LAMBDA x :
        Once(Tabulated([c \in 0..(x.n - 1) |-> Chunk4(mem.dout, ChunkAt(call, y, c), y % H, DV)]), LAMBDA dO :
          Of(x, dO)))

-----------------------------------------------------------------------------
(* The decoding step's reference: a sequence's tokens one at a time, in     *)
(* tensors the state is copied into.                                        *)
Step(call, in, r, s) ==
  LET Normed(x) == IF call.norm THEN L2norm(x).hat ELSE x
      Delta(aged, k) == Vector(DV, LAMBDA v : ((in.v[r][v] - Total(DK, LAMBDA d : aged[d][v] * k[d])) % P) * in.beta[r])
      Added(aged, k, delta) == Matrix(DK, DV, LAMBDA d, v : aged[d][v] + k[d] * delta[v])
      Of(next, q) == [s |-> next, out |-> Vector(DV, LAMBDA v : Total(DK, LAMBDA d : next[d][v] * q[d]))]
  IN  Both(RowTimes(Normed(in.q[r]), DK, call.scale), Normed(in.k[r]), LAMBDA q, k :
        Once(Matrix(DK, DV, LAMBDA d, v : s[d][v] * in.g[r]), LAMBDA aged :
          Once(Added(aged, k, Delta(aged, k)), LAMBDA next : Of(next, q))))

ReferenceSteps(call, mem, y) ==
  LET h == y % H
      Tokens(first, count) ==
        LET after[t \in 0..count] ==
              IF t = 0 THEN [s |-> [d \in 0..(DK - 1) |-> [v \in 0..(DV - 1) |-> mem.last[<<y, v>>][d]]],
                             out |-> Vector(DV, LAMBDA v : 0)]
              ELSE Once(after[t - 1].s, LAMBDA s : Step(call, mem.step, <<first + t - 1, h>>, s))
        IN  Tabulated(after)
      Written(first, after, count) ==
        [mem EXCEPT
           !.last = [yv \in DOMAIN @ |->
                       IF yv[1] = y THEN [d \in 0..(DK - 1) |-> after[count].s[d][yv[2]]] ELSE @[yv]],
           !.stepout = [rv \in DOMAIN @ |->
                          IF rv[1][2] = h /\ first <= rv[1][1] /\ rv[1][1] < first + count
                          THEN after[rv[1][1] - first + 1].out[rv[2]] ELSE @[rv]]]
      Of(first, count) == Once(Tokens(first, count), LAMBDA after : Written(first, after, count))
  IN  IF call.step.cu = <<>> THEN Of(y \div H, 1)
      ELSE Of(call.step.cu[y \div H + 1], call.step.cu[y \div H + 2] - call.step.cu[y \div H + 1])
=============================================================================
