------------------------------- MODULE Logprob -------------------------------
(***************************************************************************)
(* Log-probabilities and the fused cross-entropy of dash-ops                *)
(* (logprob/cube.rs, loss.rs) without the n x V logits: the vocabulary in   *)
(* chunks, the rows in blocks, an online log-sum-exp per row, and a second  *)
(* pass over the vocabulary where the first cannot give a gradient.         *)
(*                                                                          *)
(* Logits are small integers, so that a largest one is defined; everything  *)
(* else is a residue, and exp is to base 2.  The logarithm of a row's       *)
(* sum of exponentials is an arbitrary residue, m.lse[i], and Ln answers    *)
(* for the sum scaled by a power of two.                                    *)
(***************************************************************************)
EXTENDS Residues, SequencesExt

CeilDiv(a, b) == (a + b - 1) \div b

(* f32::MIN, whose exponential against any logit is 0.                      *)
Lowest == -1000
Far    == -500
Exp(x) == IF x < Far THEN 0 ELSE IF x >= 0 THEN Pow(2, x) ELSE Inv(Pow(2, 0 - x))

(* The infinities a row without a target gets, and what 0 times one is;     *)
(* residues are not negative.                                               *)
NegInf == -1
PosInf == -2
NaN    == -3

-----------------------------------------------------------------------------
(* The call: n rows of hidden and v of weight, d wide; chunk = <<small,     *)
(* large, bound>>, small below bound rows; masked a set of ids.             *)
VocabChunkFor(c, rows) == IF rows < c.chunk[3] THEN c.chunk[1] ELSE c.chunk[2]

Ranges(n, size) ==
  [i \in 1..CeilDiv(n, size) |-> <<(i - 1) * size, IF i * size < n THEN i * size ELSE n>>]

RowBlocks(c) ==
  LET blocks == Max({CeilDiv(c.n, c.rowchunk), 1})
  IN  Ranges(c.n, Max({CeilDiv(c.n, blocks), 1}))

Sorted(c) == SetToSortSeq(c.masked, LAMBDA x, y : x < y)

(* The sorted masked ids of a chunk, and the search among them.             *)
PartitionPoint(c, x) == Cardinality({id \in c.masked : id < x})
(* Mutant: an id masked in a chunk's last column is left to the next.       *)
MaskedRangeShort(c, l) == <<PartitionPoint(c, l.c0), PartitionPoint(c, l.c1 - 1)>>
MaskedRange(c, l)    == <<PartitionPoint(c, l.c0), PartitionPoint(c, l.c1)>>
IsMasked(c, l, id) ==
  LET range == MaskedRange(c, l)
      lo == range[1] + Cardinality({k \in (range[1] + 1)..range[2] : Sorted(c)[k] < id})
  IN  lo < range[2] /\ Sorted(c)[lo + 1] = id

(* The logit of row i and token j, a signed integer.                        *)
Logit(c, m, i, j) ==
  LET sum[k \in 0..c.d] ==
        IF k = 0 THEN 0 ELSE sum[k - 1] + m.hidden[i][k - 1] * m.weight[j][k - 1]
  IN  sum[c.d]

(* The sum of f over the tokens of a launch's chunk that are ok.            *)
Over(l, ok(_), f(_)) ==
  Total(l.c1 - l.c0, LAMBDA k : IF ok(l.c0 + k) THEN f(l.c0 + k) ELSE 0)

Ln(m, i, s) ==
  IF \E k \in -40..40 : (s * Exp(k)) % P = m.z[i]
  THEN (m.lse[i] - CHOOSE k \in -40..40 : (s * Exp(k)) % P = m.z[i]) % P
  ELSE 0

(* The exponential of a logit less the row's log-sum-exp.                   *)
ExpLess(m, i, x) ==
  LET y == (x + m.lse[i]) % P
      k == IF y > P \div 2 THEN y - P ELSE y
  IN  IF k \in -40..40 THEN (Exp(k) * Inv(m.z[i])) % P ELSE 0

Nothing == [m |-> Lowest, s |-> 0, r |-> 0, a |-> 0, zt |-> 0, found |-> 0, alpha |-> 0, zsum |-> 0]

-----------------------------------------------------------------------------
(* The pass.  A launch is a kernel over the rows r0 to r1 - 1 and the       *)
(* tokens c0 to c1 - 1; cube row owns row r0 + row.                         *)
TargetColumn(c, l, i) ==
  IF l.c0 <= c.targets[i + 1] /\ c.targets[i + 1] < l.c1 THEN c.targets[i + 1] ELSE l.c1

(* Softmax weights in two parts for the matmul, the low parts below the     *)
(* high ones in one matrix, or in a matrix of their own.                    *)
High(c, x) == IF c.split THEN x - (x % 16) ELSE x
Low(c, x)  == IF c.split THEN x % 16 ELSE 0
Stacked(c, l) == c.split /\ 2 * (l.r1 - l.r0) <= c.stackrows

ChunkKernel(c, m, l, row) ==
  LET i   == l.r0 + row
      old == m.state[i]
      Counts(j) == ~IsMasked(c, l, j)
      target == TargetColumn(c, l, i)
      z    == [j \in l.c0..(l.c1 - 1) |-> Logit(c, m, i, j)]
      mnew == Max({old.m, Lowest} \cup {z[j] : j \in {k \in DOMAIN z : Counts(k)}})
      e(j) == Exp(z[j] - mnew)
      shift == old.m - mnew
      alpha == Exp(shift)
      IsTarget(j) == Counts(j) /\ j = target
      Other(j)    == Counts(j) /\ j # target
      kept == [j \in DOMAIN z |-> IF Other(j) THEN e(j) ELSE 0]
      low  == [j \in DOMAIN z |-> Low(c, kept[j])]
  IN  [m EXCEPT
         !.state[i] =
            [m |-> mnew,
             s |-> (old.s * alpha + Over(l, Counts, e)) % P,
             r |-> (old.r * alpha + Over(l, Other, e)) % P,
             a |-> (alpha * ((old.a + old.s * shift) % P)
                    + Over(l, Counts, LAMBDA j : e(j) * (z[j] - mnew))) % P,
             zt |-> (old.zt + Over(l, IsTarget, LAMBDA j : z[j])) % P,
             found |-> old.found + Over(l, IsTarget, LAMBDA j : 1),
             alpha |-> alpha,
             zsum |-> IF c.eps = 0 THEN old.zsum ELSE (old.zsum + Over(l, Counts, LAMBDA j : z[j])) % P],
         !.weights = [r \in DOMAIN @ |->
            IF r = row THEN [j \in DOMAIN z |-> High(c, kept[j])]
            ELSE IF Stacked(c, l) /\ r = l.r1 - l.r0 + row THEN low ELSE @[r]],
         !.weightslo[row] = IF Stacked(c, l) THEN @ ELSE low]

(* o = o alpha + weights . W, the matmul of the whole block before it.      *)
AccumulateKernel(c, m, l, row) ==
  LET i == l.r0 + row
      Product(w, k) == Over(l, LAMBDA j : TRUE, LAMBDA j : w[j] * m.weight[j][k])
      lo == IF ~c.split THEN [j \in l.c0..(l.c1 - 1) |-> 0]
            ELSE IF Stacked(c, l) THEN m.weights[l.r1 - l.r0 + row] ELSE m.weightslo[row]
  IN  [m EXCEPT !.o[i] = Vector(c.d, LAMBDA k :
         @[k] * m.state[i].alpha + Product(m.weights[row], k) + Product(lo, k))]

(* The log-probability, its entropy, and the gradient from o.               *)
FinishRowsKernel(c, m, i) ==
  LET st == m.state[i]
      ln == Ln(m, i, st.s)
  IN  [m EXCEPT
         !.logprob[i] = IF st.found > 0 THEN (st.zt - (st.m + ln)) % P ELSE NegInf,
         !.entropy[i] = (ln - st.a * Inv(st.s)) % P]

FinishGradKernel(c, m, i) ==
  LET st == m.state[i]
      t  == c.targets[i + 1]
      FromTarget(k) == IF st.found > 0 /\ t < c.v THEN st.r * m.weight[t][k] ELSE 0
  IN  [m EXCEPT !.o[i] = Vector(c.d, LAMBDA k : ((FromTarget(k) - @[k]) % P) * Inv(st.s))]

-----------------------------------------------------------------------------
(* The second pass: the gradient of a chunk of logits from the row's        *)
(* coefficients, for all rows when the weight's gradient is wanted, else    *)
(* for one block's at a time.                                               *)
GradientKernel(c, m, l, row) ==
  LET i  == l.r0 + row
      co == m.coef[i]
      Value(j) ==
        LET dz == (Logit(c, m, i, j) - co.lse) % P
        IN  IF IsMasked(c, l, j) THEN 0
            ELSE IF j = TargetColumn(c, l, i) THEN (co.target + co.uniform) % P
            ELSE (ExpLess(m, i, dz) * ((co.softmax - co.entropy * dz) % P) + co.uniform) % P
      at == IF c.wantw THEN i ELSE row
  IN  [m EXCEPT !.g[at] = [j \in l.c0..(l.c1 - 1) |-> Value(j)]]

AddRowsKernel(c, m, l, row) ==
  LET g == m.g[IF c.wantw THEN l.r0 + row ELSE row]
  IN  [m EXCEPT !.gradh[l.r0 + row] = Vector(c.d, LAMBDA k :
         @[k] + Over(l, LAMBDA j : TRUE, LAMBDA j : g[j] * m.weight[j][k]))]

(* The rows of the weight's gradient, a slice of the chunk at a time.       *)
WeightSlice(c, chunk) == Max({1, Min({2 * c.d, chunk})})

WriteWeightRows(c, m, l) ==
  [m EXCEPT !.gradw = [j \in DOMAIN @ |->
     IF l.c0 <= j /\ j < l.c1
     THEN Vector(c.d, LAMBDA k : Total(c.n, LAMBDA i : m.g[i][j] * m.hidden[i][k]))
     ELSE @[j]]]

-----------------------------------------------------------------------------
(* The loss's rows from the pass's, and the coefficients of the backward    *)
(* pass from them and the upstream gradients of loss, logprob and entropy,  *)
(* both as tensor operations over all rows.                                 *)
Classes(c)    == c.v - Cardinality(c.masked)
Counted(c, i) == c.targets[i + 1] # c.ignore

Finish(c, m) ==
  LET Row(i) ==
        LET st  == m.state[i]
            ln  == Ln(m, i, st.s)
            lse == (st.m + ln) % P
            found == st.found > 0
            base   == (1 - c.eps) * ((lse - st.zt) % P)
            smooth == IF c.eps # 0 THEN c.eps * ((lse - st.zsum * Inv(Classes(c))) % P) ELSE 0
            square == c.lambda * ((lse * lse) % P)
            Zeroed(x) == IF Counted(c, i) THEN x ELSE 0
        IN  [loss |-> Zeroed(IF c.eps # 1 /\ ~found THEN PosInf
                             ELSE ((IF c.eps # 1 THEN base ELSE 0) + smooth + square) % P),
             logprob |-> Zeroed(IF found THEN (st.zt - lse) % P ELSE NegInf),
             entropy |-> Zeroed((ln - st.a * Inv(st.s)) % P),
             lse |-> lse, q |-> (st.r * Inv(st.s)) % P, s |-> st.s,
             counted |-> Counted(c, i), found |-> found]
  IN  [m EXCEPT !.rows = [i \in DOMAIN @ |-> Row(i)]]

Coefficients(c, m) ==
  LET Of(i) ==
        LET row == m.rows[i]
            Up(k) == IF row.counted THEN m.up[i][k] ELSE 0
            gl == Up(1)
            gp == Up(2)
            ge == IF c.wantent THEN Up(3) ELSE 0
            zl == (2 * ((c.lambda * row.lse) % P)) % P
            first   == (gl - gp + gl * zl) % P
            minusP  == (1 - row.q) % P
            softmax == (first - ge * row.entropy) % P
            target  == (0 - row.q * first + ((gl * c.eps + gl * zl) % P)
                          - minusP * ((ge * (row.entropy + row.logprob)) % P)) % P
        IN  [lse |-> row.lse, softmax |-> softmax, entropy |-> ge,
             target |-> IF row.found THEN target ELSE 0,
             uniform |-> (0 - ((gl * c.eps) % P) * Inv(Classes(c))) % P]
  IN  [m EXCEPT !.coef = [i \in DOMAIN @ |-> Of(i)]]

(* The first pass's o gives the gradient of hidden alone.                   *)
Accumulates(c) == c.kind = "chosen" \/ (c.wanth /\ ~c.wantw /\ ~c.wantent)

VocabSum(c, m, k) ==
  (Total(c.v, LAMBDA j : m.weight[j][k])
   - Total(c.v, LAMBDA j : IF j \in c.masked THEN m.weight[j][k] ELSE 0)) % P

Clamped(c, t) == IF t < 0 THEN 0 ELSE IF t > c.v - 1 THEN c.v - 1 ELSE t

AccumulatedGrad(c, m) ==
  LET Row(i) ==
        LET co == m.coef[i]
        IN  Vector(c.d, LAMBDA k :
              m.o[i][k] * ((co.softmax * Inv(m.rows[i].s)) % P)
              + m.weight[Clamped(c, c.targets[i + 1])][k] * co.target
              + IF c.eps # 0 THEN VocabSum(c, m, k) * co.uniform ELSE 0)
  IN  [m EXCEPT !.gradh = [i \in DOMAIN @ |-> Row(i)]]

(* What the autodiff node of the log-probability passes on.                 *)
ChosenGrad(c, m) ==
  [m EXCEPT !.gradh = [i \in DOMAIN @ |-> Vector(c.d, LAMBDA k : m.o[i][k] * m.up[i][2])]]
=============================================================================
