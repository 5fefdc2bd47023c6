----------------------------- MODULE GatedDelta -----------------------------
(***************************************************************************)
(* The chunked gated delta rule of dash-ops in f32 kernels                 *)
(* (gated_delta/chunk/cube.rs), as what each kernel's cube reads from and  *)
(* writes to device memory: the plan of packed sequences' chunks, the     *)
(* chunks' own quantities, the state passed from chunk to chunk, the      *)
(* output, and backward the parts of each gradient and their sum.          *)
(*                                                                         *)
(* Memory is a record of buffers, each a function from the index of a      *)
(* chunk, a sequence or a row to what was last written there, Garbage      *)
(* before anything was: the buffers are allocated uninitialised.  Numbers  *)
(* are Residues.  The units of a cube are the subject of CubeMemory.       *)
(***************************************************************************)
EXTENDS Residues, Sequences, FiniteSetsExt

CONSTANTS
  CHUNK,    \* tokens per chunk, 64 in the code
  BLOCK,    \* rows of a block of T's inversion, 16 in the code
  GROUP,    \* sequences the plan's cube scans at a time, 256 in the code
  H,        \* heads
  DK, DV,   \* widths of the keys and of the values
  Garbage   \* what memory nobody has written holds

(* What Operations assumes of them.                                        *)
DeltaAssumption ==
  /\ {CHUNK, BLOCK, GROUP, H, DK, DV} \subseteq Nat \ {0}
  /\ CHUNK % BLOCK = 0

CeilDiv(a, b) == (a + b - 1) \div b

-----------------------------------------------------------------------------
(* The call: b batch elements of t tokens, or packed, one of them cut by   *)
(* the offsets cu (empty when not packed).  Rows of the inputs are tokens, *)
(* element after element.                                                  *)
Packed(call) == call.cu # <<>>
Seqs(call)   == IF Packed(call) THEN Len(call.cu) - 1 ELSE call.b

MaxChunks(t, seqs) == CeilDiv(t, CHUNK) + Max({seqs - 1, 0})
N(call) ==
  IF Packed(call) THEN MaxChunks(call.t, Seqs(call)) ELSE CeilDiv(call.t, CHUNK)

(* The cubes of a per-chunk launch, (b H + h) N + c.                       *)
PerChunk(call) == 0..(call.b * H * N(call) - 1)
ChunkOf(call, cube) == cube % N(call)
HeadOf(call, cube)  == (cube \div N(call)) % H
ElemOf(call, cube)  == (cube \div N(call)) \div H

(* The cubes of a state passing: a sequence and head, and a block of the   *)
(* state's columns, here one column.                                       *)
PerState(call) == (0..(Seqs(call) * H - 1)) \X (0..(DV - 1))

-----------------------------------------------------------------------------
(* The plan of packed sequences' chunks, by one cube over groups of        *)
(* sequences.                                                              *)
Clamp(x, lo, hi) == IF x < lo THEN lo ELSE IF x > hi THEN hi ELSE x

Start(call, s)  == Clamp(call.cu[s + 1], 0, call.t)
(* Mutant: boundaries out of order make a negative length.                  *)
LengthSigned(call, s) == Clamp(call.cu[s + 2], 0, call.t) - Start(call, s)
Length(call, s) == Max({Clamp(call.cu[s + 2], 0, call.t) - Start(call, s), 0})
Chunks(call, s) == CeilDiv(Length(call, s), CHUNK)

(* The inclusive scan of a group's counts: every lane adds what the lane a  *)
(* step before it has, the step doubling while it is below GROUP.           *)
Stepped(x, step) == [i \in DOMAIN x |-> x[i] + IF i >= step THEN x[i - step] ELSE 0]

Scan(counts) ==
  LET turn[k \in 0..GROUP] ==       \* the counts and the step after k turns
        IF k = 0 THEN <<counts, 1>>
        ELSE LET x == turn[k - 1]
             IN  IF x[2] < GROUP THEN <<Stepped(x[1], x[2]), 2 * x[2]>> ELSE x
  IN  turn[GROUP][1]

Lane(call, group, i) ==
  LET s == group * GROUP + i IN IF s < Seqs(call) THEN Chunks(call, s) ELSE 0

GroupScan(call, group) == Scan([i \in 0..(GROUP - 1) |-> Lane(call, group, i)])

(* The chunks of the groups before.                                        *)
Before(call, group) ==
  LET total[g \in 0..group] ==
        IF g = 0 THEN 0 ELSE total[g - 1] + GroupScan(call, g - 1)[GROUP - 1]
  IN  total[group]

First(call, s) ==
  Before(call, s \div GROUP) + GroupScan(call, s \div GROUP)[s % GROUP] - Chunks(call, s)

PlanKernel(call, mem) ==
  LET cap   == N(call)
      S     == Seqs(call)
      total == Before(call, CeilDiv(S, GROUP))
      Owner(c) == {s \in 0..(S - 1) :
                     First(call, s) <= c /\ c < First(call, s) + Chunks(call, s)}
      Entry(c) ==
        IF c >= total THEN <<0, 0>>
        ELSE LET s == CHOOSE s \in Owner(c) : TRUE
                 j == c - First(call, s)
             IN  <<Start(call, s) + CHUNK * j, Min({Length(call, s) - CHUNK * j, CHUNK})>>
  IN  [mem EXCEPT !.offsets = [s \in 0..S |->
                                 Min({IF s < S THEN First(call, s) ELSE total, cap})],
                  !.plan = [c \in 0..(cap - 1) |-> Entry(c)]]

(* A chunk's first row and count of tokens.                                *)
ChunkTokens(call, mem, cube) ==
  LET c == ChunkOf(call, cube)
  IN  IF Packed(call) THEN mem.plan[c]
      ELSE <<ElemOf(call, cube) * call.t + c * CHUNK, Min({call.t - c * CHUNK, CHUNK})>>

Skipped(call, mem, cube) == Packed(call) /\ ChunkTokens(call, mem, cube)[2] = 0

(* The chunks a state passing walks: the first one's number and how many.  *)
StateChunks(call, mem, y) ==
  IF Packed(call)
  THEN <<(y % H) * N(call) + mem.offsets[y \div H],
         mem.offsets[y \div H + 1] - mem.offsets[y \div H]>>
  ELSE <<y * N(call), N(call)>>

-----------------------------------------------------------------------------
(* What the kernels load of a chunk.  Rows past its count are zero, their  *)
(* decay 1 and their beta 0.                                               *)
Eps == 1     \* under the square root of the l2 norm, 1e-6 in the code

RowTimes(x, depth, factor) == Vector(depth, LAMBDA d : x[d] * factor)
LoadRow(x, depth, scale, norm) ==
  RowTimes(x, depth, IF norm THEN (scale * Inv(Root((Dot(depth, x, x) + Eps) % P))) % P ELSE scale)

RowsOf(chunk, h, src, depth, scale, norm) ==
  Tabulated([i \in 0..(CHUNK - 1) |->
               LoadRow(IF i < chunk[2] THEN src[<<chunk[1] + i, h>>] ELSE Vector(depth, LAMBDA d : 0),
                       depth, scale, norm)])

LoadRows(call, mem, cube, src, depth, scale, norm) ==
  RowsOf(ChunkTokens(call, mem, cube), HeadOf(call, cube), src, depth, scale, norm)

Keys(call, mem, cube)    == LoadRows(call, mem, cube, mem.k, DK, 1, call.norm)
Queries(call, mem, cube) == LoadRows(call, mem, cube, mem.q, DK, call.scale, call.norm)
Values(call, mem, cube)  == LoadRows(call, mem, cube, mem.v, DV, 1, FALSE)
OutGrads(call, mem, cube) == LoadRows(call, mem, cube, mem.dout, DV, 1, FALSE)

PerRow(call, mem, cube, src, past) ==
  LET Of(chunk) == [i \in 0..(CHUNK - 1) |->
                      IF i < chunk[2] THEN src[<<chunk[1] + i, HeadOf(call, cube)>>] ELSE past]
  IN  Of(ChunkTokens(call, mem, cube))

Beta(call, mem, cube) == PerRow(call, mem, cube, mem.beta, 0)

(* exp(G_i), G the gate summed from the chunk's first row: the inputs hold *)
(* exp(g).                                                                 *)
Products(a) ==
  LET product[i \in 0..(CHUNK - 1)] == IF i = 0 THEN a[0] ELSE (product[i - 1] * a[i]) % P
  IN  product
Gamma(call, mem, cube) == Products(PerRow(call, mem, cube, mem.g, 1))

(* exp(G_i - G_j).                                                         *)
Decay(gamma, i, j) == (gamma[i] * Inv(gamma[j])) % P

LastRow == CHUNK - 1

-----------------------------------------------------------------------------
(* A = beta_i (k_i . k_j) exp(G_i - G_j) below the diagonal.               *)
AMatrix(keys, beta, gamma) ==
  Matrix(CHUNK, CHUNK, LAMBDA i, j :
    IF i > j THEN ((beta[i] * Dot(DK, keys[i], keys[j])) % P) * Decay(gamma, i, j) ELSE 0)

(* T = (I + A)^-1, its diagonal blocks by forward substitution, a column   *)
(* at a time, then each block row from the rows above it.                  *)
Block(i) == i \div BLOCK

DiagonalBlocks(a) ==
  LET t[ij \in (0..LastRow) \X (0..LastRow)] ==
        LET i == ij[1]
            j == ij[2]
        IN  IF i < j \/ Block(i) # Block(j) THEN 0
            ELSE IF i = j THEN 1
            ELSE (0 - a[i][j] - Total(i - j - 1, LAMBDA l : a[i][j + 1 + l] * t[<<j + 1 + l, j>>])) % P
  IN  t

Inverted(a) ==
  LET diagonal == DiagonalBlocks(a)
      (* The rows of the blocks above r, and the products A T over them.   *)
      rows[r \in Nat] ==
        IF r = 0 THEN diagonal
        ELSE LET t == rows[r - 1]
                 X(l, j) == Total((r - Block(j)) * BLOCK,
                                  LAMBDA m : a[r * BLOCK + l][Block(j) * BLOCK + m]
                                             * t[<<Block(j) * BLOCK + m, j>>])
             IN  [ij \in DOMAIN t |->
                    IF Block(ij[1]) = r /\ Block(ij[2]) < r
                    THEN (0 - Total(BLOCK, LAMBDA l : t[<<ij[1], r * BLOCK + l>>] * X(l, ij[2]))) % P
                    ELSE t[ij]]
      t == rows[Block(LastRow)]
  IN  Matrix(CHUNK, CHUNK, LAMBDA i, j : t[<<i, j>>])

(* W = T (beta gamma K) and U = T (beta V).                                *)
WMatrix(t, keys, beta, gamma) ==
  Matrix(CHUNK, DK, LAMBDA i, d :
    Total(CHUNK, LAMBDA j : ((t[i][j] * beta[j]) % P) * ((gamma[j] * keys[j][d]) % P)))
UMatrix(t, values, beta) ==
  Matrix(CHUNK, DV, LAMBDA i, d :
    Total(CHUNK, LAMBDA j : ((t[i][j] * beta[j]) % P) * values[j][d]))

(* Per chunk, what does not depend on the state; T and A kept for the      *)
(* backward pass.                                                          *)
PrepKernel(call, mem, cube, store) ==
  IF Skipped(call, mem, cube) THEN mem
  ELSE
    LET keys  == Keys(call, mem, cube)
        beta  == Beta(call, mem, cube)
        gamma == Gamma(call, mem, cube)
        a     == AMatrix(keys, beta, gamma)
        t     == Inverted(a)
    IN  [mem EXCEPT
           !.gamma[cube] = gamma,
           !.w[cube]  = WMatrix(t, keys, beta, gamma),
           !.u[cube]  = UMatrix(t, Values(call, mem, cube), beta),
           !.kt[cube] = Matrix(CHUNK, DK, LAMBDA i, d : keys[i][d] * Decay(gamma, LastRow, i)),
           !.tmat[cube] = IF store THEN t ELSE @,
           !.amat[cube] = IF store THEN a ELSE @]

(* exp(G_last) of every chunk, by Burn's own operations.                   *)
StateDecay(call, mem) ==
  [mem EXCEPT !.gl = [c \in PerChunk(call) |->
                        IF mem.gamma[c] = Garbage THEN Garbage ELSE mem.gamma[c][LastRow]]]

-----------------------------------------------------------------------------
(* The state passing, forward.  Cube <<y, v>> carries column v of the      *)
(* state of sequence and head y through its chunks: before each it stores  *)
(* the column entering, then V' = U - W S and S = exp(G_last) S + kt^T V'. *)
NewValues(w, u, s, v) ==
  [i \in 0..LastRow |-> (u[i][v] - Dot(DK, w[i], s)) % P]
(* Mutant: what the chunk adds decays with the state it is added to.        *)
PassedDecaying(kt, gl, s, vnew) ==
  Vector(DK, LAMBDA k : gl * ((s[k] + Total(CHUNK, LAMBDA i : kt[i][k] * vnew[i])) % P))
Passed(kt, gl, s, vnew) ==
  Vector(DK, LAMBDA k : gl * s[k] + Total(CHUNK, LAMBDA i : kt[i][k] * vnew[i]))

StateForwardKernel(call, mem, cube) ==
  LET y == cube[1]
      v == cube[2]
      base == StateChunks(call, mem, y)[1]
      n    == StateChunks(call, mem, y)[2]
      VNew(c, s) == NewValues(mem.w[c], mem.u[c], s, v)
      column[c \in 0..n] ==
        IF c = 0 THEN Vector(DK, LAMBDA k : mem.h0[y][k][v])
        ELSE LET chunk == base + c - 1
                 s     == column[c - 1]
             IN  Passed(mem.kt[chunk], mem.gl[chunk], s, VNew(chunk, s))
      Walked == base..(base + n - 1)
  IN  [mem EXCEPT
         !.states = [cv \in DOMAIN @ |-> IF cv[1] \in Walked /\ cv[2] = v
                                         THEN column[cv[1] - base] ELSE @[cv]],
         !.vnew   = [cv \in DOMAIN @ |-> IF cv[1] \in Walked /\ cv[2] = v
                                         THEN VNew(cv[1], column[cv[1] - base]) ELSE @[cv]],
         !.last[cube] = column[n]]

-----------------------------------------------------------------------------
(* The buffers of per-column blocks hold a column in each cell; as rows.   *)
StateOf(mem, cube, k, v)  == mem.states[<<cube, v>>][k]
VNewOf(mem, cube, i, v)   == mem.vnew[<<cube, v>>][i]
DNextOf(mem, cube, k, v)  == mem.dsnext[<<cube, v>>][k]
DVNewOf(mem, cube, i, v)  == mem.dvn[<<cube, v>>][i]

(* P = (Q K^T) exp(G_i - G_j) on and below the diagonal.                   *)
PMatrix(queries, keys, gamma) ==
  Matrix(CHUNK, CHUNK, LAMBDA i, j :
    IF i >= j THEN Dot(DK, queries[i], keys[j]) * Decay(gamma, i, j) ELSE 0)

(* Writes the rows of a chunk below its count into a buffer of rows.       *)
RowsSet(buffer, chunk, h, f(_)) ==
  [r \in DOMAIN buffer |->
     IF r[2] = h /\ chunk[1] <= r[1] /\ r[1] < chunk[1] + chunk[2]
     THEN f(r[1] - chunk[1]) ELSE buffer[r]]

WriteRows(call, mem, cube, buffer, f(_)) ==
  RowsSet(buffer, ChunkTokens(call, mem, cube), HeadOf(call, cube), f)

(* O = (gamma Q) S + P V'.                                                 *)
OutputKernel(call, mem, cube) ==
  IF Skipped(call, mem, cube) THEN mem
  ELSE
    LET q == Queries(call, mem, cube)
        p == PMatrix(q, Keys(call, mem, cube), mem.gamma[cube])
        Row(i) == Vector(DV, LAMBDA v :
          mem.gamma[cube][i] * Total(DK, LAMBDA k : q[i][k] * StateOf(mem, cube, k, v))
          + Total(CHUNK, LAMBDA j : p[i][j] * VNewOf(mem, cube, j, v)))
    IN  [mem EXCEPT !.out = WriteRows(call, mem, cube, @, Row)]

-----------------------------------------------------------------------------
(* Backward, per chunk: dv_local = P^T dO, qg = gamma Q, and dO by chunks. *)
DvLocalKernel(call, mem, cube) ==
  IF Skipped(call, mem, cube) THEN mem
  ELSE
    LET q == Queries(call, mem, cube)
        p == PMatrix(q, Keys(call, mem, cube), mem.gamma[cube])
        dO == OutGrads(call, mem, cube)
    IN  [mem EXCEPT
           !.qg[cube] = Matrix(CHUNK, DK, LAMBDA i, d : q[i][d] * mem.gamma[cube][i]),
           !.dO[cube] = dO,
           !.dvlocal[cube] = Matrix(CHUNK, DV, LAMBDA j, v :
                               Total(CHUNK, LAMBDA i : p[i][j] * dO[i][v]))]

(* The state passing, backward: from the last chunk, store dS leaving it,  *)
(* dV' = kt dS + dv_local, dS = exp(G_last) dS + qg^T dO - W^T dV'.        *)
StateBackwardKernel(call, mem, cube) ==
  LET y == cube[1]
      v == cube[2]
      base == StateChunks(call, mem, y)[1]
      n    == StateChunks(call, mem, y)[2]
      DVNew(c, ds) == [i \in 0..LastRow |-> (Dot(DK, mem.kt[c][i], ds) + mem.dvlocal[c][i][v]) % P]
      column[c \in 0..n] ==      \* dS entering the state after chunk base + c
        IF c = n THEN Vector(DK, LAMBDA k : mem.dlast[y][k][v])
        ELSE LET chunk == base + c
                 ds    == column[c + 1]
                 dvn   == DVNew(chunk, ds)
             IN  Vector(DK, LAMBDA k :
                   mem.gl[chunk] * ds[k]
                   + Total(CHUNK, LAMBDA i : mem.qg[chunk][i][k] * mem.dO[chunk][i][v])
                   - Total(CHUNK, LAMBDA i : mem.w[chunk][i][k] * dvn[i]))
      Walked == base..(base + n - 1)
  IN  [mem EXCEPT
         !.dsnext = [cv \in DOMAIN @ |-> IF cv[1] \in Walked /\ cv[2] = v
                                         THEN column[cv[1] - base + 1] ELSE @[cv]],
         !.dvn    = [cv \in DOMAIN @ |-> IF cv[1] \in Walked /\ cv[2] = v
                                         THEN DVNew(cv[1], column[cv[1] - base + 1]) ELSE @[cv]],
         !.dfirst[cube] = column[0]]

(* dV_b = T^T dV', the values' gradient dV_b beta, and sum_v dV_b V, a     *)
(* part of beta's.                                                         *)
DvbKernel(call, mem, cube) ==
  IF Skipped(call, mem, cube) THEN mem
  ELSE
    LET dvb  == Matrix(CHUNK, DV, LAMBDA j, v :
                  Total(CHUNK, LAMBDA i : mem.tmat[cube][i][j] * DVNewOf(mem, cube, i, v)))
        beta == Beta(call, mem, cube)
        vals == Values(call, mem, cube)
    IN  [mem EXCEPT
           !.dvb[cube]   = dvb,
           !.dv          = WriteRows(call, mem, cube, @, LAMBDA j : Vector(DV, LAMBDA v : dvb[j][v] * beta[j])),
           !.dbetav[cube] = Vector(CHUNK, LAMBDA j : Dot(DV, dvb[j], vals[j]))]

(* dQg = dO S^T, dkt = V' dS^T, dKbg = -dV_b S^T and <S, dS>, over every   *)
(* chunk: past the last, from memory nobody wrote to memory nobody reads.  *)
DStateKernel(call, mem, cube) ==
  IF mem.dO[cube] = Garbage THEN mem
  ELSE [mem EXCEPT
          !.dqg[cube]  = Matrix(CHUNK, DK, LAMBDA i, k :
                           Total(DV, LAMBDA v : mem.dO[cube][i][v] * StateOf(mem, cube, k, v))),
          !.dkt[cube]  = Matrix(CHUNK, DK, LAMBDA i, k :
                           Total(DV, LAMBDA v : VNewOf(mem, cube, i, v) * DNextOf(mem, cube, k, v))),
          !.dkbg[cube] = Matrix(CHUNK, DK, LAMBDA i, k :
                           0 - Total(DV, LAMBDA v : mem.dvb[cube][i][v] * StateOf(mem, cube, k, v))),
          !.sds[cube]  = Total(DK, LAMBDA k : Total(DV, LAMBDA v :
                           StateOf(mem, cube, k, v) * DNextOf(mem, cube, k, v)))]

(* A gate's part from a matrix of its decays: row sums less column sums.   *)
RowsLessColumns(m) ==
  Vector(CHUNK, LAMBDA i : Total(CHUNK, LAMBDA x : m[i][x]) - Total(CHUNK, LAMBDA x : m[x][i]))

(* The attention part: dP = dO V'^T, dQ = dPe K, dK = dPe^T Q, with        *)
(* dPe = dP exp(G_i - G_j).                                                *)
DAttnKernel(call, mem, cube) ==
  IF Skipped(call, mem, cube) THEN mem
  ELSE
    LET gamma == mem.gamma[cube]
        q  == Queries(call, mem, cube)
        k  == Keys(call, mem, cube)
        dP == Matrix(CHUNK, CHUNK, LAMBDA i, j :
                IF i >= j THEN Total(DV, LAMBDA v : mem.dO[cube][i][v] * VNewOf(mem, cube, j, v)) ELSE 0)
        dPe == Matrix(CHUNK, CHUNK, LAMBDA i, j : IF i >= j THEN dP[i][j] * Decay(gamma, i, j) ELSE 0)
    IN  [mem EXCEPT
           !.dgp[cube] = RowsLessColumns(
                           Matrix(CHUNK, CHUNK, LAMBDA i, j : dPe[i][j] * Dot(DK, q[i], k[j]))),
           !.dqattn[cube] = Matrix(CHUNK, DK, LAMBDA i, d : Total(CHUNK, LAMBDA j : dPe[i][j] * k[j][d])),
           !.dkattn[cube] = Matrix(CHUNK, DK, LAMBDA j, d : Total(CHUNK, LAMBDA i : dPe[i][j] * q[i][d]))]

(* The WY part: dA = -(dV_b U^T + dKbg W^T) below the diagonal, and what A *)
(* passes on to the keys, to beta and to the gate.                         *)
DWyKernel(call, mem, cube) ==
  IF Skipped(call, mem, cube) THEN mem
  ELSE
    LET gamma == mem.gamma[cube]
        beta  == Beta(call, mem, cube)
        k  == Keys(call, mem, cube)
        dA == Matrix(CHUNK, CHUNK, LAMBDA i, j :
                IF i > j THEN 0 - Dot(DV, mem.dvb[cube][i], mem.u[cube][j])
                                - Dot(DK, mem.dkbg[cube][i], mem.w[cube][j])
                ELSE 0)
        dAe == Matrix(CHUNK, CHUNK, LAMBDA i, j : IF i > j THEN dA[i][j] * Decay(gamma, i, j) ELSE 0)
        rows == Matrix(CHUNK, DK, LAMBDA i, d : Total(CHUNK, LAMBDA j : dAe[i][j] * k[j][d]))
        cols == Matrix(CHUNK, DK, LAMBDA j, d :
                  Total(CHUNK, LAMBDA i : ((dAe[i][j] * beta[i]) % P) * k[i][d]))
    IN  [mem EXCEPT
           !.dga[cube]    = RowsLessColumns(Matrix(CHUNK, CHUNK, LAMBDA i, j :
                              IF i > j THEN dA[i][j] * mem.amat[cube][i][j] ELSE 0)),
           !.dka[cube]    = Matrix(CHUNK, DK, LAMBDA r, d : rows[r][d] * beta[r] + cols[r][d]),
           !.dbetaa[cube] = Vector(CHUNK, LAMBDA r : Dot(DK, rows[r], k[r]))]

-----------------------------------------------------------------------------
(* The gradient of x from that of its normalised self.                     *)
ThroughNorm(call, x, dhat) ==
  LET inv == IF call.norm THEN Inv(Root((Dot(DK, x, x) + Eps) % P)) ELSE 1
      hat == Vector(DK, LAMBDA d : x[d] * inv)
      p   == Dot(DK, hat, dhat)
  IN  IF call.norm THEN Vector(DK, LAMBDA d : inv * ((dhat[d] - hat[d] * p) % P)) ELSE dhat

(* Mutant: the tail goes to the first row.                                  *)
ReverseSumTailFirst(x, tail) ==
  LET sum[i \in 0..LastRow] == IF i = LastRow THEN x[i] % P ELSE (x[i] + sum[i + 1]) % P
  IN  [i \in 0..LastRow |-> IF i = 0 THEN (sum[0] + tail) % P ELSE sum[i]]

(* The sum from the last row down, the chunk's last row taking the tail.   *)
ReverseSum(x, tail) ==
  LET sum[i \in 0..LastRow] ==
        IF i = LastRow THEN (x[i] + tail) % P ELSE (x[i] + sum[i + 1]) % P
  IN  sum

(* The parts' sum: the queries', keys', gate's and beta's gradients.       *)
CombineKernel(call, mem, cube) ==
  IF Skipped(call, mem, cube) THEN mem
  ELSE
    LET gamma == mem.gamma[cube]
        beta  == Beta(call, mem, cube)
        rawq  == LoadRows(call, mem, cube, mem.q, DK, 1, FALSE)
        rawk  == LoadRows(call, mem, cube, mem.k, DK, 1, FALSE)
        q     == Queries(call, mem, cube)
        k     == Keys(call, mem, cube)
        lam(i) == Decay(gamma, LastRow, i)
        sqg(i) == Dot(DK, mem.dqg[cube][i], q[i])
        sbg(i) == Dot(DK, mem.dkbg[cube][i], k[i])
        lamdlam(i) == lam(i) * Dot(DK, mem.dkt[cube][i], k[i])
        dqh(i) == Vector(DK, LAMBDA d :
                    ((mem.dqg[cube][i][d] * gamma[i] + mem.dqattn[cube][i][d]) % P) * call.scale)
        dkk(i) == Vector(DK, LAMBDA d :
                    mem.dkattn[cube][i][d] + mem.dkt[cube][i][d] * lam(i)
                    + mem.dkbg[cube][i][d] * ((beta[i] * gamma[i]) % P) + mem.dka[cube][i][d])
        rg == Vector(CHUNK, LAMBDA i :
                mem.dgp[cube][i] + mem.dga[cube][i]
                + ((sqg(i) + beta[i] * sbg(i)) % P) * gamma[i] - lamdlam(i))
        tail == gamma[LastRow] * mem.sds[cube] + Total(CHUNK, lamdlam)
        dg   == ReverseSum(rg, tail)
    IN  [mem EXCEPT
           !.dq = WriteRows(call, mem, cube, @, LAMBDA i : ThroughNorm(call, rawq[i], dqh(i))),
           !.dk = WriteRows(call, mem, cube, @, LAMBDA i : ThroughNorm(call, rawk[i], dkk(i))),
           !.dg = WriteRows(call, mem, cube, @, LAMBDA i : dg[i]),
           !.dbeta = WriteRows(call, mem, cube, @, LAMBDA i :
                       (mem.dbetav[cube][i] + gamma[i] * sbg(i) + mem.dbetaa[cube][i]) % P)]
=============================================================================
