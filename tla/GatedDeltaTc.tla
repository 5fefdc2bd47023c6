---------------------------- MODULE GatedDeltaTc ----------------------------
(***************************************************************************)
(* The chunked gated delta rule on tensor cores (gated_delta/chunk/cube/    *)
(* tc.rs): the same quantities as GatedDelta's kernels through fewer        *)
(* launches.  It differs in what passes between them: the keys are kept as  *)
(* they are and the decay exp(G_last - G) is folded into V' and dV'; T is   *)
(* kept from the forward pass for the backward one; the backward parts are  *)
(* summed in two kernels, which pass the keys' gradient without its WY      *)
(* part, and per token and chunk three sums.                                *)
(***************************************************************************)
EXTENDS DeltaRule

(* G, W, U and the keys from T; T from A, or the one the forward pass kept.  *)
FromT(call, mem, cube, t) ==
  LET keys  == Keys(call, mem, cube)
      beta  == Beta(call, mem, cube)
      gamma == Gamma(call, mem, cube)
  IN  [mem EXCEPT
         !.gamma[cube] = gamma,
         !.w[cube]  = WMatrix(t, keys, beta, gamma),
         !.u[cube]  = UMatrix(t, Values(call, mem, cube), beta),
         !.kn[cube] = keys]

TcPrepKernel(call, mem, cube, store) ==
  IF Skipped(call, mem, cube) THEN mem
  ELSE LET t == Inverted(AMatrix(Keys(call, mem, cube), Beta(call, mem, cube),
                                 Gamma(call, mem, cube)))
       IN  [FromT(call, mem, cube, t) EXCEPT !.tmat[cube] = IF store THEN t ELSE @]

TcWuKernel(call, mem, cube) ==
  IF Skipped(call, mem, cube) THEN mem ELSE FromT(call, mem, cube, mem.tmat[cube])

Lam(mem, c, i) == Decay(mem.gamma[c], LastRow, i)
GLast(mem, c)  == mem.gamma[c][LastRow]

-----------------------------------------------------------------------------
(* S = exp(G_last) S + K^T (lam V').                                        *)
TcStateForwardKernel(call, mem, cube) ==
  LET y == cube[1]
      v == cube[2]
      base == StateChunks(call, mem, y)[1]
      n    == StateChunks(call, mem, y)[2]
      VNew(c, s) == NewValues(mem.w[c], mem.u[c], s, v)
      column[c \in 0..n] ==
        IF c = 0 THEN Vector(DK, LAMBDA k : mem.h0[y][k][v])
        ELSE LET chunk == base + c - 1
                 s     == column[c - 1]
                 folded == Vector(CHUNK, LAMBDA i : VNew(chunk, s)[i] * Lam(mem, chunk, i))
             IN  Passed(mem.kn[chunk], GLast(mem, chunk), s, folded)
      Walked == base..(base + n - 1)
  IN  [mem EXCEPT
         !.states = [cv \in DOMAIN @ |-> IF cv[1] \in Walked /\ cv[2] = v
                                         THEN column[cv[1] - base] ELSE @[cv]],
         !.vnew   = [cv \in DOMAIN @ |-> IF cv[1] \in Walked /\ cv[2] = v
                                         THEN VNew(cv[1], column[cv[1] - base]) ELSE @[cv]],
         !.last[cube] = column[n]]

(* P^T dO, and with the norm the factor of each row of the queries, from    *)
(* which the state passing forms gamma Q of the raw queries.                *)
RawQueries(call, mem, cube) == LoadRows(call, mem, cube, mem.q, DK, 1, FALSE)
Factor(call, x) == call.scale * Inv(Root((Dot(DK, x, x) + Eps) % P))

TcDvLocalKernel(call, mem, cube) ==
  IF Skipped(call, mem, cube) THEN mem
  ELSE
    LET p  == PMatrix(Queries(call, mem, cube), Keys(call, mem, cube), mem.gamma[cube])
        dO == OutGrads(call, mem, cube)
        raw == RawQueries(call, mem, cube)
    IN  [mem EXCEPT
           !.dvlocal[cube] = Matrix(CHUNK, DV, LAMBDA j, v :
                               Total(CHUNK, LAMBDA i : p[i][j] * dO[i][v])),
           !.qfactor[cube] = IF call.norm THEN Vector(CHUNK, LAMBDA i : Factor(call, raw[i]))
                                          ELSE @]

(* dV' = lam (K dS) + dv_local.  The rows of a chunk's queries and of dO    *)
(* are found from the chunk's place in the plan.                            *)
TcStateBackwardKernel(call, mem, cube) ==
  LET y == cube[1]
      v == cube[2]
      base == StateChunks(call, mem, y)[1]
      n    == StateChunks(call, mem, y)[2]
      QGamma(c) ==
        LET raw == RawQueries(call, mem, c)
            f(i) == IF call.norm THEN mem.qfactor[c][i] ELSE call.scale
        IN  Matrix(CHUNK, DK, LAMBDA i, k : ((raw[i][k] * f(i)) % P) * mem.gamma[c][i])
      DVNew(c, ds) == [i \in 0..LastRow |->
        (Lam(mem, c, i) * Dot(DK, mem.kn[c][i], ds) + mem.dvlocal[c][i][v]) % P]
      column[c \in 0..n] ==
        IF c = n THEN Vector(DK, LAMBDA k : mem.dlast[y][k][v])
        ELSE LET chunk == base + c
                 ds    == column[c + 1]
                 dvn   == DVNew(chunk, ds)
                 qg    == QGamma(chunk)
                 dO    == OutGrads(call, mem, chunk)
             IN  Vector(DK, LAMBDA k :
                   GLast(mem, chunk) * ds[k]
                   + Total(CHUNK, LAMBDA i : qg[i][k] * dO[i][v])
                   - Total(CHUNK, LAMBDA i : mem.w[chunk][i][k] * dvn[i]))
      Walked == base..(base + n - 1)
  IN  [mem EXCEPT
         !.dsnext = [cv \in DOMAIN @ |-> IF cv[1] \in Walked /\ cv[2] = v
                                         THEN column[cv[1] - base + 1] ELSE @[cv]],
         !.dvn    = [cv \in DOMAIN @ |-> IF cv[1] \in Walked /\ cv[2] = v
                                         THEN DVNew(cv[1], column[cv[1] - base + 1]) ELSE @[cv]],
         !.dfirst[cube] = column[0]]

-----------------------------------------------------------------------------
(* Everything but the WY part.  The queries are unscaled here, so scale     *)
(* enters dPe, and the sums and products with dQg.                          *)
TcDqkKernel(call, mem, cube) ==
  IF Skipped(call, mem, cube) THEN mem
  ELSE
    LET gamma == mem.gamma[cube]
        beta  == Beta(call, mem, cube)
        q     == LoadRows(call, mem, cube, mem.q, DK, 1, call.norm)
        k     == Keys(call, mem, cube)
        dO    == OutGrads(call, mem, cube)
        vals  == Values(call, mem, cube)
        (* over the values' columns, a block at a time                      *)
        dvb  == Matrix(CHUNK, DV, LAMBDA j, v :
                  Total(CHUNK, LAMBDA i : mem.tmat[cube][i][j] * DVNewOf(mem, cube, i, v)))
        dqg  == Matrix(CHUNK, DK, LAMBDA i, d : Total(DV, LAMBDA v : dO[i][v] * StateOf(mem, cube, d, v)))
        dkt  == Matrix(CHUNK, DK, LAMBDA i, d :
                  Total(DV, LAMBDA v : VNewOf(mem, cube, i, v) * DNextOf(mem, cube, d, v)))
        dkbg == Matrix(CHUNK, DK, LAMBDA i, d :
                  0 - Total(DV, LAMBDA v : dvb[i][v] * StateOf(mem, cube, d, v)))
        sds  == Total(DK, LAMBDA d : Total(DV, LAMBDA v :
                  StateOf(mem, cube, d, v) * DNextOf(mem, cube, d, v)))
        dPe  == Matrix(CHUNK, CHUNK, LAMBDA i, j :
                  IF i >= j
                  THEN ((Total(DV, LAMBDA v : dO[i][v] * VNewOf(mem, cube, j, v))
                         * Decay(gamma, i, j)) % P) * call.scale
                  ELSE 0)
        gate == RowsLessColumns(Matrix(CHUNK, CHUNK, LAMBDA i, j : dPe[i][j] * Dot(DK, q[i], k[j])))
        (* sums per row                                                     *)
        bg(i) == Dot(DK, dkbg[i], k[i])
        kt(i) == Dot(DK, dkt[i], k[i])
        qg(i) == Dot(DK, dqg[i], q[i])
        dqn(i) == Vector(DK, LAMBDA d :
                    dqg[i][d] * ((gamma[i] * call.scale) % P)
                    + Total(CHUNK, LAMBDA j : dPe[i][j] * k[j][d]))
        dkn(j) == Vector(DK, LAMBDA d :
                    dkt[j][d] * Lam(mem, cube, j) + dkbg[j][d] * ((beta[j] * gamma[j]) % P)
                    + Total(CHUNK, LAMBDA i : dPe[i][j] * q[i][d]))
        raw == RawQueries(call, mem, cube)
    IN  [mem EXCEPT
           !.dvb[cube]    = dvb,
           !.dv           = WriteRows(call, mem, cube, @, LAMBDA j :
                              Vector(DV, LAMBDA v : dvb[j][v] * beta[j])),
           !.dkbg[cube]   = dkbg,
           !.dq           = WriteRows(call, mem, cube, @, LAMBDA i : ThroughNorm(call, raw[i], dqn(i))),
           !.dkpart[cube] = [j \in 0..LastRow |-> dkn(j)],
           !.rgpart[cube] = Vector(CHUNK, LAMBDA i :
                              gate[i] + ((qg(i) * call.scale + beta[i] * bg(i)) % P) * gamma[i]
                              - Lam(mem, cube, i) * kt(i)),
           !.rbpart[cube] = Vector(CHUNK, LAMBDA i :
                              Dot(DV, dvb[i], vals[i]) + gamma[i] * bg(i)),
           !.tail[cube]   = (GLast(mem, cube) * sds
                              + Total(CHUNK, LAMBDA i : Lam(mem, cube, i) * kt(i))) % P]

(* The WY part and the sums; A = beta (K K^T) exp(G_i - G_j) formed again.  *)
TcWyKernel(call, mem, cube) ==
  IF Skipped(call, mem, cube) THEN mem
  ELSE
    LET gamma == mem.gamma[cube]
        beta  == Beta(call, mem, cube)
        k     == Keys(call, mem, cube)
        dAe   == Matrix(CHUNK, CHUNK, LAMBDA i, j :
                   IF i > j
                   THEN (0 - Dot(DV, mem.dvb[cube][i], mem.u[cube][j])
                           - Dot(DK, mem.dkbg[cube][i], mem.w[cube][j])) * Decay(gamma, i, j)
                   ELSE 0)
        dkk   == Matrix(CHUNK, CHUNK, LAMBDA i, j : dAe[i][j] * Dot(DK, k[i], k[j]))
        gate  == RowsLessColumns(Matrix(CHUNK, CHUNK, LAMBDA i, j : dkk[i][j] * beta[i]))
        dka(r) == Vector(DK, LAMBDA d :
                    mem.dkpart[cube][r][d]
                    + Total(CHUNK, LAMBDA j : dAe[r][j] * k[j][d]) * beta[r]
                    + Total(CHUNK, LAMBDA i : dAe[i][r] * ((beta[i] * k[i][d]) % P)))
        raw  == LoadRows(call, mem, cube, mem.k, DK, 1, FALSE)
        rg   == Vector(CHUNK, LAMBDA i : mem.rgpart[cube][i] + gate[i])
        dg   == ReverseSum(rg, mem.tail[cube])
    IN  [mem EXCEPT
           !.dk    = WriteRows(call, mem, cube, @, LAMBDA r : ThroughNorm(call, raw[r], dka(r))),
           !.dg    = WriteRows(call, mem, cube, @, LAMBDA i : dg[i]),
           !.dbeta = WriteRows(call, mem, cube, @, LAMBDA i :
                       (mem.rbpart[cube][i] + Total(CHUNK, LAMBDA j : dkk[i][j])) % P)]
=============================================================================
