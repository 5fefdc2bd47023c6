---------------------------- MODULE SampleCalls -----------------------------
(***************************************************************************)
(* A call of the sampling: what the kernel's cubes or, where the device     *)
(* does not take the kernel, the reference's tensor operations leave, and   *)
(* what the definition says they should.                                    *)
(***************************************************************************)
EXTENDS Sample

(* device says whether the kernel is taken.  The weights are exact for      *)
(* logits, tempered too, within SCALE of the largest.                       *)
IsCall(c) ==
  /\ c.v % c.n = 0 /\ c.units > 0 /\ c.capacity >= c.units
  /\ Len(c.z) = Len(c.gumbel)
  /\ \A r \in DOMAIN c.z : Len(c.z[r]) = c.v /\ Len(c.gumbel[r]) = c.v
  /\ c.masked \subseteq Tokens(c) /\ c.masked # Tokens(c)
  /\ \A r \in DOMAIN c.z : \A i \in 1..c.v :
       c.z[r][i] # NegInf => c.z[r][i] \in 0..10 /\ c.tau * c.z[r][i] <= SCALE
  /\ \A r \in DOMAIN c.z : \A i \in 1..c.v : c.gumbel[r][i] < SKIP

Rows(c) == 0..(Len(c.z) - 1)

-----------------------------------------------------------------------------
(* The reference: the whole row sorted, the masked logits as -inf.          *)
ArgMax(S, f(_)) == CHOOSE i \in S : \A j \in S : f(i) > f(j) \/ (f(i) = f(j) /\ i <= j)

ReferenceKept(c, r, m) ==
  LET zm(i)  == IF i \in c.masked THEN NegInf ELSE Z(c, r, i)
      sorted == SortSeq([x \in 1..c.v |-> zm(x - 1)], >)
      topk   == IF CutK(c) THEN sorted[c.k] ELSE NegInf
      weight == [x \in 1..c.v |-> IF sorted[x] < topk THEN 0 ELSE Weight(Tempered(c, sorted[x], m))]
      cum    == Scanned(weight)
      first  == ArgMax(1..c.v, LAMBDA x : IF Reaches(c, cum[x], cum[c.v]) THEN 1 ELSE 0)
      threshold == IF CutP(c) THEN sorted[first] ELSE topk
  IN  {i \in Unmasked(c) : zm(i) >= threshold}

ReferenceRow(c, mem, r, m, kept) ==
  LET zm(i) == IF i \in c.masked THEN NegInf ELSE Z(c, r, i)
      s1    == SumOf(Tokens(c), LAMBDA i : Weight(Tempered([c EXCEPT !.tau = 1], zm(i), m)))
      degenerate == m = NegInf
      cut   == CutK(c) \/ CutP(c)
      score(i) == IF i \in kept THEN Score(c, r, m, i) ELSE NegInf
      drawn == IF Greedy(c) THEN ArgMax(Tokens(c), zm) ELSE ArgMax(Tokens(c), score)
      token == IF degenerate THEN ArgMax(Tokens(c), LAMBDA i : IF i \in c.masked THEN 0 ELSE 1) ELSE drawn
      Over(t, S) == <<Tempered(c, Z(c, r, t), m), SumOf(S, LAMBDA i : Weight(Tempered(c, zm(i), m)))>>
      NaN(x)   == IF degenerate THEN NotANumber ELSE x
      Writing(t, logprob, tempered) ==
        [mem EXCEPT !.token[r] = t, !.logprob[r] = NaN(logprob), !.tempered[r] = NaN(tempered),
                    !.sampling[r] = NaN(IF Greedy(c) THEN Certain ELSE IF cut THEN Over(t, kept) ELSE tempered)]
      Tempering(t, logprob) ==
        Writing(t, logprob, IF Greedy(c) THEN Certain ELSE IF c.tau = 1 THEN logprob ELSE Over(t, Tokens(c)))
      Of(t) == Tempering(t, <<Z(c, r, t) - m, s1>>)
  IN  Of(token)

ReferenceSample(c, mem, r) ==
  LET Of(m) == ReferenceRow(c, mem, r, m, IF CutK(c) \/ CutP(c) THEN ReferenceKept(c, r, m) ELSE Unmasked(c))
  IN  Of(Max({IF i \in c.masked THEN NegInf ELSE Z(c, r, i) : i \in Tokens(c)}))

-----------------------------------------------------------------------------
Stream(c) == IF c.device THEN <<"sample">> ELSE <<"reference_sample">>
Cubes(c, launch) == [r \in 1..Len(c.z) |-> r - 1]
Effect(c, mem, launch, r) ==
  IF launch = "sample" THEN SampleKernel(c, mem, r) ELSE ReferenceSample(c, mem, r)

Allocated(c) ==
  LET unset == [r \in Rows(c) |-> <<>>]
  IN  [token |-> unset, logprob |-> unset, tempered |-> unset, sampling |-> unset]

-----------------------------------------------------------------------------
(* The definition (dash_contract::sample): K the tokens of at least the     *)
(* k-th largest logit of U, P those of K of at least v, the largest logit   *)
(* from which the tokens of K weigh p of all of K.                          *)
SampleIs(c, mem) ==
  \A r \in Rows(c) :
    LET U == Unmasked(c)
        z(i) == Z(c, r, i)
        m == Max({z(i) : i \in U})
        w(i) == Weight(Tempered(c, z(i), m))
        AtLeast(S, x) == {i \in S : z(i) >= x}
        kth == Max({x \in {z(i) : i \in U} : Cardinality(AtLeast(U, x)) >= c.k})
        KK  == IF c.k = 0 \/ c.k >= Cardinality(U) THEN U ELSE AtLeast(U, kth)
        Enough(x) == SumOf(AtLeast(KK, x), w) * c.p[2] >= SumOf(KK, w) * c.p[1]
        v   == Max({x \in {z(i) : i \in KK} : Enough(x)})
        PP  == IF c.p[1] = c.p[2] THEN KK ELSE AtLeast(KK, v)
        t   == mem.token[r]
        st  == Tempered(c, z(t), m)
        Beats(i) == Score(c, r, m, t) > Score(c, r, m, i) \/ (Score(c, r, m, t) = Score(c, r, m, i) /\ t <= i)
    IN  IF m = NegInf
        THEN /\ t = Min(U)
             /\ mem.logprob[r] = NotANumber /\ mem.tempered[r] = NotANumber /\ mem.sampling[r] = NotANumber
        ELSE /\ mem.logprob[r] = <<z(t) - m, SumOf(U, LAMBDA i : Weight(Tempered([c EXCEPT !.tau = 1], z(i), m)))>>
             /\ IF Greedy(c)
                THEN /\ t = Min({i \in U : z(i) = m})
                     /\ mem.tempered[r] = Certain /\ mem.sampling[r] = Certain
                ELSE /\ t \in PP /\ \A i \in PP : Beats(i)
                     /\ mem.tempered[r] = <<st, SumOf(U, w)>>
                     /\ mem.sampling[r] = <<st, SumOf(PP, w)>>

(***************************************************************************)
(* Sampling on MLX (dash-mlx sample.rs): a kernel draws the Gumbel variates *)
(* of all rows, four tokens a thread, into one array; MLX's operations do   *)
(* the rest, a row like another.                                            *)
(***************************************************************************)
IsMlxCall(c) == IsCall(c)

THREADS == 2   \* of a threadgroup of the noise kernel, 256 in the code

CeilDiv(a, b) == (a + b - 1) \div b

(* NOISE: thread (group, row) of a grid that covers the groups of four and  *)
(* more; the words of counter (group, row, offset) are given numbers.       *)
Groups(c) == CeilDiv(CeilDiv(c.v, 4), THREADS) * THREADS

NoiseKernel(c, mem, cube) ==
  LET row    == cube[2]
      groups == {cube[1] * THREADS + x : x \in 0..(THREADS - 1)}
      drawn  == {x \in groups \X (0..3) : x[1] * 4 < c.v /\ x[1] * 4 + x[2] < c.v}
      At(x)  == row * c.v + x[1] * 4 + x[2]
  IN  [mem EXCEPT !.g = [at \in DOMAIN @ |->
         IF \E x \in drawn : At(x) = at THEN Gumbel(c, row, at - row * c.v) ELSE @[at]]]

-----------------------------------------------------------------------------
(* tree_cumsum: to every entry, the one shift before it, shift doubling.    *)
TreeCumsum(w) ==
  LET v == Len(w)
      shifts == {2^k : k \in 0..v}
      after[shift \in shifts] ==       \* the sums as they are before the step of shift
        IF shift = 1 THEN w
        ELSE LET Step(x, by) == [j \in 1..v |-> x[j] + IF j > by THEN x[j - by] ELSE 0]
                 Of(half)    == Step(after[half], half)
             IN  Of(shift \div 2)
  IN  after[Min({s \in shifts : s >= v})]

(* The cut, the least logit kept: the k-th largest, or the logit where the  *)
(* cumulative weight of what top-k keeps first reaches p of its total.      *)
MlxCut(c, zm, m) ==
  LET sorted == SortSeq([x \in 1..c.v |-> zm[x - 1]], >)
      kth    == sorted[c.k]
      weight == [x \in 1..c.v |-> IF CutK(c) /\ sorted[x] < kth THEN 0 ELSE Weight(Tempered(c, sorted[x], m))]
      First(cum) == ArgMax(1..c.v, LAMBDA x : IF Reaches(c, cum[x], cum[c.v]) THEN 1 ELSE 0)
  IN  IF CutP(c) THEN sorted[First(TreeCumsum(weight))] ELSE kth

MlxRow(c, mem, r, zm, m) ==
  LET degenerate == m = NegInf
      cuts  == CutK(c) \/ CutP(c)
      kept  == IF cuts THEN LET least == MlxCut(c, zm, m) IN {i \in Unmasked(c) : zm[i] >= least}
               ELSE Unmasked(c)
      s(i)  == Tempered(c, zm[i], m)
      w(i)  == Weight(s(i))
      d(i)  == IF zm[i] = NegInf THEN NegInf ELSE zm[i] - m
      score == [i \in Tokens(c) |-> IF i \in kept THEN Plus(s(i), mem.g[r * c.v + i]) ELSE NegInf]
      fixed == IF degenerate THEN Min(Unmasked(c))
               ELSE IF Greedy(c) THEN ArgMax(Tokens(c), LAMBDA i : zm[i])
               ELSE ArgMax(Tokens(c), LAMBDA i : score[i])
      NaN(x) == IF degenerate THEN NotANumber ELSE x
      total  == SumOf(Tokens(c), w)
      Of(t) ==
        [mem EXCEPT !.token[r]    = t,
                    !.logprob[r]  = NaN(<<d(t), SumOf(Tokens(c), LAMBDA i : Weight(d(i)))>>),
                    !.tempered[r] = NaN(IF Greedy(c) THEN Certain ELSE <<s(t), total>>),
                    !.sampling[r] = NaN(IF Greedy(c) THEN Certain
                                        ELSE <<s(t), IF cuts THEN SumOf(kept, w) ELSE total>>)]
  IN  Of(fixed)

MlxSample(c, mem, r) ==
  LET Of(zm) == MlxRow(c, mem, r, zm, Max({zm[i] : i \in Tokens(c)}))
  IN  Of([i \in Tokens(c) |-> IF i \in c.masked THEN NegInf ELSE Z(c, r, i)])

-----------------------------------------------------------------------------
MlxStream(c) == IF Greedy(c) THEN <<"rows">> ELSE <<"noise", "rows">>

MlxCubes(c, launch) ==
  IF launch = "noise"
  THEN LET across == Groups(c) \div THREADS
       IN  [i \in 1..(across * Len(c.z)) |-> <<(i - 1) % across, (i - 1) \div across>>]
  ELSE [r \in 1..Len(c.z) |-> r - 1]

MlxEffect(c, mem, launch, cube) ==
  IF launch = "noise" THEN NoiseKernel(c, mem, cube) ELSE MlxSample(c, mem, cube)

(* No variate is as large as the ones the array starts with.                *)
MlxAllocated(c) == Allocated(c) @@ [g |-> [at \in 0..(Len(c.z) * c.v - 1) |-> SKIP + at]]
=============================================================================
