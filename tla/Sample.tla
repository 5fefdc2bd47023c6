------------------------------- MODULE Sample -------------------------------
(***************************************************************************)
(* Sampling the next token (sample/cube.rs): the cube of a row finds the    *)
(* tokens top-k and top-p keep without sorting the row, by a bound on the   *)
(* cut and a gather of what lies above it, by bands when that overflows the *)
(* shared memory, and by radix selection when the bands do too; then draws  *)
(* the best of the kept tokens' scores.                                     *)
(*                                                                          *)
(* Logits are integers or NegInf, exp is to base 2 and weights are scaled   *)
(* by 2^SCALE, so that sums and comparisons are exact: the margins the code *)
(* leaves for rounding are left out.  A key has KEYBITS bits, 32 in the     *)
(* code.  Which tokens an overflowing gather stored depends on the units'   *)
(* timing; nothing reads them, so a gather is the set of what it takes.     *)
(***************************************************************************)
EXTENDS Integers, Sequences, SequencesExt

NegInf  == -1000
SCALE   == 20
KEYBITS == 6
DIGIT   == 3      \* bits a pass of the radix selection decides
SKIP    == 6      \* above every Gumbel variate, 23 in the code
NONE    == 1000   \* an id no token has

(* Sums of integers over a set.                                             *)
SumOf(S, f(_)) == FoldSet(LAMBDA x, y : f(x) + y, 0, S)

(* The call: rows c.z of logits over v tokens, read in vectors of n by      *)
(* c.units units; c.capacity candidate slots; masked ids; top-k c.k, 0 for  *)
(* none; top-p c.p = <<numerator, denominator>>; tau, 0 for greedy.         *)
Tokens(c)   == 0..(c.v - 1)
Unmasked(c) == Tokens(c) \ c.masked
HasMask(c)  == c.masked # {}
Greedy(c)   == c.tau = 0
CutK(c)     == ~Greedy(c) /\ c.k > 0 /\ c.k < Cardinality(Unmasked(c))
CutP(c)     == ~Greedy(c) /\ c.p[1] < c.p[2]
WithW(c)    == (CutP(c) /\ ~CutK(c)) \/ ((CutK(c) \/ CutP(c)) /\ c.tau # 1)

Z(c, r, i) == c.z[r + 1][i + 1]
Gumbel(c, r, i) == c.gumbel[r + 1][i + 1]

Weight(s) == IF s = NegInf THEN 0 ELSE 2^(SCALE + s)
Tempered(c, z, m) == IF z = NegInf THEN NegInf ELSE (z - m) * c.tau
Plus(s, g) == IF s = NegInf THEN NegInf ELSE s + g

(* The order-preserving key of a logit; 0 is below every logit's.           *)
KeyOf(z) == IF z = NegInf THEN 1 ELSE z + 2^(KEYBITS - 1)

Better(a, b) == a[1] > b[1] \/ (a[1] = b[1] /\ a[2] < b[2])
Best(S) == CHOOSE a \in S : \A b \in S \ {a} : Better(a, b)

-----------------------------------------------------------------------------
(* 1. Statistics.  A unit meets its vectors in increasing id; its sums are  *)
(* relative to its largest logit so far and rescaled when that rises.       *)
VectorsOf(c, u) == {q \in 0..((c.v \div c.n) - 1) : q % c.units = u}
InVector(c, q)  == {i \in Unmasked(c) : i \div c.n = q}

Rescaled(x, drop) == IF drop > 40 THEN 0 ELSE x \div 2^drop

StatsVector(c, r, st, q) ==
  LET S   == InVector(c, q)
      top == Max({Z(c, r, i) : i \in S} \cup {NegInf})
      rises == top > st.mx
      mx  == IF rises THEN top ELSE st.mx
      Finite == {i \in S : Z(c, r, i) # NegInf}
  IN  [mx |-> mx,
       ix |-> IF rises THEN Min({i \in S : Z(c, r, i) = top}) ELSE st.ix,
       first |-> Min({st.first} \cup S),
       s1 |-> Rescaled(st.s1, mx - st.mx) + SumOf(Finite, LAMBDA i : Weight(Z(c, r, i) - mx)),
       sw |-> Rescaled(st.sw, (mx - st.mx) * c.tau)
              + SumOf(Finite, LAMBDA i : Weight((Z(c, r, i) - mx) * c.tau))]

UnitStats(c, r, u) ==
  FoldLeft(LAMBDA st, q : StatsVector(c, r, st, q),
           [mx |-> NegInf, ix |-> NONE, first |-> NONE, s1 |-> 0, sw |-> 0],
           SetToSortSeq(VectorsOf(c, u), <))

Units(c) == 0..(c.units - 1)

(* The unit whose largest logit is the row's first largest.                 *)
BestUnit(c, st) ==
  CHOOSE u \in Units(c) : \A w \in Units(c) :
    st[u].mx > st[w].mx \/ (st[u].mx = st[w].mx /\ st[u].ix <= st[w].ix)

(* What the cube knows of the row: its largest logit and that one's token,  *)
(* its lowest unmasked id, and the sums of the weights at both temperatures. *)
Statistics(c, r) ==
  LET Of(st, m, arg) ==
        [units |-> st, m |-> m, arg |-> arg,
         lowest |-> IF HasMask(c) THEN Min({st[u].first : u \in Units(c)}) ELSE 0,
         s1 |-> SumOf(Units(c), LAMBDA u : Rescaled(st[u].s1, m - st[u].mx)),
         w  |-> IF WithW(c) THEN SumOf(Units(c), LAMBDA u : Rescaled(st[u].sw, (m - st[u].mx) * c.tau))
                ELSE 0]
      Now(st, u) == Of(st, st[u].mx, st[u].ix)
      Known(st) == Now(st, BestUnit(c, st))
  IN  Known([u \in Units(c) |-> UnitStats(c, r, u)])

-----------------------------------------------------------------------------
(* 2. Candidates.  A band is a half octave of 1 - s, a sub-band an eighth   *)
(* of one.                                                                  *)
Thresholds == <<2, 3, 4, 6, 8, 12, 16, 24>>      \* twice where 1 - s enters each
BandOf(s)  == Cardinality({k \in 1..8 : Thresholds[k] <= 2 * (1 - s)}) - 1

SubOf(s, take) ==
  LET x == 2 * (1 - s)
  IN  IF take.xhi <= take.xlo THEN 0
      ELSE Min({((x - take.xlo) * 8) \div (take.xhi - take.xlo), 7})

TakeAll == [floor |-> 0, done |-> 0, lo |-> 0, sfloor |-> NegInf,
            bandcap |-> 0, subcap |-> 0, xlo |-> 0, xhi |-> 0]

Takes(c, r, m, take, capped, i) ==
  LET z    == Z(c, r, i)
      s    == Tempered(c, z, m)
      band == BandOf(s)
  IN  /\ KeyOf(z) >= take.floor
      /\ KeyOf(z) \div 2^(KEYBITS - take.done) = take.lo
      /\ s >= take.sfloor
      /\ capped = 1 => band <= take.bandcap
      /\ capped = 2 => \/ band < take.bandcap
                       \/ band = take.bandcap /\ SubOf(s, take) <= take.subcap

Gather(c, r, m, take, capped) == {i \in Unmasked(c) : Takes(c, r, m, take, capped, i)}

Fits(c, S) == Cardinality(S) <= c.capacity

(* Mutant: a weight of exactly p of the total does not reach it.            *)
ReachesPast(c, weight, total) == weight * c.p[2] > total * c.p[1]

(* The first band from the top where the weight reaches p of total.         *)
Reaches(c, weight, total) == weight * c.p[2] >= total * c.p[1]

BandCut(c, r, m, S, band(_), total, aboveW, aboveN) ==
  LET In(b)   == {i \in S : band(i) = b}
      UpTo(b) == {i \in S : band(i) <= b /\ band(i) >= 0}
      W(T)    == SumOf(T, LAMBDA i : Weight(Tempered(c, Z(c, r, i), m)))
      Enough(b) == Reaches(c, aboveW + W(UpTo(b)), total)
      cut     == IF \E b \in 0..7 : Enough(b) THEN Min({b \in 0..7 : Enough(b)}) ELSE 7
  IN  [cut |-> cut, count |-> aboveN + Cardinality(UpTo(cut)), last |-> Cardinality(In(cut)),
       before |-> aboveW + W(UpTo(cut - 1))]

(* The bound: for top-k the k-th largest of the units' largest logits; for  *)
(* top-p alone the weight below which all tokens weigh less than (1 - p) W. *)
Bound(c, st) ==
  LET Mine(u) == IF st.units[u].first # NONE THEN KeyOf(st.units[u].mx) ELSE 0
      sorted  == SortSeq([x \in 1..c.units |-> Mine(x - 1)], >)
      Heavy(s) == Weight(s) * Cardinality(Unmasked(c)) * c.p[2] >= (c.p[2] - c.p[1]) * st.w
  IN  IF CutK(c) THEN [TakeAll EXCEPT !.floor = IF c.k <= c.units THEN sorted[c.k] ELSE 0]
      ELSE [TakeAll EXCEPT !.sfloor = Min({s \in (0 - SCALE)..0 : Heavy(s)})]

(* By bands, and where those are too many, the last band by sub-bands.      *)
ByBands(c, r, st, S0, take, bands) ==
  LET SOf(i) == Tempered(c, Z(c, r, i), st.m)
      take1  == [take EXCEPT !.bandcap = bands.cut]
      take2  == [take1 EXCEPT
                  !.xlo = Thresholds[bands.cut + 1],
                  !.xhi = IF bands.cut = 7 THEN 2 * (1 - take.sfloor) ELSE Thresholds[bands.cut + 2]]
      subs   == BandCut(c, r, st.m, Gather(c, r, st.m, take1, 1),
                        LAMBDA i : IF BandOf(SOf(i)) = bands.cut THEN SubOf(SOf(i), take2) ELSE -1,
                        st.w, bands.before, bands.count - bands.last)
      Whole  == [found |-> S0, take |-> take]
      Refined(count, take3) ==
        IF count <= c.capacity THEN [found |-> Gather(c, r, st.m, take3, 2), take |-> take3] ELSE Whole
      Sub(cut) == Refined(cut.count, [take2 EXCEPT !.subcap = cut.cut])
  IN  IF bands.count <= c.capacity THEN [found |-> Gather(c, r, st.m, take1, 1), take |-> take1]
      ELSE IF bands.count <= 8 * c.capacity THEN Sub(subs) ELSE Whole

(* What is gathered in the end, and the bound of it.                        *)
Candidates(c, r, st) ==
  LET Bands(S0) == BandCut(c, r, st.m, S0, LAMBDA i : BandOf(Tempered(c, Z(c, r, i), st.m)), st.w, 0, 0)
      Of(S0, take) == IF Fits(c, S0) \/ CutK(c) THEN [found |-> S0, take |-> take]
                      ELSE ByBands(c, r, st, S0, take, Bands(S0))
      Within(take) == Of(Gather(c, r, st.m, take, 0), take)
  IN  Within(Bound(c, st))

-----------------------------------------------------------------------------
(* Candidates sorted, by falling logit and rising id.                       *)
SortCandidates(c, r, S) ==
  SetToSortSeq(S, LAMBDA x, y : Better(<<KeyOf(Z(c, r, x)), x>>, <<KeyOf(Z(c, r, y)), y>>))

Weighed(c, r, m, sorted) ==
  [j \in DOMAIN sorted |-> Weight(Tempered(c, Z(c, r, sorted[j]), m))]
Scanned(w) == [j \in DOMAIN w |-> SumOf(1..j, LAMBDA x : w[x])]

CountAtLeast(c, r, sorted, n, key) == Cardinality({j \in 1..n : KeyOf(Z(c, r, sorted[j])) >= key})

FirstReaching(c, cum, n, offset, total) ==
  LET hits == {j \in 1..n : Reaches(c, offset + cum[j], total)}
  IN  IF hits = {} THEN n ELSE Min(hits)

(* The kept candidates: their tokens and the sum of their weights.          *)
Keep(c, r, st, S) ==
  LET KeyAt(sorted, j) == KeyOf(Z(c, r, sorted[j]))
      Whole(sorted) == IF CutK(c) THEN CountAtLeast(c, r, sorted, Len(sorted), KeyAt(sorted, c.k)) ELSE Len(sorted)
      At(cum, k) == FirstReaching(c, cum, k, 0, IF CutK(c) THEN cum[k] ELSE st.w)
      Cut(sorted, cum, k) ==
        IF CutP(c) THEN CountAtLeast(c, r, sorted, k, KeyAt(sorted, At(cum, k))) ELSE k
      Kept(sorted, cum, n) == [tokens |-> {sorted[j] : j \in 1..n}, total |-> cum[n]]
      OfScan(sorted, cum, k) == Kept(sorted, cum, Cut(sorted, cum, k))
      OfCount(sorted, k) == OfScan(sorted, Scanned(SubSeq(Weighed(c, r, st.m, sorted), 1, k)), k)
      Of(sorted) == OfCount(sorted, Whole(sorted))
  IN  Of(SortCandidates(c, r, S))

Score(c, r, m, i) == Plus(Tempered(c, Z(c, r, i), m), Gumbel(c, r, i))
DrawCandidates(c, r, m, S) == Best({<<Score(c, r, m, i), i>> : i \in S})[2]

-----------------------------------------------------------------------------
(* 3. Radix selection.  The tokens of a band whose keys have digit j next;   *)
(* the first digit from the top at which the count or the mass is reached.  *)
DigitWidth(x) == Min({DIGIT, KEYBITS - x.done})
OfDigit(c, r, x, band, j) ==
  {i \in band : (KeyOf(Z(c, r, i)) \div 2^(KEYBITS - x.done - DigitWidth(x))) % 2^DigitWidth(x) = j}

WeightOf(c, r, m, S) == SumOf(S, LAMBDA i : Weight(Tempered(c, Z(c, r, i), m)))

ChosenDigit(c, r, m, x, subs, count, mass) ==
  LET From(j) == UNION {subs[l] : l \in j..7}
      full    == {j \in 0..7 : subs[j] # {}}
      Reached(j) == IF mass THEN Reaches(c, x.aboveW + WeightOf(c, r, m, From(j)), x.target)
                    ELSE x.aboveN + Cardinality(From(j)) >= count
  IN  IF \E j \in full : Reached(j) THEN Max({j \in full : Reached(j)}) ELSE Min(full)

Narrowed(c, r, m, x, above, chosen) ==
  [x EXCEPT !.done = @ + DigitWidth(x), !.lo = @ * 2^DigitWidth(x) + chosen,
            !.aboveN = @ + Cardinality(above), !.aboveW = @ + WeightOf(c, r, m, above)]

(* It ends with the last digit, or with tokens few enough to sort.          *)
Settled(c, r, m, y, S, count, mass) ==
  LET KeyAt(sorted) ==
        KeyOf(Z(c, r, sorted[IF mass THEN FirstReaching(c, Scanned(Weighed(c, r, m, sorted)), Len(sorted),
                                                        y.aboveW, y.target)
                             ELSE count - y.aboveN]))
  IN  IF y.done = KEYBITS THEN [y EXCEPT !.result = y.lo]
      ELSE IF Fits(c, S) THEN [y EXCEPT !.result = KeyAt(SortCandidates(c, r, S))]
      ELSE y

(* Among the tokens with keys from floor: the key of the count-th, or with  *)
(* mass the largest key whose tokens and those above weigh p of total,      *)
(* their own when that is negative.                                         *)
Radix(c, r, m, floor, count, mass, total) ==
  LET Chosen(x, subs, j) ==
        Settled(c, r, m, Narrowed(c, r, m, x, UNION {subs[l] : l \in (j + 1)..7}, j), subs[j], count, mass)
      Digits(x, subs) == Chosen(x, subs, ChosenDigit(c, r, m, x, subs, count, mass))
      Aimed(x, band) == IF mass /\ x.done = 0 /\ total < 0
                        THEN [x EXCEPT !.target = WeightOf(c, r, m, band)] ELSE x
      Of(x, band) == Digits(Aimed(x, band), [j \in 0..7 |-> OfDigit(c, r, x, band, j)])
      Narrow(x) == Of(x, Gather(c, r, m, [TakeAll EXCEPT !.floor = floor, !.done = x.done, !.lo = x.lo], 0))
      after[k \in Nat] ==
        IF k = 0 THEN [done |-> 0, lo |-> 0, target |-> total, aboveN |-> 0, aboveW |-> 0, result |-> -1]
        ELSE LET x == after[k - 1] IN IF x.result >= 0 THEN x ELSE Narrow(x)
  IN  after[KEYBITS].result

-----------------------------------------------------------------------------
(* 4. The Gumbel pass over the tokens with keys from floor, every unit from *)
(* the score of the row's argmax; a group whose best tempered logit cannot  *)
(* beat the score so far draws no variates.                                 *)
GroupSize(c) == IF c.n % 4 = 0 THEN 4 ELSE 1

GumbelVector(c, r, m, floor, best, q) ==
  LET KeptIn(g) == {i \in Unmasked(c) : i \div GroupSize(c) = g /\ KeyOf(Z(c, r, i)) >= floor}
      Group(b, g) ==
        LET top == Max({Tempered(c, Z(c, r, i), m) : i \in KeptIn(g)} \cup {b[1] - SKIP - 1})
        IN  IF top + SKIP >= b[1] THEN Best({<<Score(c, r, m, i), i>> : i \in KeptIn(g)} \cup {b}) ELSE b
      first == (q * c.n) \div GroupSize(c)
  IN  FoldLeft(Group, best, [x \in 1..(c.n \div GroupSize(c)) |-> first + x - 1])

GumbelPass(c, r, st, floor) ==
  LET start == <<Gumbel(c, r, st.arg), st.arg>>
      UnitBest(u) == FoldLeft(LAMBDA b, q : GumbelVector(c, r, st.m, floor, b, q), start,
                              SetToSortSeq(VectorsOf(c, u), <))
      kept == {i \in Unmasked(c) : KeyOf(Z(c, r, i)) >= floor}
  IN  [token |-> Best({UnitBest(u) : u \in Units(c)})[2],
       total |-> SumOf(kept, LAMBDA i : Weight(Tempered(c, Z(c, r, i), st.m)))]

-----------------------------------------------------------------------------
(* The kernel.  A log-probability x - ln(y) is the pair <<x, y>>; NaN and 0 *)
(* are pairs of their own.                                                  *)
NotANumber == <<NegInf, -1>>
Certain    == <<0, 0>>

(* The radix selections' key: the k-th, and of those from it the mass p.    *)
MassKey(c, r, st, floor) ==
  IF CutP(c) THEN Radix(c, r, st.m, floor, 0, TRUE, IF CutK(c) THEN -1 ELSE st.w) ELSE floor
CutKey(c, r, st, floor) ==
  MassKey(c, r, st, IF CutK(c) THEN Radix(c, r, st.m, floor, c.k, FALSE, 0) ELSE 0)

FromCandidates(c, r, st, kept) == [token |-> DrawCandidates(c, r, st.m, kept.tokens), total |-> kept.total]

FromFound(c, r, st, found) ==
  IF Fits(c, found.found) THEN FromCandidates(c, r, st, Keep(c, r, st, found.found))
  ELSE GumbelPass(c, r, st, CutKey(c, r, st, found.take.floor))

Drawn(c, r, st) ==
  IF st.m = NegInf THEN [token |-> st.lowest, total |-> 0]
  ELSE IF Greedy(c) THEN [token |-> st.arg, total |-> 0]
  ELSE IF ~CutK(c) /\ ~CutP(c) THEN GumbelPass(c, r, st, 0)
  ELSE FromFound(c, r, st, Candidates(c, r, st))

(* What the kernel writes of a row of those statistics and that draw.       *)
Written(c, m, r, st, draw) ==
  LET zt     == Z(c, r, draw.token)
      model  == <<zt - st.m, st.s1>>
      cut    == CutK(c) \/ CutP(c)
      s      == Tempered(c, zt, st.m)
      overU  == IF c.tau = 1 THEN model ELSE <<s, IF cut THEN st.w ELSE draw.total>>
      degenerate == st.m = NegInf
      Out(tempered, sampling) ==
        [m EXCEPT !.token[r] = draw.token, !.logprob[r] = IF degenerate THEN NotANumber ELSE model,
                  !.tempered[r] = tempered, !.sampling[r] = sampling]
  IN  IF degenerate THEN Out(NotANumber, NotANumber)
      ELSE IF Greedy(c) THEN Out(Certain, Certain)
      ELSE Out(overU, IF cut THEN <<s, draw.total>> ELSE overU)

OfRow(c, m, r, st)    == Written(c, m, r, st, Drawn(c, r, st))
SampleKernel(c, m, r) == OfRow(c, m, r, Statistics(c, r))
=============================================================================
