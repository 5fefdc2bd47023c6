----------------------- MODULE AttentionBackward_proofs -----------------------
(***************************************************************************)
(* The attention backward, for every set of calls within the contract, any  *)
(* number of heads and any way to cut the work into blocks, cubes and       *)
(* tiles: the gradients a call returns are exact and every one is written   *)
(* once.                                                                    *)
(***************************************************************************)
EXTENDS AttentionBackward, AttentionMask_proofs, FiniteSetTheorems

-----------------------------------------------------------------------------
(* The invariant.  Everything a call has worked out is a function of the       *)
(* launch, its cubes that ended and the turns each sweep has taken.            *)

Launches == {"delta", "dq", "products", "finish", "returned"}

DeltaRan == IF launch = "delta" THEN ran ELSE DeltaCubes
Flushed == CASE launch \in {"delta", "dq"} -> {}
             [] launch = "products" -> ran
             [] OTHER -> ProductCubes

\* The call is one of the calls, its launches those it needs, its sweeps as far
\* as their cubes.
Underway ==
  /\ mask \in Masks /\ split \in BOOLEAN /\ atomic \in BOOLEAN
  /\ launch \in Launches /\ (launch # "returned" => ran \subseteq CubesOf(launch))
  /\ launch = "dq" => ~atomic
  /\ launch = "finish" => FinishNeeded

Swept ==
  /\ it \in [ProductCubes -> Nat]
  /\ \A c \in ProductCubes :
       /\ Plan(c).it0 <= it[c] /\ it[c] <= Plan(c).it1
       /\ launch \in {"delta", "dq"} => it[c] = Plan(c).it0
       /\ c \in Flushed => it[c] = Plan(c).it1

\* What delta's cubes that ended have prepared.
RowOf(hi) == hi[2] * Group + hi[1]
UnitOf(kc) == kc[1] * Chunks + kc[2]
RowDone(row) == row \div RowsPerCube \in DeltaRan
UnitDone(unit) == unit \div UnitsPerCube \in DeltaRan

LseNow == [hi \in HeadRows |-> IF RowDone(RowOf(hi)) THEN LseBwd(hi[2]) ELSE "junk"]
BoundsNow == [i \in Queries |-> IF Packed(mask) /\ RowDone(RowOf(<<0, i>>))
                                THEN RowBounds(mask, i) ELSE <<0, 0>>]

\* Turn t of cube c is on query i of head h; the cube has taken such a turn.
TurnOn(c, t, h, i) ==
  /\ HeadAt(Plan(c), t) = h
  /\ QueryAt(Plan(c), c[1], t) <= i /\ i < QueryAt(Plan(c), c[1], t) + Block
Took(c, h, i) == \E t \in Plan(c).it0 .. it[c] - 1 : TurnOn(c, t, h, i)

KeyIn(c, k) == K0(c) <= k /\ k < K0(c) + Block
SeenAt(i, k) == i < mask.tq /\ k \in Sees(mask, i)

\* A sum has the products of the turns taken, an accumulator those of every cube
\* that adds to it.
SumsNow ==
  [c \in ProductCubes |-> [k \in Keys |-> [hi \in HeadRows |->
     Once(KeyIn(c, k) /\ SeenAt(hi[2], k) /\ Took(c, hi[1], hi[2]))]]]
DqSum(hi) ==
  [k \in Keys |-> Once(/\ SeenAt(hi[2], k)
                       /\ \E c \in ProductCubes : KeyIn(c, k) /\ Took(c, hi[1], hi[2]))]
KvSum(kc) ==
  [hi \in HeadRows |-> Once(/\ SeenAt(hi[2], kc[1])
                            /\ \E c \in Flushed : KeyIn(c, kc[1]) /\ Took(c, hi[1], hi[2]))]
DqAccNow == [hi \in AccRows |-> IF atomic /\ RowDone(AccRow(hi[1], hi[2])) THEN DqSum(hi) ELSE Junk]
KvAccNow == [kc \in KeyChunks |-> IF split /\ UnitDone(UnitOf(kc)) THEN KvSum(kc) ELSE Junk]

\* The cube that writes a gradient, and whether it has.
DqCube(hi) == <<Ceil(mask.tq, DqBlock) - 1 - hi[2] \div DqBlock, hi[1]>>
TileOf(hi) == hi[1] * QBlocks + hi[2] \div Block
DkvCube(kc) == <<kc[1] \div Block, 0>>
DkvRun(kc) == DqTiles + UnitOf(kc) \div UnitsPerCube

Finished(x) == launch = "returned" \/ (launch = "finish" /\ x \in ran)
DqWritten(hi) ==
  IF atomic THEN Finished(TileOf(hi))
  ELSE launch \in {"products", "finish", "returned"} \/ (launch = "dq" /\ DqCube(hi) \in ran)
DkvWritten(kc) == IF split THEN Finished(DkvRun(kc)) ELSE DkvCube(kc) \in Flushed

DqNow == [hi \in HeadRows |-> IF DqWritten(hi) THEN DqOf(hi) ELSE Pending]
DkvNow == [kc \in KeyChunks |-> IF DkvWritten(kc) THEN DkvOf(kc) ELSE Pending]

IInv ==
  /\ Underway /\ Swept
  /\ plan = [c \in ProductCubes |-> Plan(c)]
  /\ lseBwd = LseNow /\ bounds = BoundsNow
  /\ sums = SumsNow /\ dqAcc = DqAccNow /\ kvAcc = KvAccNow
  /\ dq = DqNow /\ dkv = DkvNow
  /\ spoilt = FALSE
-----------------------------------------------------------------------------
(* More numbers. *)

\* A quotient and a remainder are the only ones.
LEMMA QuotientIs ==
  ASSUME NEW n \in Nat \ {0}, NEW q \in Nat, NEW r \in 0 .. n - 1, NEW a \in Nat, a = q * n + r
  PROVE  a \div n = q /\ a % n = r
<1> DEFINE p == a \div n
           s == a % n
<1>1. p \in Nat /\ s \in 0 .. n - 1 /\ a = p * n + s
  BY Divided
<1> HIDE DEF p, s
<1>2. \A x, y \in Nat : (x + 1) * n = x * n + n /\ x * n \in Nat
  OBVIOUS
<1>3. ~ (p < q)
  <2>1. p < q => (p + 1) * n <= q * n
    BY <1>1, TimesOnward
  <2> QED BY <1>1, <1>2, <2>1
<1>4. ~ (q < p)
  <2>1. q < p => (q + 1) * n <= p * n
    BY <1>1, TimesOnward
  <2> QED BY <1>1, <1>2, <2>1
<1>5. p = q
  BY <1>1, <1>3, <1>4
<1>6. s = r
  BY <1>1, <1>2, <1>5
<1> QED BY <1>5, <1>6 DEF p, s

\* The numbers of cube x of n are those it is the quotient of.
LEMMA InCube ==
  ASSUME NEW n \in Nat \ {0}, NEW x \in Int, NEW a \in Nat
  PROVE  a \in x * n .. (x + 1) * n - 1 <=> a \div n = x
<1> DEFINE p == a \div n
           s == a % n
<1>1. p \in Nat /\ s \in 0 .. n - 1 /\ a = p * n + s
  BY Divided
<1>2. ASSUME a \in x * n .. (x + 1) * n - 1 PROVE p = x
  <2>1. (x + 1) * n = x * n + n /\ x * n \in Int
    OBVIOUS
  <2>2. x \in Nat
    <3>1. x <= -1 => (x + 1) * n <= 0 * n
      BY TimesOnward
    <3> QED BY <1>2, <2>1, <3>1
  <2>3. a - x * n \in 0 .. n - 1 /\ a = x * n + (a - x * n)
    BY <1>2, <2>1
  <2> QED BY <2>2, <2>3, QuotientIs
<1>3. ASSUME p = x PROVE a \in x * n .. (x + 1) * n - 1
  <2> HIDE DEF p, s
  <2>1. (x + 1) * n = x * n + n /\ x * n \in Int
    OBVIOUS
  <2> QED BY <1>1, <1>3, <2>1
<1> QED BY <1>2, <1>3

\* Quotients keep the order.
LEMMA DividedOnward ==
  ASSUME NEW a \in Nat, NEW b \in Nat, NEW n \in Nat \ {0}, a <= b
  PROVE  a \div n <= b \div n
<1>1. /\ a \div n \in Nat /\ b \div n \in Nat /\ b % n \in 0 .. n - 1
      /\ b = (b \div n) * n + (b % n)
  BY Divided
<1>2. b < (b \div n + 1) * n
  <2>1. (b \div n + 1) * n = (b \div n) * n + n /\ (b \div n) * n \in Nat
    BY <1>1
  <2> QED BY <1>1, <2>1
<1>3. (b \div n + 1) \in Nat
  BY <1>1
<1>4. a < (b \div n + 1) * n
  <2>1. (b \div n + 1) * n \in Nat
    BY <1>3
  <2> QED BY <1>2, <2>1
<1>5. a \div n < b \div n + 1
  BY <1>3, <1>4, DividedBelow
<1> QED BY <1>1, <1>5

\* A number below a is in one of the cubes that a takes.
LEMMA CubesHold ==
  ASSUME NEW a \in Nat, NEW n \in Nat \ {0}
  PROVE  /\ Ceil(a, n) \in Nat /\ a <= Ceil(a, n) * n
         /\ \A x \in 0 .. a - 1 : x \div n \in 0 .. Ceil(a, n) - 1
         /\ a > 0 => Ceil(a, n) > 0
<1>1. Ceil(a, n) \in Nat /\ a <= Ceil(a, n) * n
  BY RoundedUp DEF Ceil
<1>2. ASSUME NEW x \in 0 .. a - 1 PROVE x \div n \in 0 .. Ceil(a, n) - 1
  <2>1. x \in Nat /\ x < Ceil(a, n) * n
    <3>1. Ceil(a, n) * n \in Nat
      BY <1>1
    <3> QED BY <1>1, <3>1
  <2>2. x \div n \in Nat /\ x \div n < Ceil(a, n)
    BY <1>1, <2>1, Divided, DividedBelow
  <2> QED BY <1>1, <2>2
<1>3. ASSUME a > 0 PROVE Ceil(a, n) > 0
  <2>1. 0 \div n \in 0 .. Ceil(a, n) - 1
    BY <1>2, <1>3
  <2> QED BY <1>1, <2>1
<1> QED BY <1>1, <1>2, <1>3

\* Turning a wheel of p places.
LEMMA Wrapped ==
  ASSUME NEW p \in Nat \ {0}, NEW a \in 0 .. p - 1, NEW b \in 0 .. p - 1
  PROVE  (a + b) % p = IF a + b < p THEN a + b ELSE a + b - p
<1>1. CASE a + b < p
  <2>1. a + b \in Nat /\ a + b \in 0 .. p - 1 /\ a + b = 0 * p + (a + b)
    BY <1>1
  <2>2. (a + b) % p = a + b
    BY <2>1, QuotientIs
  <2> QED BY <1>1, <2>2
<1>2. CASE ~ (a + b < p)
  <2>1. a + b \in Nat /\ a + b - p \in 0 .. p - 1 /\ a + b = 1 * p + (a + b - p)
    BY <1>2
  <2>2. (a + b) % p = a + b - p
    BY <2>1, QuotientIs
  <2> QED BY <1>2, <2>2
<1> QED BY <1>1, <1>2

-----------------------------------------------------------------------------
(* How the work is cut. *)

\* The sizes the kernels cut the work by.
LEMMA Sizes ==
  /\ Group \in Nat \ {0} /\ Block \in Nat \ {0}
  /\ DqBlock \in Nat \ {0} /\ DqRows \in Nat \ {0} /\ DqTile \in Nat \ {0}
  /\ Chunks \in Nat \ {0} /\ RowsPerCube \in Nat \ {0} /\ UnitsPerCube \in Nat \ {0}
<1>1. /\ Group \in Nat \ {0} /\ Block \in Nat \ {0}
      /\ DqBlock \in Nat \ {0} /\ DqRows \in Nat \ {0} /\ DqTile \in Nat \ {0}
      /\ Chunks \in Nat \ {0} /\ RowsPerCube \in Nat \ {0}
  BY SizesAssumption
<1>2. UnitsPerCube \in Nat \ {0}
  <2>1. 1 * Chunks <= RowsPerCube * Chunks /\ RowsPerCube * Chunks \in Nat
    BY <1>1, TimesOnward
  <2> QED BY <1>1, <2>1 DEF UnitsPerCube
<1> QED BY <1>1, <1>2

\* The lengths of a call; its blocks hold its queries.
LEMMA Lengths ==
  ASSUME mask \in Masks
  PROVE  /\ IsMask(mask) /\ IsCall(mask)
         /\ mask.tq \in Nat /\ mask.tq > 0 /\ mask.tk \in Nat /\ mask.tk > 0
         /\ QBlocks \in Nat /\ QBlocks > 0 /\ mask.tq <= QBlocks * Block
         /\ \A i \in Queries : i \div Block \in 0 .. QBlocks - 1
<1>1. /\ IsMask(mask) /\ IsCall(mask)
      /\ mask.tq \in Nat /\ mask.tq > 0 /\ mask.tk \in Nat /\ mask.tk > 0
  BY MasksAssumption DEF IsMask, IsCall
<1> QED BY <1>1, Sizes, CubesHold DEF QBlocks, Queries

\* The steps of key block b: where a head's start, how many, and those of all heads.
RowsFor(b) == QueryRange(mask, b * Block, Least(b * Block + Block, mask.tk))
FirstStep(b) == RowsFor(b)[1] \div Block
PerHead(b) == IF RowsFor(b)[2] > RowsFor(b)[1]
              THEN Ceil(RowsFor(b)[2], Block) - RowsFor(b)[1] \div Block ELSE 0
Turns(b) == Group * PerHead(b)
Middle(b) == (Turns(b) + 1) \div 2

\* A product's cube: its block of keys and which half of the turns is its.
LEMMA Halves ==
  ASSUME mask \in Masks, split \in BOOLEAN, NEW c \in ProductCubes
  PROVE  /\ c[1] \in Nat /\ c = <<c[1], c[2]>>
         /\ c[2] \in IF split THEN {0, 1} ELSE {0}
         /\ K0(c) \in Nat /\ K0(c) < mask.tk
<1>1. c \in (0 .. Ceil(mask.tk, Block) - 1) \X (IF split THEN {0, 1} ELSE {0})
  BY DEF ProductCubes
<1>2. c[1] \in 0 .. Ceil(mask.tk, Block) - 1 /\ Ceil(mask.tk, Block) \in Nat
  BY <1>1, Lengths, Sizes, CubesHold
<1>3. K0(c) \in Nat
  BY <1>2, Sizes DEF K0
<1>4. K0(c) < mask.tk
  <2> SUFFICES ASSUME mask.tk <= c[1] * Block PROVE FALSE
    BY <1>3, Lengths DEF K0
  <2>1. mask.tk + Block - 1 < (c[1] + 1) * Block
    <3>1. (c[1] + 1) * Block = c[1] * Block + Block /\ c[1] * Block \in Nat
      BY <1>2, Sizes
    <3> QED BY <3>1, Lengths, Sizes
  <2>2. mask.tk + Block - 1 \in Nat /\ c[1] + 1 \in Nat
    BY <1>2, Lengths, Sizes
  <2>3. Ceil(mask.tk, Block) < c[1] + 1
    BY <2>1, <2>2, Sizes, DividedBelow DEF Ceil
  <2> QED BY <1>2, <2>3
<1> QED BY <1>1, <1>2, <1>3, <1>4
\* A query range is of numbers.
LEMMA RangeIsNumbers ==
  ASSUME NEW m, IsMask(m), NEW k0 \in Nat, NEW k1 \in Nat
  PROVE  QueryRange(m, k0, k1) \in Nat \X Nat
<1>0. IsCall(m)
  BY DEF IsMask
<1>1. m.tq \in Nat /\ m.tk \in Nat /\ m.seqs \in Nat /\ Left(m) \in Nat /\ Right(m) \in Nat
  BY <1>0, CallNumbers
<1> DEFINE R == IF Packed(m) THEN PackedRange(m, k0, k1) ELSE AlignedRange(m, k0, k1)
<1>2. R \in Int \X Int
  <2>1. CASE ~Packed(m)
    BY <1>1, <2>1 DEF AlignedRange
  <2>2. CASE Packed(m)
    <3> DEFINE sa == SequenceOf(m.cuk, m.seqs, k0)
               sb == SequenceOf(m.cuk, m.seqs, k1 - 1)
    <3>1. IsOffsets(m.cuk, m.seqs, m.tk) /\ m.cuq \in [0 .. m.seqs -> Int]
      BY <1>0, <2>2, CallNumbers DEF IsMask
    <3>2. sa \in -1 .. m.seqs /\ sb \in -1 .. m.seqs
      <4>1. k0 \in Int /\ k1 - 1 \in Int
        OBVIOUS
      <4> QED BY <1>1, <3>1, <4>1, SequenceSplits
    <3>3. \A s \in 0 .. m.seqs - 1 : FirstIn(m, s, k0) \in Int /\ EndIn(m, s, k1) \in Int
      <4> TAKE s \in 0 .. m.seqs - 1
      <4>1. /\ m.cuq[s] \in Int /\ m.cuq[s + 1] \in Int
            /\ m.cuk[s] \in Int /\ m.cuk[s + 1] \in Int
        BY <2>2, SequenceNumbers
      <4> QED BY <1>1, <4>1 DEF FirstIn, EndIn, Greatest, Least
    <3>4. m.cuq[m.seqs] \in Int
      BY <1>1, <3>1
    <3>5. PackedRange(m, k0, k1) =
            IF sa >= m.seqs THEN <<0, 0>>
            ELSE <<IF sa >= 0 THEN FirstIn(m, sa, k0) ELSE 0,
                   IF sb >= m.seqs THEN m.cuq[m.seqs] ELSE IF sb >= 0 THEN EndIn(m, sb, k1) ELSE 0>>
      BY DEF PackedRange
    <3> HIDE DEF sa, sb
    <3>6. PackedRange(m, k0, k1) \in Int \X Int
      BY <1>1, <3>2, <3>3, <3>4, <3>5
    <3> QED BY <2>2, <3>6
  <2> QED BY <2>1, <2>2
<1>3. QueryRange(m, k0, k1) = <<Greatest(0, Least(R[1], m.tq)), Greatest(0, Least(R[2], m.tq))>>
  BY DEF QueryRange
<1> HIDE DEF R
<1> QED BY <1>1, <1>2, <1>3 DEF Greatest, Least

\* The number of a block's turns, and the turns of each of its cubes.
LEMMA PlanIs ==
  ASSUME mask \in Masks, split \in BOOLEAN, NEW c \in ProductCubes
  PROVE  /\ PerHead(c[1]) \in Nat /\ FirstStep(c[1]) \in Nat
         /\ Turns(c[1]) \in Nat /\ Middle(c[1]) \in Nat /\ Middle(c[1]) <= Turns(c[1])
         /\ Plan(c) = [first |-> FirstStep(c[1]), perHead |-> PerHead(c[1]),
                       it0 |-> IF split /\ c[2] = 1 THEN Middle(c[1]) ELSE 0,
                       it1 |-> IF split /\ c[2] = 0 THEN Middle(c[1]) ELSE Turns(c[1])]
<1> DEFINE r == RowsFor(c[1])
<1>1. r \in Nat \X Nat
  <2>1. K0(c) \in Nat /\ c[1] * Block \in Nat /\ Least(c[1] * Block + Block, mask.tk) \in Nat
    BY Halves, Lengths, Sizes DEF K0, Least
  <2> QED BY <2>1, Lengths, RangeIsNumbers DEF RowsFor
<1>2. FirstStep(c[1]) \in Nat /\ FirstStep(c[1]) * Block <= r[1]
  <2>1. /\ FirstStep(c[1]) \in Nat /\ r[1] % Block \in 0 .. Block - 1
        /\ r[1] = FirstStep(c[1]) * Block + (r[1] % Block)
    BY <1>1, Sizes, Divided DEF FirstStep
  <2>2. FirstStep(c[1]) * Block \in Nat
    BY <2>1, Sizes
  <2> QED BY <1>1, <2>1, <2>2
<1>3. Ceil(r[2], Block) \in Nat /\ r[2] <= Ceil(r[2], Block) * Block
  BY <1>1, Sizes, CubesHold
<1>4. r[2] > r[1] => FirstStep(c[1]) <= Ceil(r[2], Block)
  <2> HIDE DEF r
  <2>1. Ceil(r[2], Block) < FirstStep(c[1]) => Ceil(r[2], Block) * Block <= FirstStep(c[1]) * Block
    BY <1>2, <1>3, Sizes, TimesOnward
  <2>2. Ceil(r[2], Block) * Block \in Nat /\ FirstStep(c[1]) * Block \in Nat
    BY <1>2, <1>3, Sizes
  <2> QED BY <1>1, <1>2, <1>3, <2>1, <2>2
<1>5. PerHead(c[1]) \in Nat
  BY <1>2, <1>3, <1>4 DEF PerHead, FirstStep
<1>6. Turns(c[1]) \in Nat
  BY <1>5, Sizes DEF Turns
<1>7. Middle(c[1]) \in Nat /\ Middle(c[1]) <= Turns(c[1])
  BY <1>6 DEF Middle
<1>8. Plan(c) = [first |-> FirstStep(c[1]), perHead |-> PerHead(c[1]),
                 it0 |-> IF split /\ c[2] = 1 THEN Middle(c[1]) ELSE 0,
                 it1 |-> IF split /\ c[2] = 0 THEN Middle(c[1]) ELSE Turns(c[1])]
  BY DEF Plan, K0, RowsFor, FirstStep, PerHead, Turns, Middle
<1> QED BY <1>2, <1>5, <1>6, <1>7, <1>8

\* Turn t of a block's n a head is on the head t \div n and on a query block that is
\* turned round from the first.
LEMMA TurnIs ==
  ASSUME mask \in Masks, split \in BOOLEAN, NEW c \in ProductCubes, NEW t \in 0 .. Turns(c[1]) - 1
  PROVE  LET n == PerHead(c[1])
             a == t % n
             b == c[1] % n
             at == IF a + b < n THEN a + b ELSE a + b - n
         IN /\ n \in Nat \ {0} /\ a \in 0 .. n - 1 /\ b \in 0 .. n - 1
            /\ t = (t \div n) * n + a
            /\ t \div n \in Heads /\ HeadAt(Plan(c), t) = t \div n
            /\ QueryAt(Plan(c), c[1], t) = (FirstStep(c[1]) + at) * Block
            /\ QueryAt(Plan(c), c[1], t) \in Nat
<1> DEFINE n == PerHead(c[1])
           a == t % n
           b == c[1] % n
           at == IF a + b < n THEN a + b ELSE a + b - n
<1>1. n \in Nat /\ FirstStep(c[1]) \in Nat /\ Turns(c[1]) = Group * n /\ c[1] \in Nat
      /\ Plan(c).first = FirstStep(c[1]) /\ Plan(c).perHead = n
  BY PlanIs, Halves DEF Turns
<1> HIDE DEF n
<1>2. n > 0 /\ t \in Nat /\ t < Group * n
  <2>1. n = 0 => Group * n = 0
    BY Sizes
  <2>2. Group * n \in Nat
    BY <1>1, Sizes
  <2> QED BY <1>1, <2>1, <2>2
<1>n. n \in Nat \ {0}
  BY <1>1, <1>2
<1>3. /\ t \div n \in Nat /\ a \in 0 .. n - 1 /\ t = (t \div n) * n + a
      /\ b \in 0 .. n - 1
  BY <1>1, <1>2, <1>n, Divided
<1>4. t \div n \in Heads
  <2>1. t \div n < Group
    BY <1>1, <1>2, Sizes, DividedBelow
  <2> QED BY <1>3, <2>1, Sizes DEF Heads
<1>5. (a + b) % n = at
  <2> HIDE DEF a, b
  <2> QED BY <1>3, <1>n, Wrapped
<1>6. QueryAt(Plan(c), c[1], t) = (FirstStep(c[1]) + at) * Block
  <2>1. QueryAt(Plan(c), c[1], t) = (FirstStep(c[1]) + ((a + b) % n)) * Block
    BY <1>1 DEF QueryAt
  <2> QED BY <1>5, <2>1
<1>7. (FirstStep(c[1]) + at) * Block \in Nat
  <2>1. FirstStep(c[1]) + at \in Nat
    BY <1>1, <1>3
  <2> QED BY <2>1, Sizes
<1>8. HeadAt(Plan(c), t) = t \div n
  BY <1>1 DEF HeadAt
<1> QED BY <1>1, <1>2, <1>3, <1>4, <1>6, <1>7, <1>8 DEF n

\* A block's turns are on different heads or different queries.
LEMMA OneTurn ==
  ASSUME mask \in Masks, split \in BOOLEAN, NEW c \in ProductCubes, NEW d \in ProductCubes,
         c[1] = d[1], NEW t \in 0 .. Turns(c[1]) - 1, NEW u \in 0 .. Turns(c[1]) - 1,
         NEW h, NEW i \in Nat, TurnOn(c, t, h, i), TurnOn(d, u, h, i)
  PROVE  t = u
<1> DEFINE n == PerHead(c[1])
           b == c[1] % n
           At(x) == IF (x % n) + b < n THEN (x % n) + b ELSE (x % n) + b - n
<1>1. /\ n \in Nat \ {0} /\ b \in 0 .. n - 1 /\ FirstStep(c[1]) \in Nat
      /\ t % n \in 0 .. n - 1 /\ t = (t \div n) * n + (t % n)
      /\ HeadAt(Plan(c), t) = t \div n
      /\ QueryAt(Plan(c), c[1], t) = (FirstStep(c[1]) + At(t)) * Block
  BY TurnIs, PlanIs
<1>2. /\ u % n \in 0 .. n - 1 /\ u = (u \div n) * n + (u % n)
      /\ HeadAt(Plan(d), u) = u \div n
      /\ QueryAt(Plan(d), d[1], u) = (FirstStep(c[1]) + At(u)) * Block
  BY TurnIs
<1> HIDE DEF n, b
<1>3. t \div n = u \div n
  BY <1>1, <1>2 DEF TurnOn
<1>4. At(t) \in 0 .. n - 1 /\ At(u) \in 0 .. n - 1
  BY <1>1, <1>2
<1> DEFINE x == FirstStep(c[1]) + At(t)
           y == FirstStep(c[1]) + At(u)
<1>5. x \in Nat /\ y \in Nat
  BY <1>1, <1>4
<1>6. x * Block <= i /\ i < x * Block + Block /\ y * Block <= i /\ i < y * Block + Block
  BY <1>1, <1>2 DEF TurnOn
<1>7. x = y
  <2> HIDE DEF x, y
  <2>1. i \div Block = x
    <3>1. x * Block \in Nat
      BY <1>5, Sizes
    <3>2. i - x * Block \in 0 .. Block - 1 /\ i = x * Block + (i - x * Block)
      BY <1>6, <3>1, Sizes
    <3> QED BY <1>5, <3>2, Sizes, QuotientIs
  <2>2. i \div Block = y
    <3>1. y * Block \in Nat
      BY <1>5, Sizes
    <3>2. i - y * Block \in 0 .. Block - 1 /\ i = y * Block + (i - y * Block)
      BY <1>6, <3>1, Sizes
    <3> QED BY <1>5, <3>2, Sizes, QuotientIs
  <2> QED BY <2>1, <2>2
<1>8. At(t) = At(u)
  <2> HIDE DEF At
  <2> QED BY <1>1, <1>4, <1>7
<1> HIDE DEF x, y
<1>9. t % n = u % n
  <2>1. t % n \in 0 .. n - 1 /\ u % n \in 0 .. n - 1 /\ b \in 0 .. n - 1 /\ n \in Nat
    BY <1>1, <1>2
  <2>2. \A v, w \in 0 .. n - 1 :
          (IF v + b < n THEN v + b ELSE v + b - n) = (IF w + b < n THEN w + b ELSE w + b - n) => v = w
    BY <2>1
  <2> QED BY <1>8, <2>1, <2>2
<1> QED BY <1>1, <1>2, <1>3, <1>9
\* A block's turns reach every head and every query that sees one of its keys.
LEMMA SomeTurn ==
  ASSUME mask \in Masks, split \in BOOLEAN, NEW c \in ProductCubes,
         NEW h \in Heads, NEW i \in Queries, NEW k \in Sees(mask, i), KeyIn(c, k)
  PROVE  \E t \in 0 .. Turns(c[1]) - 1 : TurnOn(c, t, h, i)
<1> DEFINE n == PerHead(c[1])
           k1 == Least(K0(c) + Block, mask.tk)
           r == RowsFor(c[1])
           d == i \div Block - FirstStep(c[1])
           b == c[1] % n
           a == IF b <= d THEN d - b ELSE d - b + n
           t == h * n + a
<1>1. /\ IsMask(mask) /\ mask.tk \in Nat /\ i \in Nat /\ i < mask.tq
      /\ K0(c) \in Nat /\ K0(c) < mask.tk /\ k1 \in Nat /\ K0(c) < k1 /\ k1 <= mask.tk
      /\ k \in Int /\ K0(c) <= k /\ k < k1
      /\ r = QueryRange(mask, K0(c), k1)
  <2>1. k \in 0 .. mask.tk - 1
    BY DEF Sees
  <2> QED BY <2>1, Lengths, Halves, Sizes DEF Queries, Least, KeyIn, RowsFor, K0
<1>2. RowBounds(mask, i)[1] <= k /\ k < RowBounds(mask, i)[2] /\ RowBounds(mask, i) \in Nat \X Nat
  BY <1>1, SeenIsInBounds, BoundsInKeys DEF InBounds
<1>3. r[1] <= i /\ i < r[2] /\ r \in Nat \X Nat
  <2>1. RowBounds(mask, i)[1] < k1 /\ K0(c) < RowBounds(mask, i)[2]
    BY <1>1, <1>2
  <2>2. RowBounds(mask, i) # NoKeys(mask)
    BY <1>1, <1>2 DEF NoKeys
  <2>3. r[1] <= i /\ i < r[2]
    BY <1>1, <2>1, <2>2, RangeIsWide
  <2> QED BY <1>1, <2>3, RangeIsNumbers
<1>4. /\ FirstStep(c[1]) \in Nat /\ i \div Block \in Nat /\ FirstStep(c[1]) <= i \div Block
      /\ i \div Block < Ceil(r[2], Block) /\ Ceil(r[2], Block) \in Nat
  <2>1. i \in 0 .. r[2] - 1
    BY <1>1, <1>3
  <2>2. i \div Block \in 0 .. Ceil(r[2], Block) - 1 /\ Ceil(r[2], Block) \in Nat
    BY <1>3, <2>1, Sizes, CubesHold
  <2>3. r[1] \div Block <= i \div Block /\ r[1] \div Block \in Nat
    BY <1>1, <1>3, Sizes, Divided, DividedOnward
  <2> QED BY <2>2, <2>3 DEF FirstStep
<1>5. n = Ceil(r[2], Block) - FirstStep(c[1])
  <2>1. r[2] > r[1]
    BY <1>1, <1>3
  <2> QED BY <2>1 DEF PerHead, FirstStep
<1>6. n \in Nat \ {0} /\ d \in 0 .. n - 1
  BY <1>4, <1>5
<1>7. c[1] \in Nat /\ b \in 0 .. n - 1
  BY <1>6, Halves, Divided
<1>8. /\ a \in 0 .. n - 1 /\ (IF a + b < n THEN a + b ELSE a + b - n) = d
  <2> HIDE DEF n, d, b
  <2> QED BY <1>6, <1>7
<1>9. t \in Nat /\ t < Group * n /\ t \div n = h /\ t % n = a
  <2> HIDE DEF n, a
  <2>1. h \in Nat /\ h + 1 <= Group /\ h * n \in Nat
    BY <1>6, Sizes DEF Heads
  <2>2. (h + 1) * n <= Group * n /\ (h + 1) * n = h * n + n /\ Group * n \in Nat
    BY <1>6, <2>1, Sizes, TimesOnward
  <2>3. t \in Nat /\ t < Group * n
    BY <1>6, <1>8, <2>1, <2>2
  <2>4. t \div n = h /\ t % n = a
    BY <1>6, <1>8, <2>1, <2>3, QuotientIs
  <2> QED BY <2>3, <2>4
<1>10. t \in 0 .. Turns(c[1]) - 1
  <2>1. Group * n \in Nat
    BY <1>6, Sizes
  <2> QED BY <1>9, <2>1 DEF Turns
<1>11. HeadAt(Plan(c), t) = h /\ QueryAt(Plan(c), c[1], t) = (i \div Block) * Block
  <2> HIDE DEF t
  <2>1. /\ HeadAt(Plan(c), t) = t \div n
        /\ QueryAt(Plan(c), c[1], t)
             = (FirstStep(c[1]) + (IF (t % n) + b < n THEN (t % n) + b ELSE (t % n) + b - n)) * Block
    BY <1>10, TurnIs
  <2>2. FirstStep(c[1]) + d = i \div Block
    BY <1>4
  <2> HIDE DEF n, a, b, d
  <2> QED BY <1>8, <1>9, <2>1, <2>2
<1>12. (i \div Block) * Block <= i /\ i < (i \div Block) * Block + Block
  <2>1. i % Block \in 0 .. Block - 1 /\ i = (i \div Block) * Block + (i % Block)
    BY <1>1, Sizes, Divided
  <2>2. (i \div Block) * Block \in Nat
    BY <1>4, Sizes
  <2> QED BY <1>1, <2>1, <2>2, Sizes
<1> HIDE DEF t
<1>13. TurnOn(c, t, h, i)
  BY <1>11, <1>12 DEF TurnOn
<1> QED BY <1>10, <1>13

\* A key is in one block only.
LEMMA OneBlock ==
  ASSUME mask \in Masks, split \in BOOLEAN, NEW c \in ProductCubes, NEW k \in Nat
  PROVE  KeyIn(c, k) <=> c[1] = k \div Block
<1>1. c[1] \in Nat /\ c[1] * Block \in Nat /\ (c[1] + 1) * Block = c[1] * Block + Block
  BY Halves, Sizes
<1>2. k \in c[1] * Block .. (c[1] + 1) * Block - 1 <=> k \div Block = c[1]
  <2>1. Block \in Nat \ {0} /\ c[1] \in Int
    BY <1>1, Sizes
  <2> HIDE DEF ProductCubes
  <2> QED BY ONLY <2>1, k \in Nat, InCube
<1> QED BY <1>1, <1>2, Sizes DEF KeyIn, K0

\* What turns a cube has taken are its own.
LEMMA TookOwn ==
  ASSUME mask \in Masks, split \in BOOLEAN, Swept, NEW c \in ProductCubes,
         NEW t \in Plan(c).it0 .. Plan(c).it1 - 1
  PROVE  t \in 0 .. Turns(c[1]) - 1
BY PlanIs

\* Two cubes of a block take different turns: if both have been on a head's query,
\* or one has and the other's next turn is on it, they are the same cube.
LEMMA OneTaker ==
  ASSUME mask \in Masks, split \in BOOLEAN,
         NEW c \in ProductCubes, NEW d \in ProductCubes, c[1] = d[1], NEW h, NEW i \in Nat,
         NEW t \in Plan(c).it0 .. Plan(c).it1 - 1, TurnOn(c, t, h, i),
         NEW u \in Plan(d).it0 .. Plan(d).it1 - 1, TurnOn(d, u, h, i)
  PROVE  c = d /\ t = u
<1>1. /\ Turns(c[1]) \in Nat /\ Middle(c[1]) \in Nat /\ Middle(c[1]) <= Turns(c[1])
      /\ Plan(c).it0 = IF split /\ c[2] = 1 THEN Middle(c[1]) ELSE 0
      /\ Plan(c).it1 = IF split /\ c[2] = 0 THEN Middle(c[1]) ELSE Turns(c[1])
      /\ Plan(d).it0 = IF split /\ d[2] = 1 THEN Middle(c[1]) ELSE 0
      /\ Plan(d).it1 = IF split /\ d[2] = 0 THEN Middle(c[1]) ELSE Turns(c[1])
  BY PlanIs
<1>2. t \in 0 .. Turns(c[1]) - 1 /\ u \in 0 .. Turns(c[1]) - 1
  BY <1>1
<1>3. t = u
  BY <1>2, OneTurn
<1>4. /\ c = <<c[1], c[2]>> /\ d = <<d[1], d[2]>>
      /\ c[2] \in IF split THEN {0, 1} ELSE {0}
      /\ d[2] \in IF split THEN {0, 1} ELSE {0}
  BY Halves
<1>5. c[2] = d[2]
  BY <1>1, <1>3, <1>4
<1>6. c = d
  BY <1>4, <1>5
<1> QED BY <1>3, <1>6

\* Between them a block's cubes take all its turns.
LEMMA AllTaken ==
  ASSUME mask \in Masks, split \in BOOLEAN, NEW b \in 0 .. Ceil(mask.tk, Block) - 1,
         NEW t \in 0 .. Turns(b) - 1
  PROVE  \E c \in ProductCubes : c[1] = b /\ t \in Plan(c).it0 .. Plan(c).it1 - 1
<1>1. CASE ~split
  <2>1. <<b, 0>> \in ProductCubes
    BY <1>1 DEF ProductCubes
  <2>2. Turns(b) \in Nat /\ Plan(<<b, 0>>).it0 = 0 /\ Plan(<<b, 0>>).it1 = Turns(b)
    BY <1>1, <2>1, PlanIs
  <2> QED BY <2>1, <2>2
<1>2. CASE split
  <2>1. <<b, 0>> \in ProductCubes /\ <<b, 1>> \in ProductCubes
    BY <1>2 DEF ProductCubes
  <2>2. /\ Turns(b) \in Nat /\ Middle(b) \in Nat /\ Middle(b) <= Turns(b)
        /\ Plan(<<b, 0>>).it0 = 0 /\ Plan(<<b, 0>>).it1 = Middle(b)
        /\ Plan(<<b, 1>>).it0 = Middle(b) /\ Plan(<<b, 1>>).it1 = Turns(b)
    BY <1>2, <2>1, PlanIs
  <2>3. CASE t < Middle(b)
    <3>1. t \in Plan(<<b, 0>>).it0 .. Plan(<<b, 0>>).it1 - 1
      BY <2>2, <2>3
    <3> QED BY <2>1, <3>1
  <2>4. CASE ~ (t < Middle(b))
    <3>1. t \in Plan(<<b, 1>>).it0 .. Plan(<<b, 1>>).it1 - 1
      BY <2>2, <2>4
    <3> QED BY <2>1, <3>1
  <2> QED BY <2>3, <2>4
<1> QED BY <1>1, <1>2

\* When a key's cubes have ended, some cube has been on every query that sees it.
LEMMA AllSummed ==
  ASSUME mask \in Masks, split \in BOOLEAN, NEW h \in Heads, NEW i \in Queries,
         NEW k \in Sees(mask, i), NEW S \in SUBSET ProductCubes,
         \A c \in ProductCubes : c[1] = k \div Block => c \in S /\ it[c] = Plan(c).it1
  PROVE  \E c \in S : KeyIn(c, k) /\ Took(c, h, i)
<1> DEFINE b == k \div Block
<1>1. k \in 0 .. mask.tk - 1 /\ k \in Nat
  BY Lengths DEF Sees
<1>2. b \in 0 .. Ceil(mask.tk, Block) - 1
  BY <1>1, Lengths, Sizes, CubesHold
<1>3. PICK e \in ProductCubes : e[1] = b
  <2>1. <<b, 0>> \in ProductCubes
    BY <1>2 DEF ProductCubes
  <2> QED BY <2>1
<1>4. PICK t \in 0 .. Turns(b) - 1 : TurnOn(e, t, h, i)
  <2>1. KeyIn(e, k)
    BY <1>1, <1>3, OneBlock
  <2> QED BY <1>3, <2>1, SomeTurn
<1>5. PICK c \in ProductCubes : c[1] = b /\ t \in Plan(c).it0 .. Plan(c).it1 - 1
  BY <1>2, AllTaken
<1>6. TurnOn(c, t, h, i)
  <2>1. /\ Plan(c).first = Plan(e).first /\ Plan(c).perHead = Plan(e).perHead
    BY <1>3, <1>5, PlanIs
  <2> QED BY <1>3, <1>4, <1>5, <2>1 DEF TurnOn, HeadAt, QueryAt
<1>7. KeyIn(c, k)
  BY <1>1, <1>5, OneBlock
<1>8. c \in S /\ Took(c, h, i)
  BY <1>5, <1>6 DEF Took
<1> QED BY <1>7, <1>8
-----------------------------------------------------------------------------
(* delta's cubes reach every row and every unit. *)

\* A number of two digits, the second of n values, is below the product.
LEMMA Composed ==
  ASSUME NEW m \in Nat, NEW n \in Nat, NEW a \in 0 .. m - 1, NEW b \in 0 .. n - 1
  PROVE  a * n + b \in Nat /\ a * n + b < m * n /\ m * n \in Nat
<1>1. (a + 1) * n <= m * n
  BY TimesOnward
<1>2. (a + 1) * n = a * n + n /\ a * n \in Nat /\ m * n \in Nat
  OBVIOUS
<1> QED BY <1>1, <1>2

\* Delta's cubes reach every row, and every accumulator the call uses.
LEMMA DeltaReaches ==
  ASSUME mask \in Masks, split \in BOOLEAN, atomic \in BOOLEAN
  PROVE  /\ \A hi \in HeadRows : RowOf(hi) \in Nat /\ RowOf(hi) \div RowsPerCube \in DeltaCubes
         /\ \A hi \in AccRows : /\ AccRow(hi[1], hi[2]) \in Nat
                                /\ AccRow(hi[1], hi[2]) < ZeroRows <=> atomic
                                /\ atomic => AccRow(hi[1], hi[2]) \div RowsPerCube \in DeltaCubes
         /\ \A kc \in KeyChunks : /\ UnitOf(kc) \in Nat
                                  /\ UnitOf(kc) < KvChunks <=> split
                                  /\ split => UnitOf(kc) \div UnitsPerCube \in DeltaCubes
<1> DEFINE most == Greatest(Rows, ZeroRows)
           rowCubes == Ceil(most, RowsPerCube)
           unitCubes == Ceil(KvChunks, UnitsPerCube)
<1>1. /\ mask.tq \in Nat /\ mask.tk \in Nat /\ QBlocks \in Nat
      /\ Group \in Nat \ {0} /\ Block \in Nat \ {0} /\ Chunks \in Nat \ {0}
      /\ RowsPerCube \in Nat \ {0} /\ UnitsPerCube \in Nat \ {0}
  BY Lengths, Sizes
<1>2. Rows \in Nat /\ ZeroRows \in Nat /\ KvChunks \in Nat
  <2>1. QBlocks * Block * Group \in Nat /\ mask.tq * Group \in Nat /\ mask.tk * Chunks \in Nat
    BY <1>1
  <2> QED BY <2>1 DEF Rows, ZeroRows, KvChunks
<1>3. most \in Nat /\ Rows <= most /\ ZeroRows <= most
  BY <1>2 DEF Greatest
<1> HIDE DEF most
<1>4. /\ rowCubes \in Nat /\ \A x \in 0 .. most - 1 : x \div RowsPerCube \in 0 .. rowCubes - 1
      /\ unitCubes \in Nat /\ \A x \in 0 .. KvChunks - 1 : x \div UnitsPerCube \in 0 .. unitCubes - 1
  BY <1>1, <1>2, <1>3, CubesHold
<1> HIDE DEF rowCubes, unitCubes
<1>5. 0 .. rowCubes - 1 \subseteq DeltaCubes /\ 0 .. unitCubes - 1 \subseteq DeltaCubes
  <2>1. DeltaCubes = 0 .. Greatest(rowCubes, unitCubes) - 1
    BY DEF DeltaCubes, rowCubes, unitCubes, most
  <2> QED BY <1>4, <2>1 DEF Greatest
<1>6. ASSUME NEW hi \in HeadRows
      PROVE  RowOf(hi) \in Nat /\ RowOf(hi) \div RowsPerCube \in DeltaCubes
  <2>1. hi[1] \in 0 .. Group - 1 /\ hi[2] \in 0 .. mask.tq - 1
    BY DEF HeadRows, Heads, Queries
  <2>2. RowOf(hi) \in Nat /\ RowOf(hi) < Rows
    BY <1>1, <2>1, Composed DEF RowOf, Rows
  <2>3. RowOf(hi) \in 0 .. most - 1
    BY <1>2, <1>3, <2>2
  <2> QED BY <1>4, <1>5, <2>2, <2>3
<1>7. ASSUME NEW hi \in AccRows
      PROVE  /\ AccRow(hi[1], hi[2]) \in Nat
             /\ AccRow(hi[1], hi[2]) < ZeroRows <=> atomic
             /\ atomic => AccRow(hi[1], hi[2]) \div RowsPerCube \in DeltaCubes
  <2> DEFINE i == hi[2]
             q == i \div Block
             y == q * Group + hi[1]
  <2>1. hi[1] \in 0 .. Group - 1 /\ i \in Nat /\ i < QBlocks * Block
    <3>1. hi[1] \in Heads /\ i \in 0 .. QBlocks * Block - 1 /\ QBlocks * Block \in Nat
      BY <1>1 DEF AccRows
    <3> QED BY <3>1 DEF Heads
  <2> HIDE DEF i
  <2>2. q \in 0 .. QBlocks - 1 /\ i % Block \in 0 .. Block - 1
    <3>1. i \div Block \in Nat /\ i % Block \in 0 .. Block - 1
      BY <1>1, <2>1, Divided
    <3>2. i \div Block < QBlocks
      BY <1>1, <2>1, DividedBelow
    <3> QED BY <1>1, <3>1, <3>2
  <2> HIDE DEF q
  <2>3. y \in Nat /\ y < QBlocks * Group /\ QBlocks * Group \in Nat
    BY <1>1, <2>1, <2>2, Composed
  <2>4. AccRow(hi[1], hi[2]) = y * Block + (i % Block)
    BY DEF AccRow, i, q
  <2> HIDE DEF y
  <2>5. /\ y * Block + (i % Block) \in Nat
        /\ y * Block + (i % Block) < (QBlocks * Group) * Block
    <3>1. y \in 0 .. QBlocks * Group - 1
      BY <2>3
    <3> QED BY <1>1, <2>2, <2>3, <3>1, Composed
  <2>6. (QBlocks * Group) * Block = (QBlocks * Block) * Group
    BY <1>1
  <2>7. AccRow(hi[1], hi[2]) < ZeroRows <=> atomic
    <3>1. CASE atomic
      <4>1. ZeroRows = (QBlocks * Block) * Group
        BY <3>1 DEF ZeroRows
      <4> QED BY <2>4, <2>5, <2>6, <3>1, <4>1
    <3>2. CASE ~atomic
      <4>1. ZeroRows = 0
        BY <3>2 DEF ZeroRows
      <4> QED BY <2>4, <2>5, <3>2, <4>1
    <3> QED BY <3>1, <3>2
  <2>8. AccRow(hi[1], hi[2]) \in Nat
    BY <2>4, <2>5
  <2>9. atomic => AccRow(hi[1], hi[2]) \in 0 .. most - 1
    BY <1>2, <1>3, <2>7, <2>8
  <2> QED BY <1>4, <1>5, <2>7, <2>8, <2>9
<1>8. ASSUME NEW kc \in KeyChunks
      PROVE  /\ UnitOf(kc) \in Nat
             /\ UnitOf(kc) < KvChunks <=> split
             /\ split => UnitOf(kc) \div UnitsPerCube \in DeltaCubes
  <2>1. kc[1] \in 0 .. mask.tk - 1 /\ kc[2] \in 0 .. Chunks - 1
    BY DEF KeyChunks, Keys
  <2>2. UnitOf(kc) \in Nat /\ UnitOf(kc) < mask.tk * Chunks
    BY <1>1, <2>1, Composed DEF UnitOf
  <2>3. UnitOf(kc) < KvChunks <=> split
    BY <2>2 DEF KvChunks
  <2>4. split => UnitOf(kc) \in 0 .. KvChunks - 1
    BY <1>2, <2>2, <2>3
  <2> QED BY <1>4, <1>5, <2>2, <2>3, <2>4
<1> QED BY <1>6, <1>7, <1>8

-----------------------------------------------------------------------------
(* What a step shows. *)

\* A count of one thing that happens or not.
LEMMA OnceIs ==
  ASSUME NEW b \in BOOLEAN
  PROVE  Once(b) \in Nat /\ (b => Once(b) = 1) /\ (~b => Once(b) = 0)
BY DEF Once

\* A row's interval holds the keys it sees but for the padding, none past the queries.
LEMMA SeenAtIs ==
  ASSUME mask \in Masks, NEW i \in Nat, NEW k \in Nat
  PROVE  SeenAt(i, k) <=> InBounds(mask, i, k) /\ k \notin mask.pad
<1>1. IsMask(mask) /\ mask.tq \in Nat
  BY Lengths
<1>2. {j \in Int : InBounds(mask, i, j)} \ mask.pad
        = IF i < mask.tq THEN Sees(mask, i) ELSE {}
  BY <1>1, RowBoundsIsReference
<1>3. k \in Int
  OBVIOUS
<1> QED BY <1>2, <1>3 DEF SeenAt

\* A step of the products shows a row exactly the keys it sees.
LEMMA ShownIs ==
  ASSUME mask \in Masks, split \in BOOLEAN, NEW c \in ProductCubes, NEW q0 \in Nat,
         Packed(mask) => \A i \in Queries : bounds[i] = RowBounds(mask, i),
         NEW i \in q0 .. q0 + Block - 1, NEW k \in K0(c) .. K0(c) + Block - 1
  PROVE  StepShows(q0, K0(c), i, k) <=> SeenAt(i, k)
<1>1. /\ IsMask(mask) /\ IsCall(mask) /\ mask.tq \in Nat /\ mask.tk \in Nat /\ Block \in Nat \ {0}
      /\ K0(c) \in Nat /\ K0(c) < mask.tk /\ i \in Nat /\ k \in Nat
      /\ q0 + Block - 1 \in Nat /\ q0 <= i /\ i <= q0 + Block - 1
      /\ K0(c) <= k /\ k < K0(c) + Block
  BY Lengths, Sizes, Halves
<1>2. \A x \in Nat : StepBounds(x) = RowBounds(mask, x)
  <2> TAKE x \in Nat
  <2>1. CASE ~Packed(mask)
    BY <2>1 DEF StepBounds, RowBounds
  <2>2. CASE Packed(mask) /\ x < mask.tq
    <3>1. x \in Queries
      BY <1>1, <2>2 DEF Queries
    <3> QED BY <2>2, <3>1 DEF StepBounds
  <2>3. CASE Packed(mask) /\ ~ (x < mask.tq)
    BY <1>1, <2>3 DEF StepBounds, RowBounds
  <2> QED BY <2>1, <2>2, <2>3
<1> DEFINE first == IF Packed(mask) THEN StepBounds(q0) ELSE NoKeys(mask)
           last == IF Packed(mask) THEN StepBounds(q0 + Block - 1) ELSE NoKeys(mask)
           masked == StepMasked(mask, q0, K0(c), Block, first, last)
<1>3. StepShows(q0, K0(c), i, k) <=>
        (Padded(mask) \/ masked => InBounds(mask, i, k) /\ k \notin mask.pad)
  <2>1. StepBounds(i) = RowBounds(mask, i)
    BY <1>1, <1>2
  <2> QED BY <2>1 DEF StepShows, InBounds
<1>4. SeenAt(i, k) <=> InBounds(mask, i, k) /\ k \notin mask.pad
  BY <1>1, SeenAtIs
<1>5. ASSUME ~Padded(mask), ~masked PROVE InBounds(mask, i, k) /\ k \notin mask.pad
  <2>1. ~StepMasked(mask, q0, K0(c), Block, RowBounds(mask, q0), RowBounds(mask, q0 + Block - 1))
    <3>1. StepBounds(q0) = RowBounds(mask, q0)
          /\ StepBounds(q0 + Block - 1) = RowBounds(mask, q0 + Block - 1)
      BY <1>1, <1>2
    <3> QED BY <1>5, <3>1 DEF StepMasked
  <2>2. i < mask.tq
    <3>1. CASE ~Packed(mask)
      BY <1>1, <2>1, <3>1 DEF StepMasked
    <3>2. CASE Packed(mask)
      <4>1. RowBounds(mask, q0 + Block - 1)[1] <= K0(c)
        BY <2>1, <3>2 DEF StepMasked
      <4>2. RowBounds(mask, q0 + Block - 1) # NoKeys(mask)
        BY <1>1, <4>1 DEF NoKeys
      <4>3. q0 + Block - 1 < mask.tq
        BY <1>1, <3>2, <4>2 DEF RowBounds
      <4> QED BY <1>1, <4>3
    <3> QED BY <3>1, <3>2
  <2>3. RowBounds(mask, i)[1] <= K0(c) /\ K0(c) + Block <= RowBounds(mask, i)[2]
    BY <1>1, <2>1, <2>2, UnmaskedStep
  <2>4. RowBounds(mask, i)[1] \in Nat /\ RowBounds(mask, i)[2] \in Nat
    BY <1>1, BoundsInKeys
  <2>5. InBounds(mask, i, k)
    BY <1>1, <2>3, <2>4 DEF InBounds
  <2>6. mask.pad = {}
    BY <1>1, <1>5 DEF IsCall
  <2> QED BY <2>5, <2>6
<1> QED BY <1>3, <1>4, <1>5
\* dq takes the product of a row and a key it sees once, of another never, whichever
\* half of whichever tile it meets the key in.
LEMMA TimesIs ==
  ASSUME mask \in Masks, NEW q0 \in Nat,
         NEW b, b = [r \in q0 .. q0 + DqBlock - 1 |-> RowBounds(mask, r)],
         NEW i \in q0 .. q0 + DqBlock - 1, i < mask.tq, NEW c \in Keys
  PROVE  DqTimes(q0, b, i, c) = Once(c \in Sees(mask, i))
<1> DEFINE half == DqTile \div 2
           s == Tiles(SpanLo(mask, b), SpanHi(mask, b), DqTile)
           row0 == i - ((i - q0) % DqRows)
           Start(jh) == (s[1] + jh[1]) * DqTile + jh[2] * half
           Masked(start) == TileMasked(mask, row0, DqRows, start, half, b)
           Shown(start) ==
             /\ start <= c /\ c < start + half
             /\ Padded(mask) \/ Masked(start) => b[i][1] <= c /\ c < b[i][2] /\ c \notin mask.pad
           Places == (0 .. s[2] - 1) \X {0, 1}
           Met == {jh \in Places : Shown(Start(jh))}
           w == c \div half
<1>1. /\ IsMask(mask) /\ IsCall(mask) /\ mask.tq \in Nat /\ mask.tk \in Nat
      /\ DqBlock \in Nat \ {0} /\ DqRows \in Nat \ {0} /\ DqTile \in Nat \ {0}
      /\ i \in Nat /\ c \in Nat /\ q0 <= i /\ i <= q0 + DqBlock - 1
  BY Lengths, Sizes DEF Keys
<1>2. half \in Nat \ {0} /\ DqTile = 2 * half
  BY SizesAssumption
<1>3. s \in Nat \X Nat /\ (InBounds(mask, i, c) => s[1] * DqTile <= c /\ c < (s[1] + s[2]) * DqTile)
  <2>1. q0 .. q0 + DqBlock - 1 \subseteq Nat /\ c \in Int
    BY <1>1
  <2> QED BY <1>1, <2>1, TilesHoldRows
<1>4. DqTimes(q0, b, i, c) = Cardinality(Met)
  BY DEF DqTimes
<1> HIDE DEF s
<1>5. c \in Sees(mask, i) <=> InBounds(mask, i, c) /\ c \notin mask.pad
  BY <1>1, SeenIsInBounds
<1>6. b[i] = RowBounds(mask, i)
  BY <1>1
<1>7. /\ row0 \in Nat /\ row0 <= i /\ i <= row0 + DqRows - 1
      /\ \A x \in row0 .. row0 + DqRows - 1 : x \in q0 .. q0 + DqBlock - 1
  <2> DEFINE a == i - q0
             u == a \div DqRows
             v == a % DqRows
             n == DqBlock \div DqRows
  <2>1. a \in Nat /\ a < DqBlock
    BY <1>1
  <2> HIDE DEF a
  <2>2. u \in Nat /\ v \in 0 .. DqRows - 1 /\ a = u * DqRows + v
    BY <1>1, <2>1, Divided
  <2>3. n \in Nat /\ DqBlock = n * DqRows
    <3>1. n \in Nat /\ DqBlock = n * DqRows + (DqBlock % DqRows)
      BY <1>1, Divided
    <3>2. DqBlock % DqRows = 0
      BY SizesAssumption
    <3>3. n * DqRows \in Nat
      BY <1>1, <3>1
    <3> HIDE DEF n
    <3> QED BY <3>1, <3>2, <3>3
  <2>4. u < n
    <3>1. a < n * DqRows
      BY <2>1, <2>3
    <3>2. n \in Nat
      BY <2>3
    <3> HIDE DEF n
    <3> QED BY <1>1, <2>1, <3>1, <3>2, DividedBelow
  <2> HIDE DEF u, v, n
  <2>5. (u + 1) * DqRows <= DqBlock /\ (u + 1) * DqRows = u * DqRows + DqRows /\ u * DqRows \in Nat
    BY <1>1, <2>2, <2>3, <2>4, TimesOnward
  <2> DEFINE p == u * DqRows
  <2>6. row0 = i - v
    BY DEF a, v
  <2>7. p \in Nat /\ p + DqRows <= DqBlock /\ a = p + v
    BY <2>2, <2>5
  <2> HIDE DEF p, row0
  <2>8. i = q0 + p + v
    BY <1>1, <2>2, <2>7 DEF a
  <2>9. row0 = q0 + p
    BY <1>1, <2>2, <2>6, <2>7, <2>8
  <2> QED BY <1>1, <2>2, <2>7, <2>8, <2>9
<1> HIDE DEF row0
<1>8. \A jh \in Places : Shown(Start(jh)) <=> w = 2 * (s[1] + jh[1]) + jh[2] /\ c \in Sees(mask, i)
  <2> TAKE jh \in Places
  <2> DEFINE h == 2 * (s[1] + jh[1]) + jh[2]
             start == Start(jh)
  <2>1. jh[1] \in Nat /\ jh[2] \in {0, 1} /\ s[1] \in Nat /\ s[2] \in Nat
    BY <1>3
  <2>2. h \in Nat /\ start = h * half /\ start \in Nat
    <3> HIDE DEF half
    <3>1. h \in Nat
      BY <2>1
    <3>2. start = h * half
      <4>1. start = (s[1] + jh[1]) * (2 * half) + jh[2] * half
        BY <1>2
      <4>2. \A x, y \in Nat : x * (2 * half) + y * half = (2 * x + y) * half
        BY <1>2
      <4>3. s[1] + jh[1] \in Nat /\ jh[2] \in Nat
        BY <2>1
      <4> QED BY <4>1, <4>2, <4>3
    <3>3. h * half \in Nat
      BY <1>2, <3>1
    <3> QED BY <3>1, <3>2, <3>3
  <2>3. (start <= c /\ c < start + half) <=> w = h
    <3> HIDE DEF half, h, start
    <3>1. (h + 1) * half = h * half + half /\ h * half \in Nat
      BY <1>2, <2>2
    <3>2. c \in h * half .. (h + 1) * half - 1 <=> w = h
      <4>1. h \in Int /\ c \in Nat /\ half \in Nat \ {0}
        BY <1>1, <1>2, <2>2
      <4> QED BY ONLY <4>1, InCube DEF w
    <3> QED BY <1>1, <1>2, <2>2, <3>1, <3>2
  <2>4. ASSUME w = h, ~Padded(mask), ~Masked(start) PROVE c \in Sees(mask, i)
    <3> HIDE DEF half, h, start, w
    <3>1. RowBounds(mask, i)[1] <= start /\ start + half <= RowBounds(mask, i)[2]
      <4>1. \A x \in row0 .. row0 + DqRows - 1 : b[x] = RowBounds(mask, x)
        BY <1>7
      <4> QED BY <1>1, <1>2, <1>7, <2>2, <2>4, <4>1, UnmaskedTile
    <3>2. RowBounds(mask, i)[1] \in Nat /\ RowBounds(mask, i)[2] \in Nat
      BY <1>1, BoundsInKeys
    <3>3. InBounds(mask, i, c)
      BY <1>1, <1>2, <2>2, <2>3, <2>4, <3>1, <3>2 DEF InBounds
    <3>4. mask.pad = {}
      BY <1>1, <2>4 DEF IsCall
    <3> QED BY <1>5, <3>3, <3>4
  <2>5. Shown(start) <=>
          /\ w = h
          /\ Padded(mask) \/ Masked(start) => InBounds(mask, i, c) /\ c \notin mask.pad
    <3> HIDE DEF half, h, start, w, Masked
    <3> QED BY <1>6, <2>3 DEF InBounds
  <2> HIDE DEF half, h, start, w, Masked, Shown
  <2>6. Shown(start) <=> w = h /\ c \in Sees(mask, i)
    BY <1>5, <2>4, <2>5
  <2> QED BY <2>6 DEF start, h
<1>9. CASE c \notin Sees(mask, i)
  <2>1. Met = {}
    <3> HIDE DEF Shown, Places, Start
    <3> QED BY <1>8, <1>9
  <2>2. Cardinality(Met) = 0
    BY <2>1, FS_EmptySet
  <2> QED BY <1>4, <1>9, <2>2 DEF Once
<1>10. CASE c \in Sees(mask, i)
  <2> DEFINE j == w \div 2 - s[1]
             e == w % 2
  <2>1. w \in Nat /\ 2 * s[1] <= w /\ w < 2 * (s[1] + s[2]) /\ s[1] \in Nat /\ s[2] \in Nat
    <3>1. s[1] * DqTile <= c /\ c < (s[1] + s[2]) * DqTile /\ s[1] \in Nat /\ s[2] \in Nat
      BY <1>3, <1>5, <1>10
    <3> HIDE DEF half
    <3>2. \A x \in Nat : x * DqTile = (2 * x) * half
      BY <1>2
    <3>3. (2 * s[1]) * half <= c /\ c < (2 * (s[1] + s[2])) * half
      <4>1. s[1] + s[2] \in Nat
        BY <3>1
      <4> QED BY <3>1, <3>2, <4>1
    <3>4. w \in Nat
      BY <1>1, <1>2, Divided
    <3>5. w < 2 * (s[1] + s[2])
      <4>1. 2 * (s[1] + s[2]) \in Nat
        BY <3>1
      <4> HIDE DEF w
      <4> QED BY <1>1, <1>2, <3>3, <4>1, DividedBelow DEF w
    <3>6. 2 * s[1] <= w
      <4>1. 2 * s[1] \in Nat /\ (2 * s[1]) * half \in Nat
        BY <1>2, <3>1
      <4>2. ((2 * s[1]) * half) \div half = 2 * s[1]
        <5>1. 0 \in 0 .. half - 1 /\ (2 * s[1]) * half = (2 * s[1]) * half + 0
          BY <1>2, <4>1
        <5> QED BY <1>2, <4>1, <5>1, QuotientIs
      <4>3. ((2 * s[1]) * half) \div half <= w
        BY <1>1, <1>2, <3>3, <4>1, DividedOnward
      <4> QED BY <4>2, <4>3
    <3> QED BY <3>1, <3>4, <3>5, <3>6
  <2> HIDE DEF w
  <2>2. j \in 0 .. s[2] - 1 /\ e \in {0, 1} /\ w = 2 * (s[1] + j) + e
    BY <2>1
  <2>3. <<j, e>> \in Places
    BY <2>2
  <2>4. \A jh \in Places : w = 2 * (s[1] + jh[1]) + jh[2] <=> jh = <<j, e>>
    <3> TAKE jh \in Places
    <3>1. jh = <<jh[1], jh[2]>> /\ jh[1] \in Nat /\ jh[2] \in {0, 1}
      OBVIOUS
    <3>2. j \in Nat
      BY <2>2
    <3>3. w = 2 * (s[1] + jh[1]) + jh[2] <=> jh[1] = j /\ jh[2] = e
      <4> HIDE DEF j, e
      <4>1. s[1] + jh[1] \in Nat /\ s[1] + j \in Nat
        BY <2>1, <3>1, <3>2
      <4>2. \A x, y \in Nat, f, g \in {0, 1} : 2 * x + f = 2 * y + g <=> x = y /\ f = g
        OBVIOUS
      <4>3. w = 2 * (s[1] + jh[1]) + jh[2] <=> s[1] + jh[1] = s[1] + j /\ jh[2] = e
        BY <2>2, <3>1, <4>1, <4>2
      <4> QED BY <2>1, <3>1, <3>2, <4>3
    <3> HIDE DEF j, e
    <3> QED BY <3>1, <3>3
  <2> HIDE DEF j, e
  <2>5. Met = {<<j, e>>}
    <3> HIDE DEF Shown, Places, Start
    <3> QED BY <1>8, <1>10, <2>3, <2>4
  <2>6. Cardinality(Met) = 1
    BY <2>5, FS_Singleton
  <2> QED BY <1>4, <1>10, <2>6 DEF Once
<1> QED BY <1>9, <1>10
-----------------------------------------------------------------------------
(* The cubes that write the gradients. *)

\* Each gradient has a cube that writes it: the sweep's, or the rounding's.
LEMMA WritersExist ==
  ASSUME mask \in Masks, split \in BOOLEAN, atomic \in BOOLEAN
  PROVE  /\ DqTiles \in Nat /\ KvChunks \in Nat /\ Ceil(KvChunks, UnitsPerCube) \in Nat
         /\ atomic => DqTiles = QBlocks * Group /\ DqTiles > 0
         /\ ~atomic => DqTiles = 0
         /\ split => KvChunks > 0
         /\ ~split => Ceil(KvChunks, UnitsPerCube) = 0
         /\ FinishNeeded <=> atomic \/ split
         /\ \A hi \in HeadRows : /\ DqCube(hi) \in DqCubes
                                 /\ atomic => TileOf(hi) \in 0 .. DqTiles - 1
         /\ \A kc \in KeyChunks : /\ DkvCube(kc) \in ProductCubes
                                  /\ split => DkvRun(kc) \in FinishCubes /\ DkvRun(kc) >= DqTiles
<1>1. /\ mask.tq \in Nat /\ mask.tq > 0 /\ mask.tk \in Nat /\ mask.tk > 0
      /\ QBlocks \in Nat /\ QBlocks > 0
      /\ Group \in Nat \ {0} /\ Block \in Nat \ {0} /\ Chunks \in Nat \ {0}
      /\ DqBlock \in Nat \ {0} /\ UnitsPerCube \in Nat \ {0}
  BY Lengths, Sizes
<1>2. /\ QBlocks * Group \in Nat /\ QBlocks * Group > 0
      /\ mask.tk * Chunks \in Nat /\ mask.tk * Chunks > 0
  <2>1. 1 * Group <= QBlocks * Group /\ QBlocks * Group \in Nat
    BY <1>1, TimesOnward
  <2>2. 1 * Chunks <= mask.tk * Chunks /\ mask.tk * Chunks \in Nat
    BY <1>1, TimesOnward
  <2> QED BY <1>1, <2>1, <2>2
<1>3. /\ DqTiles \in Nat /\ KvChunks \in Nat
      /\ atomic => DqTiles = QBlocks * Group /\ DqTiles > 0
      /\ ~atomic => DqTiles = 0
      /\ split => KvChunks > 0
      /\ ~split => KvChunks = 0
  BY <1>2 DEF DqTiles, KvChunks
<1>4. Ceil(KvChunks, UnitsPerCube) \in Nat
  BY <1>1, <1>3, CubesHold
<1>5. ~split => Ceil(KvChunks, UnitsPerCube) = 0
  <2> SUFFICES ASSUME KvChunks = 0 PROVE Ceil(KvChunks, UnitsPerCube) = 0
    BY <1>3
  <2>1. /\ UnitsPerCube - 1 \in Nat /\ UnitsPerCube - 1 \in 0 .. UnitsPerCube - 1
        /\ UnitsPerCube - 1 = 0 * UnitsPerCube + (UnitsPerCube - 1)
    BY <1>1
  <2>2. (UnitsPerCube - 1) \div UnitsPerCube = 0
    BY <1>1, <2>1, QuotientIs
  <2> QED BY <1>1, <2>2 DEF Ceil
<1>6. FinishNeeded <=> atomic \/ split
  BY <1>3 DEF FinishNeeded
<1>7. ASSUME NEW hi \in HeadRows
      PROVE  DqCube(hi) \in DqCubes /\ (atomic => TileOf(hi) \in 0 .. DqTiles - 1)
  <2>1. hi[1] \in Heads /\ hi[1] \in 0 .. Group - 1 /\ hi[2] \in 0 .. mask.tq - 1 /\ hi[2] \in Queries
    BY DEF HeadRows, Heads, Queries
  <2>2. hi[2] \div DqBlock \in 0 .. Ceil(mask.tq, DqBlock) - 1 /\ Ceil(mask.tq, DqBlock) \in Nat
    BY <1>1, <2>1, CubesHold
  <2>3. DqCube(hi) \in DqCubes
    <3>1. Ceil(mask.tq, DqBlock) - 1 - hi[2] \div DqBlock \in 0 .. Ceil(mask.tq, DqBlock) - 1
      BY <2>2
    <3> QED BY <2>1, <3>1 DEF DqCube, DqCubes
  <2>4. hi[2] \div Block \in 0 .. QBlocks - 1
    BY <2>1, Lengths
  <2>5. TileOf(hi) \in Nat /\ TileOf(hi) < Group * QBlocks
    BY <1>1, <2>1, <2>4, Composed DEF TileOf
  <2>6. Group * QBlocks = QBlocks * Group
    BY <1>1
  <2> QED BY <1>3, <2>3, <2>5, <2>6
<1>8. ASSUME NEW kc \in KeyChunks
      PROVE  /\ DkvCube(kc) \in ProductCubes
             /\ split => DkvRun(kc) \in FinishCubes /\ DkvRun(kc) >= DqTiles
  <2>1. kc[1] \in 0 .. mask.tk - 1 /\ kc[2] \in 0 .. Chunks - 1
    BY DEF KeyChunks, Keys
  <2>2. kc[1] \div Block \in 0 .. Ceil(mask.tk, Block) - 1
    BY <1>1, <2>1, CubesHold
  <2>3. DkvCube(kc) \in ProductCubes
    BY <2>2 DEF DkvCube, ProductCubes
  <2>4. split => UnitOf(kc) \in 0 .. KvChunks - 1
    BY <1>3, DeltaReaches
  <2>5. split => UnitOf(kc) \div UnitsPerCube \in 0 .. Ceil(KvChunks, UnitsPerCube) - 1
    BY <1>1, <1>3, <2>4, CubesHold
  <2>6. split => DkvRun(kc) \in FinishCubes /\ DkvRun(kc) >= DqTiles
    BY <1>3, <1>4, <2>5 DEF DkvRun, FinishCubes
  <2> QED BY <2>3, <2>6
<1> QED BY <1>3, <1>4, <1>5, <1>6, <1>7, <1>8

-----------------------------------------------------------------------------
(* What stays as it was. *)

\* Of a call that goes on, how its work is cut and what its gradients are.
LEMMA Fixed ==
  ASSUME UNCHANGED call
  PROVE  /\ mask' = mask /\ split' = split /\ atomic' = atomic
         /\ Queries' = Queries /\ Keys' = Keys /\ HeadRows' = HeadRows
         /\ QBlocks' = QBlocks /\ AccRows' = AccRows /\ KeyChunks' = KeyChunks
         /\ DeltaCubes' = DeltaCubes /\ DqCubes' = DqCubes
         /\ ProductCubes' = ProductCubes /\ FinishCubes' = FinishCubes
         /\ FinishNeeded' = FinishNeeded
         /\ \A c : Plan(c)' = Plan(c)
         /\ \A i : LseBwd(i)' = LseBwd(i)
         /\ \A i, k : SeenAt(i, k)' <=> SeenAt(i, k)
         /\ \A c, t, h, i : TurnOn(c, t, h, i)' <=> TurnOn(c, t, h, i)
         /\ \A hi : DqOf(hi)' = DqOf(hi) /\ DqCube(hi)' = DqCube(hi) /\ TileOf(hi)' = TileOf(hi)
         /\ \A kc : DkvOf(kc)' = DkvOf(kc) /\ DkvRun(kc)' = DkvRun(kc)
<1>1. mask' = mask /\ split' = split /\ atomic' = atomic
  BY DEF call
<1>2. /\ Queries' = Queries /\ Keys' = Keys /\ QBlocks' = QBlocks
      /\ Rows' = Rows /\ KvChunks' = KvChunks
  BY <1>1 DEF Queries, Keys, QBlocks, Rows, KvChunks
<1>3. /\ HeadRows' = HeadRows /\ AccRows' = AccRows /\ KeyChunks' = KeyChunks
      /\ ZeroRows' = ZeroRows /\ DqTiles' = DqTiles
  BY <1>1, <1>2 DEF HeadRows, AccRows, KeyChunks, ZeroRows, DqTiles
<1>4. /\ DeltaCubes' = DeltaCubes /\ DqCubes' = DqCubes
      /\ ProductCubes' = ProductCubes /\ FinishCubes' = FinishCubes
      /\ FinishNeeded' = FinishNeeded
  BY <1>1, <1>2, <1>3 DEF DeltaCubes, DqCubes, ProductCubes, FinishCubes, FinishNeeded
<1>5. \A c : Plan(c)' = Plan(c)
  BY <1>1 DEF Plan
<1>6. /\ \A i : LseBwd(i)' = LseBwd(i)
      /\ \A i, k : SeenAt(i, k)' <=> SeenAt(i, k)
  BY <1>1 DEF LseBwd, SeenAt
<1>7. \A c, t, h, i : TurnOn(c, t, h, i)' <=> TurnOn(c, t, h, i)
  BY <1>5 DEF TurnOn
<1>8. /\ \A hi : DqOf(hi)' = DqOf(hi) /\ DqCube(hi)' = DqCube(hi) /\ TileOf(hi)' = TileOf(hi)
      /\ \A kc : DkvOf(kc)' = DkvOf(kc) /\ DkvRun(kc)' = DkvRun(kc)
  BY <1>1, <1>2, <1>3 DEF DqOf, DqCube, TileOf, DkvOf, DkvRun
<1> QED BY <1>1, <1>2, <1>3, <1>4, <1>5, <1>6, <1>7, <1>8

\* What delta prepared stays while no cube of it ends.
LEMMA SamePrepared ==
  ASSUME UNCHANGED call, DeltaRan' = DeltaRan
  PROVE  /\ \A row : RowDone(row)' <=> RowDone(row)
         /\ \A unit : UnitDone(unit)' <=> UnitDone(unit)
         /\ LseNow' = LseNow /\ BoundsNow' = BoundsNow
<1>1. /\ \A row : RowDone(row)' <=> RowDone(row)
      /\ \A unit : UnitDone(unit)' <=> UnitDone(unit)
  BY DEF RowDone, UnitDone
<1>2. LseNow' = LseNow /\ BoundsNow' = BoundsNow
  BY <1>1, Fixed DEF LseNow, BoundsNow
<1> QED BY <1>1, <1>2

\* The sums of the sweeps stay while none takes a turn.
LEMMA SameTurns ==
  ASSUME UNCHANGED call, it' = it
  PROVE  /\ \A c, h, i : Took(c, h, i)' <=> Took(c, h, i)
         /\ SumsNow' = SumsNow
         /\ \A hi : DqSum(hi)' = DqSum(hi)
<1>1. \A c, h, i : Took(c, h, i)' <=> Took(c, h, i)
  BY Fixed DEF Took
<1>2. SumsNow' = SumsNow
  BY <1>1, Fixed DEF SumsNow
<1>3. \A hi : DqSum(hi)' = DqSum(hi)
  BY <1>1, Fixed DEF DqSum
<1> QED BY <1>1, <1>2, <1>3

\* So do dQ's accumulators.
LEMMA SameDqAcc ==
  ASSUME UNCHANGED call, it' = it, DeltaRan' = DeltaRan
  PROVE  DqAccNow' = DqAccNow
BY Fixed, SamePrepared, SameTurns DEF DqAccNow

\* So do those of dK and dV while no cube adds to them.
LEMMA SameKvAcc ==
  ASSUME UNCHANGED call, it' = it, DeltaRan' = DeltaRan, Flushed' = Flushed
  PROVE  KvAccNow' = KvAccNow
<1>1. \A kc : KvSum(kc)' = KvSum(kc)
  BY Fixed, SameTurns DEF KvSum
<1> QED BY <1>1, Fixed, SamePrepared DEF KvAccNow

\* The rows of dQ stay while none is written.
LEMMA SameDq ==
  ASSUME UNCHANGED call, \A hi \in HeadRows : DqWritten(hi)' <=> DqWritten(hi)
  PROVE  DqNow' = DqNow
BY Fixed DEF DqNow

\* So do those of dK and dV.
LEMMA SameDkv ==
  ASSUME UNCHANGED call, \A kc \in KeyChunks : DkvWritten(kc)' <=> DkvWritten(kc)
  PROVE  DkvNow' = DkvNow
BY Fixed DEF DkvNow
-----------------------------------------------------------------------------
(* The invariant at the start, and one lemma for each action. *)

\* A call starts in the invariant.
LEMMA InitOK == Init => IInv
<1> SUFFICES ASSUME Init PROVE IInv
  OBVIOUS
<1>1. /\ mask \in Masks /\ split \in BOOLEAN /\ atomic \in BOOLEAN
      /\ launch = "delta" /\ ran = {}
      /\ plan = [c \in ProductCubes |-> Plan(c)]
      /\ it = [c \in ProductCubes |-> Plan(c).it0]
  BY DEF Init
<1>2. DeltaRan = {} /\ Flushed = {}
  BY <1>1 DEF DeltaRan, Flushed
<1>3. Underway
  BY <1>1 DEF Underway, Launches
<1>4. Swept
  <2>1. \A c \in ProductCubes : Plan(c).it0 \in Nat /\ Plan(c).it0 <= Plan(c).it1
    BY <1>1, PlanIs
  <2> QED BY <1>1, <1>2, <2>1 DEF Swept
<1>5. lseBwd = LseNow /\ bounds = BoundsNow
  BY <1>2 DEF Init, LseNow, BoundsNow, RowDone
<1>6. dqAcc = DqAccNow /\ kvAcc = KvAccNow
  BY <1>2 DEF Init, DqAccNow, KvAccNow, RowDone, UnitDone
<1>7. sums = SumsNow
  <2>1. \A c \in ProductCubes : \A h, i : ~Took(c, h, i)
    <3>1. \A c \in ProductCubes : it[c] = Plan(c).it0 /\ Plan(c).it0 \in Nat
      BY <1>1, PlanIs
    <3> QED BY <3>1 DEF Took
  <2> QED BY <2>1 DEF Init, SumsNow, NoRowSum, Once
<1>8. dq = DqNow /\ dkv = DkvNow
  <2>1. \A hi \in HeadRows : ~DqWritten(hi)
    BY <1>1 DEF DqWritten, Finished
  <2>2. \A kc \in KeyChunks : ~DkvWritten(kc)
    BY <1>1, <1>2 DEF DkvWritten, Finished
  <2> QED BY <2>1, <2>2 DEF Init, DqNow, DkvNow
<1>9. spoilt = FALSE
  BY DEF Init
<1> QED BY <1>1, <1>3, <1>4, <1>5, <1>6, <1>7, <1>8, <1>9 DEF IInv

\* The next launch starts with what the last one has written, and swept.
LEMMA LaunchedNext ==
  ASSUME IInv, EndLaunch
  PROVE  /\ DeltaRan' = DeltaRan /\ Flushed' = Flushed
         /\ Underway' /\ Swept'
         /\ \A hi \in HeadRows : DqWritten(hi)' <=> DqWritten(hi)
         /\ \A kc \in KeyChunks : DkvWritten(kc)' <=> DkvWritten(kc)
<1>0. /\ UNCHANGED call /\ UNCHANGED <<it, sums, dqAcc, kvAcc, dq, dkv, spoilt, plan, lseBwd, bounds>>
      /\ ran = CubesOf(launch) /\ ran' = {}
      /\ launch' = CASE launch = "delta" -> IF atomic THEN "products" ELSE "dq"
                     [] launch = "dq" -> "products"
                     [] launch = "products" -> IF FinishNeeded THEN "finish" ELSE "returned"
                     [] launch = "finish" -> "returned"
      /\ launch \in Launches /\ launch # "returned"
  BY DEF IInv, Underway, EndLaunch, prepared
<1>1. /\ mask \in Masks /\ split \in BOOLEAN /\ atomic \in BOOLEAN /\ Underway /\ Swept
      /\ (FinishNeeded <=> atomic \/ split)
      /\ \A hi \in HeadRows : /\ DqCube(hi) \in DqCubes
                              /\ atomic => TileOf(hi) \in FinishCubes
      /\ \A kc \in KeyChunks : split => DkvRun(kc) \in FinishCubes
  <2>1. mask \in Masks /\ split \in BOOLEAN /\ atomic \in BOOLEAN /\ Underway /\ Swept
    BY DEF IInv, Underway
  <2>2. 0 .. DqTiles - 1 \subseteq FinishCubes
    BY <2>1, WritersExist DEF FinishCubes
  <2> QED BY <2>1, <2>2, WritersExist
<1>2. \/ launch = "delta" /\ atomic /\ launch' = "products" /\ ran = DeltaCubes
      \/ launch = "delta" /\ ~atomic /\ launch' = "dq" /\ ran = DeltaCubes
      \/ launch = "dq" /\ ~atomic /\ launch' = "products" /\ ran = DqCubes
      \/ launch = "products" /\ FinishNeeded /\ launch' = "finish" /\ ran = ProductCubes
      \/ launch = "products" /\ ~FinishNeeded /\ launch' = "returned" /\ ran = ProductCubes
      \/ launch = "finish" /\ launch' = "returned" /\ ran = FinishCubes
  BY <1>0, <1>1 DEF Launches, CubesOf, Underway
<1>3. DeltaRan' = DeltaRan /\ Flushed' = Flushed
  BY <1>0, <1>2, Fixed DEF DeltaRan, Flushed
<1>4. Underway'
  BY <1>0, <1>1, <1>2, Fixed DEF Underway, Launches
<1>5. Swept'
  BY <1>0, <1>1, <1>2, <1>3, Fixed DEF Swept
<1>6. \A hi \in HeadRows : DqWritten(hi)' <=> DqWritten(hi)
  BY <1>0, <1>1, <1>2, Fixed DEF DqWritten, Finished
<1>7. \A kc \in KeyChunks : DkvWritten(kc)' <=> DkvWritten(kc)
  <2>1. \A kc : DkvCube(kc)' = DkvCube(kc)
    BY DEF DkvCube
  <2> QED BY <1>0, <1>1, <1>2, <1>3, <2>1, Fixed DEF DkvWritten, Finished
<1> QED BY <1>3, <1>4, <1>5, <1>6, <1>7

\* The next launch starts.
LEMMA EndLaunchOK ==
  ASSUME IInv, EndLaunch
  PROVE  IInv'
<1>1. UNCHANGED call /\ UNCHANGED <<it, sums, dqAcc, kvAcc, dq, dkv, spoilt, plan, lseBwd, bounds>>
  BY DEF EndLaunch, prepared
<1>2. plan' = [c \in ProductCubes |-> Plan(c)]'
  BY <1>1, Fixed DEF IInv
<1> QED BY <1>1, <1>2, LaunchedNext, SamePrepared, SameTurns, SameDqAcc, SameKvAcc, SameDq,
           SameDkv DEF IInv

\* While delta runs no turn is taken.
LEMMA NoTurns ==
  ASSUME mask \in Masks, split \in BOOLEAN, Swept, launch \in {"delta", "dq"}
  PROVE  /\ \A c \in ProductCubes : \A h, i : ~Took(c, h, i)
         /\ \A hi : DqSum(hi) = NoKeySum
         /\ \A kc : KvSum(kc) = NoRowSum
<1>1. \A c \in ProductCubes : \A h, i : ~Took(c, h, i)
  <2>1. \A c \in ProductCubes : it[c] = Plan(c).it0 /\ Plan(c).it0 \in Nat
    BY PlanIs DEF Swept
  <2> QED BY <2>1 DEF Took
<1>2. Flushed = {}
  BY DEF Flushed
<1> QED BY <1>1, <1>2 DEF DqSum, KvSum, NoKeySum, NoRowSum, Once

\* A cube of delta ends.
LEMMA DeltaOK ==
  ASSUME IInv, NEW x \in DeltaCubes, Delta(x)
  PROVE  IInv'
<1>0. /\ UNCHANGED call /\ UNCHANGED <<plan, it, sums, dq, dkv, spoilt>>
      /\ launch = "delta" /\ launch' = launch /\ ran' = ran \cup {x}
      /\ mask \in Masks /\ split \in BOOLEAN /\ atomic \in BOOLEAN /\ Underway /\ Swept
  BY DEF IInv, Underway, Delta, Starts, Ended
<1> DEFINE rows == x * RowsPerCube .. (x + 1) * RowsPerCube - 1
           units == x * UnitsPerCube .. (x + 1) * UnitsPerCube - 1
<1>1. /\ dqAcc' = [hi \in AccRows |->
                     IF AccRow(hi[1], hi[2]) \in rows /\ AccRow(hi[1], hi[2]) < ZeroRows
                     THEN NoKeySum ELSE dqAcc[hi]]
      /\ kvAcc' = [kc \in KeyChunks |->
                     IF UnitOf(kc) \in units /\ UnitOf(kc) < KvChunks
                     THEN NoRowSum ELSE kvAcc[kc]]
      /\ lseBwd' = [hi \in HeadRows |-> IF RowOf(hi) \in rows THEN LseBwd(hi[2]) ELSE lseBwd[hi]]
      /\ bounds' = [i \in Queries |-> IF Packed(mask) /\ RowOf(<<0, i>>) \in rows
                                      THEN RowBounds(mask, i) ELSE bounds[i]]
  BY DEF Delta, UnitOf, RowOf
<1>2. DeltaRan = ran /\ DeltaRan' = ran \cup {x} /\ Flushed = {} /\ Flushed' = {}
  BY <1>0 DEF DeltaRan, Flushed
<1>3. x \in Int
  <2>1. \A n \in Int : 0 .. n \subseteq Int
    OBVIOUS
  <2> QED BY DEF DeltaCubes
<1>4. /\ \A row \in Nat : row \in rows <=> row \div RowsPerCube = x
      /\ \A unit \in Nat : unit \in units <=> unit \div UnitsPerCube = x
  BY <1>3, Sizes, InCube
<1> HIDE DEF rows, units
<1>5. /\ \A row \in Nat : RowDone(row)' <=> RowDone(row) \/ row \in rows
      /\ \A unit \in Nat : UnitDone(unit)' <=> UnitDone(unit) \/ unit \in units
  BY <1>2, <1>4 DEF RowDone, UnitDone
<1>6. Underway'
  <2>1. ran' \subseteq DeltaCubes
    BY <1>0 DEF Underway, CubesOf
  <2> QED BY <1>0, <2>1, Fixed DEF Underway, CubesOf
<1>7. Swept'
  BY <1>0, <1>2, Fixed DEF Swept
<1>8. lseBwd' = LseNow'
  <2>1. \A hi \in HeadRows : RowOf(hi) \in Nat
    BY <1>0, DeltaReaches
  <2>2. \A hi \in HeadRows :
          (IF RowOf(hi) \in rows THEN LseBwd(hi[2]) ELSE lseBwd[hi])
            = IF RowDone(RowOf(hi))' THEN LseBwd(hi[2]) ELSE "junk"
    BY <1>5, <2>1 DEF IInv, LseNow
  <2>3. LseNow' = [hi \in HeadRows |-> IF RowDone(RowOf(hi))' THEN LseBwd(hi[2]) ELSE "junk"]
    BY <1>0, Fixed DEF LseNow, RowOf
  <2> QED BY <1>1, <2>2, <2>3
<1>9. bounds' = BoundsNow'
  <2>1. \A i \in Queries : RowOf(<<0, i>>) \in Nat
    <3>1. \A i \in Queries : <<0, i>> \in HeadRows
      BY Sizes DEF HeadRows, Heads
    <3> QED BY <1>0, <3>1, DeltaReaches
  <2>2. \A i \in Queries :
          (IF Packed(mask) /\ RowOf(<<0, i>>) \in rows THEN RowBounds(mask, i) ELSE bounds[i])
            = IF Packed(mask) /\ RowDone(RowOf(<<0, i>>))' THEN RowBounds(mask, i) ELSE <<0, 0>>
    BY <1>5, <2>1 DEF IInv, BoundsNow
  <2>3. BoundsNow' = [i \in Queries |-> IF Packed(mask) /\ RowDone(RowOf(<<0, i>>))'
                                        THEN RowBounds(mask, i) ELSE <<0, 0>>]
    BY <1>0, Fixed DEF BoundsNow, RowOf
  <2> QED BY <1>1, <2>2, <2>3
<1>10. dqAcc' = DqAccNow'
  <2>1. \A hi \in AccRows : /\ AccRow(hi[1], hi[2]) \in Nat
                            /\ AccRow(hi[1], hi[2]) < ZeroRows <=> atomic
    BY <1>0, DeltaReaches
  <2>2. \A hi \in AccRows :
          (IF AccRow(hi[1], hi[2]) \in rows /\ AccRow(hi[1], hi[2]) < ZeroRows
           THEN NoKeySum ELSE dqAcc[hi])
            = IF atomic /\ RowDone(AccRow(hi[1], hi[2]))' THEN NoKeySum ELSE Junk
    BY <1>0, <1>5, <2>1, NoTurns DEF IInv, DqAccNow
  <2>3. DqAccNow' = [hi \in AccRows |-> IF atomic /\ RowDone(AccRow(hi[1], hi[2]))'
                                        THEN NoKeySum ELSE Junk]
    BY <1>0, Fixed, SameTurns, NoTurns DEF DqAccNow, AccRow
  <2> QED BY <1>1, <2>2, <2>3
<1>11. kvAcc' = KvAccNow'
  <2>1. \A kc \in KeyChunks : UnitOf(kc) \in Nat /\ (UnitOf(kc) < KvChunks <=> split)
    BY <1>0, DeltaReaches
  <2>2. \A kc \in KeyChunks :
          (IF UnitOf(kc) \in units /\ UnitOf(kc) < KvChunks THEN NoRowSum ELSE kvAcc[kc])
            = IF split /\ UnitDone(UnitOf(kc))' THEN NoRowSum ELSE Junk
    BY <1>0, <1>5, <2>1, NoTurns DEF IInv, KvAccNow
  <2>3. \A kc : KvSum(kc)' = NoRowSum
    <3>1. \A kc : KvSum(kc)' = KvSum(kc)
      BY <1>0, <1>2, Fixed, SameTurns DEF KvSum
    <3> QED BY <1>0, <3>1, NoTurns
  <2>4. KvAccNow' = [kc \in KeyChunks |-> IF split /\ UnitDone(UnitOf(kc))' THEN NoRowSum ELSE Junk]
    BY <1>0, <2>3, Fixed DEF KvAccNow, UnitOf
  <2> QED BY <1>1, <2>2, <2>4
<1>12. \A hi \in HeadRows : DqWritten(hi)' <=> DqWritten(hi)
  BY <1>0, Fixed DEF DqWritten, Finished
<1>13. \A kc \in KeyChunks : DkvWritten(kc)' <=> DkvWritten(kc)
  BY <1>0, <1>2, Fixed DEF DkvWritten, Finished
<1>14. plan' = [c \in ProductCubes |-> Plan(c)]'
  BY <1>0, Fixed DEF IInv
<1>15. sums' = SumsNow' /\ dq' = DqNow' /\ dkv' = DkvNow' /\ spoilt' = FALSE
  BY <1>0, <1>12, <1>13, SameTurns, SameDq, SameDkv DEF IInv
<1> QED BY <1>6, <1>7, <1>8, <1>9, <1>10, <1>11, <1>14, <1>15 DEF IInv
\* Once delta has ended every log-sum-exp is a number, every interval found and
\* every accumulator the call needs zeroed or added to.
LEMMA Prepared ==
  ASSUME IInv, launch # "delta"
  PROVE  /\ \A hi \in HeadRows : ~NaNAt(hi)
         /\ Packed(mask) => \A i \in Queries : bounds[i] = RowBounds(mask, i)
         /\ DqAccNow = [hi \in AccRows |-> IF atomic THEN DqSum(hi) ELSE Junk]
         /\ KvAccNow = [kc \in KeyChunks |-> IF split THEN KvSum(kc) ELSE Junk]
<1>1. mask \in Masks /\ split \in BOOLEAN /\ atomic \in BOOLEAN /\ DeltaRan = DeltaCubes
  BY DEF IInv, Underway, DeltaRan
<1>2. /\ \A hi \in HeadRows : RowDone(RowOf(hi))
      /\ \A hi \in AccRows : atomic => RowDone(AccRow(hi[1], hi[2]))
      /\ \A kc \in KeyChunks : split => UnitDone(UnitOf(kc))
  BY <1>1, DeltaReaches DEF RowDone, UnitDone
<1>3. \A hi \in HeadRows : ~NaNAt(hi)
  <2> TAKE hi \in HeadRows
  <2>1. lseBwd[hi] = LseBwd(hi[2])
    BY <1>2 DEF IInv, LseNow
  <2> QED BY <2>1 DEF NaNAt, LseBwd
<1>4. Packed(mask) => \A i \in Queries : bounds[i] = RowBounds(mask, i)
  <2>1. \A i \in Queries : <<0, i>> \in HeadRows
    BY Sizes DEF HeadRows, Heads
  <2> QED BY <1>2, <2>1 DEF IInv, BoundsNow
<1>5. DqAccNow = [hi \in AccRows |-> IF atomic THEN DqSum(hi) ELSE Junk]
  BY <1>2 DEF DqAccNow
<1>6. KvAccNow = [kc \in KeyChunks |-> IF split THEN KvSum(kc) ELSE Junk]
  BY <1>2 DEF KvAccNow
<1> QED BY <1>3, <1>4, <1>5, <1>6

\* The rows of a cube of dq are those it is the cube of.
LEMMA DqRowsAre ==
  ASSUME mask \in Masks, NEW x \in DqCubes, NEW hi \in HeadRows
  PROVE  LET q0 == (Ceil(mask.tq, DqBlock) - 1 - x[1]) * DqBlock
         IN /\ q0 \in Nat
            /\ hi[1] = x[2] /\ hi[2] \in {i \in q0 .. q0 + DqBlock - 1 : i < mask.tq}
                 <=> DqCube(hi) = x
<1> DEFINE n == Ceil(mask.tq, DqBlock)
           y == n - 1 - x[1]
           z == hi[2] \div DqBlock
<1>1. /\ n \in Nat /\ x[1] \in 0 .. n - 1 /\ x = <<x[1], x[2]>>
      /\ hi[2] \in Nat /\ hi[2] < mask.tq /\ DqBlock \in Nat \ {0} /\ mask.tq \in Nat
  <2>1. mask.tq \in Nat /\ DqBlock \in Nat \ {0}
    BY Lengths, Sizes
  <2>2. n \in Nat
    BY <2>1, CubesHold
  <2>3. x[1] \in 0 .. n - 1 /\ x = <<x[1], x[2]>>
    BY DEF DqCubes
  <2>4. hi[2] \in 0 .. mask.tq - 1
    BY DEF HeadRows, Queries
  <2> QED BY <2>1, <2>2, <2>3, <2>4
<1> HIDE DEF n
<1>2. y \in Nat /\ z \in Nat
  <2>1. z \in Nat
    BY <1>1, Divided
  <2> QED BY <1>1, <2>1
<1>3. hi[2] \in y * DqBlock .. (y + 1) * DqBlock - 1 <=> z = y
  BY <1>1, <1>2, InCube
<1>4. y * DqBlock \in Nat /\ (y + 1) * DqBlock = y * DqBlock + DqBlock
  <2> HIDE DEF y
  <2> QED BY <1>1, <1>2
<1>5. z = y <=> n - 1 - z = x[1]
  <2> HIDE DEF z
  <2> QED BY <1>1, <1>2
<1>6. DqCube(hi) = <<n - 1 - z, hi[1]>>
  BY DEF DqCube, n
<1> HIDE DEF y, z
<1>7. hi[2] \in {i \in y * DqBlock .. y * DqBlock + DqBlock - 1 : i < mask.tq} <=> z = y
  BY <1>1, <1>3, <1>4
<1>8. DqCube(hi) = x <=> n - 1 - z = x[1] /\ hi[1] = x[2]
  BY <1>1, <1>6
<1>9. (Ceil(mask.tq, DqBlock) - 1 - x[1]) * DqBlock = y * DqBlock
  BY DEF y, n
<1> QED BY <1>4, <1>5, <1>7, <1>8, <1>9

\* A cube of dQ's kernel ends.
LEMMA DqOK ==
  ASSUME IInv, NEW x \in DqCubes, Dq(x)
  PROVE  IInv'
<1> DEFINE q0 == (Ceil(mask.tq, DqBlock) - 1 - x[1]) * DqBlock
           rows == {i \in q0 .. q0 + DqBlock - 1 : i < mask.tq}
           b == [r \in q0 .. q0 + DqBlock - 1 |-> RowBounds(mask, r)]
<1>0. /\ UNCHANGED call /\ UNCHANGED <<it, sums, plan, lseBwd, bounds, dqAcc, kvAcc, dkv>>
      /\ launch = "dq" /\ launch' = launch /\ ran' = ran \cup {x}
      /\ mask \in Masks /\ split \in BOOLEAN /\ atomic = FALSE /\ Underway /\ Swept
  BY DEF IInv, Underway, Dq, Starts, Ended, prepared
<1>1. /\ dq' = [hi \in HeadRows |->
                  IF hi[1] = x[2] /\ hi[2] \in rows
                  THEN [c \in Keys |-> DqTimes(q0, b, hi[2], c)] ELSE dq[hi]]
      /\ spoilt' = (spoilt \/ \E i \in rows : NaNAt(<<x[2], i>>))
  BY DEF Dq
<1>2. /\ q0 \in Nat
      /\ \A hi \in HeadRows : hi[1] = x[2] /\ hi[2] \in rows <=> DqCube(hi) = x
  <2>1. q0 \in Nat
    <3>1. <<0, 0>> \in HeadRows
      BY <1>0, Sizes, Lengths DEF HeadRows, Heads, Queries
    <3> QED BY <1>0, <3>1, DqRowsAre
  <2> QED BY <1>0, <2>1, DqRowsAre
<1>3. DeltaRan' = DeltaRan /\ Flushed' = Flushed
  <2>1. Flushed = {} /\ Flushed' = {}
    BY <1>0 DEF Flushed
  <2>2. DeltaRan = DeltaCubes /\ DeltaRan' = DeltaCubes'
    BY <1>0 DEF DeltaRan
  <2> QED BY <1>0, <2>1, <2>2, Fixed
<1>4. Underway'
  <2>1. ran' \subseteq CubesOf(launch)'
    BY <1>0, Fixed DEF Underway, CubesOf
  <2> QED BY <1>0, <2>1, Fixed DEF Underway
<1>5. Swept'
  BY <1>0, <1>3, Fixed DEF Swept
<1>6. spoilt' = FALSE
  <2>1. \A i \in rows : ~NaNAt(<<x[2], i>>)
    <3> TAKE i \in rows
    <3>1. i \in Queries /\ x[2] \in Heads
      BY <1>0, <1>2, Sizes, Lengths DEF DqCubes, Queries
    <3>2. <<x[2], i>> \in HeadRows
      BY <3>1 DEF HeadRows
    <3> QED BY <1>0, <3>2, Prepared
  <2> QED BY <1>1, <2>1 DEF IInv
<1>7. dq' = DqNow'
  <2>1. \A hi \in HeadRows : DqWritten(hi)' <=> DqWritten(hi) \/ DqCube(hi) = x
    BY <1>0, Fixed DEF DqWritten
  <2>2. ASSUME NEW hi \in HeadRows, DqCube(hi) = x
        PROVE  [c \in Keys |-> DqTimes(q0, b, hi[2], c)] = DqOf(hi)
    <3>1. hi[2] \in q0 .. q0 + DqBlock - 1 /\ hi[2] < mask.tq
      BY <1>2, <2>2
    <3>2. \A c \in Keys : DqTimes(q0, b, hi[2], c) = Once(c \in Sees(mask, hi[2]))
      <4> HIDE DEF q0
      <4> QED BY <1>0, <1>2, <3>1, TimesIs
    <3> QED BY <3>2 DEF DqOf
  <2> HIDE DEF q0, rows, b
  <2>3. \A hi \in HeadRows : dq[hi] = IF DqWritten(hi) THEN DqOf(hi) ELSE Pending
    BY DEF IInv, DqNow
  <2>4. DqNow' = [hi \in HeadRows |-> IF DqWritten(hi)' THEN DqOf(hi) ELSE Pending]
    BY <1>0, Fixed DEF DqNow
  <2>5. \A hi \in HeadRows :
          (IF hi[1] = x[2] /\ hi[2] \in rows
           THEN [c \in Keys |-> DqTimes(q0, b, hi[2], c)] ELSE dq[hi])
            = IF DqWritten(hi)' THEN DqOf(hi) ELSE Pending
    BY <1>2, <2>1, <2>2, <2>3
  <2> QED BY <1>1, <2>4, <2>5
<1>8. \A kc \in KeyChunks : DkvWritten(kc)' <=> DkvWritten(kc)
  BY <1>0, <1>3, Fixed DEF DkvWritten, Finished, DkvCube
<1>9. plan' = [c \in ProductCubes |-> Plan(c)]'
  BY <1>0, Fixed DEF IInv
<1> QED BY <1>0, <1>3, <1>4, <1>5, <1>6, <1>7, <1>8, <1>9, SamePrepared, SameTurns, SameDqAcc, SameKvAcc,
           SameDkv DEF IInv
-----------------------------------------------------------------------------
(* A step of the products. *)

\* The sums a call holds are numbers, so not what memory held before.
LEMMA SumsAreNumbers ==
  ASSUME mask \in Masks
  PROVE  /\ \A hi : DqSum(hi) \in [Keys -> Nat] /\ DqSum(hi) # Junk
         /\ \A kc : KvSum(kc) \in [HeadRows -> Nat] /\ KvSum(kc) # Junk
<1>1. /\ Junk \notin [Keys -> Nat] /\ Junk \notin [HeadRows -> Nat]
  BY JunkAssumption DEF Keys, HeadRows, Heads, Queries
<1>2. \A hi : DqSum(hi) \in [Keys -> Nat]
  BY DEF DqSum, Once
<1>3. \A kc : KvSum(kc) \in [HeadRows -> Nat]
  BY DEF KvSum, Once
<1> QED BY <1>1, <1>2, <1>3

\* Two counts of things that exclude each other add up.
LEMMA OnceMore ==
  ASSUME NEW a \in BOOLEAN, NEW b \in BOOLEAN, ~(a /\ b)
  PROVE  Once(a) + Once(b) = Once(a \/ b)
BY DEF Once

\* The turn a step takes: its head, its rows and its queries are of the call, it
\* is one nobody has taken, and after it the cube has taken that one more.
LEMMA TakesTurn ==
  ASSUME IInv, launch = "products", NEW c \in ProductCubes, it[c] < Plan(c).it1,
         UNCHANGED call, it' = [it EXCEPT ![c] = it[c] + 1]
  PROVE  /\ HeadAt(Plan(c), it[c]) \in Heads /\ QueryAt(Plan(c), c[1], it[c]) \in Nat
         /\ it[c] \in Nat
         /\ \A d \in ProductCubes : \A h, i :
              Took(d, h, i)' <=> Took(d, h, i) \/ (d = c /\ TurnOn(c, it[c], h, i))
         /\ \A d \in ProductCubes : \A h : \A i \in Nat :
              d[1] = c[1] => ~(Took(d, h, i) /\ TurnOn(c, it[c], h, i))
<1>1. mask \in Masks /\ split \in BOOLEAN /\ Swept
  BY DEF IInv, Underway
<1>2. \A d \in ProductCubes : /\ Plan(d).it0 \in Nat /\ Plan(d).it1 \in Nat /\ it[d] \in Nat
                              /\ Plan(d).it0 <= it[d] /\ it[d] <= Plan(d).it1
  BY <1>1, PlanIs DEF Swept
<1>3. it[c] \in Plan(c).it0 .. Plan(c).it1 - 1
  BY <1>2
<1>4. it[c] \in 0 .. Turns(c[1]) - 1
  BY <1>1, <1>3, TookOwn
<1>5. HeadAt(Plan(c), it[c]) \in Heads /\ QueryAt(Plan(c), c[1], it[c]) \in Nat
  BY <1>1, <1>4, TurnIs
<1>6. \A d \in ProductCubes : it'[d] = IF d = c THEN it[c] + 1 ELSE it[d]
  BY <1>1 DEF Swept
<1>7. ASSUME NEW d \in ProductCubes, NEW h, NEW i
      PROVE  Took(d, h, i)' <=> Took(d, h, i) \/ (d = c /\ TurnOn(c, it[c], h, i))
  <2>1. Took(d, h, i)' <=> \E t \in Plan(d).it0 .. it'[d] - 1 : TurnOn(d, t, h, i)
    BY Fixed DEF Took
  <2>2. CASE d # c
    BY <1>6, <2>1, <2>2 DEF Took
  <2>3. CASE d = c
    <3>1. \A t : t \in Plan(c).it0 .. it'[c] - 1 <=> t \in Plan(c).it0 .. it[c] - 1 \/ t = it[c]
      BY <1>2, <1>6
    <3> QED BY <2>1, <2>3, <3>1 DEF Took
  <2> QED BY <2>2, <2>3
<1>8. ASSUME NEW d \in ProductCubes, NEW h, NEW i \in Nat, d[1] = c[1],
             Took(d, h, i), TurnOn(c, it[c], h, i)
      PROVE  FALSE
  <2>1. PICK u \in Plan(d).it0 .. it[d] - 1 : TurnOn(d, u, h, i)
    BY <1>8 DEF Took
  <2>2. u \in Plan(d).it0 .. Plan(d).it1 - 1 /\ u # it[d]
    BY <1>2, <2>1
  <2>3. d = c /\ u = it[c]
    BY <1>1, <1>3, <1>8, <2>1, <2>2, OneTaker
  <2> QED BY <2>2, <2>3
<1> QED BY <1>2, <1>5, <1>7, <1>8

StepRow(c) == QueryAt(Plan(c), c[1], it[c])
ShownBy(c) ==
  {ik \in (StepRow(c) .. StepRow(c) + Block - 1) \X (K0(c) .. K0(c) + Block - 1) :
     StepShows(StepRow(c), K0(c), ik[1], ik[2])}

\* The step shows the turn's rows the keys of its block that they see.
LEMMA StepTakes ==
  ASSUME IInv, launch = "products", NEW c \in ProductCubes, it[c] < Plan(c).it1,
         UNCHANGED call, it' = [it EXCEPT ![c] = it[c] + 1]
  PROVE  /\ HeadAt(Plan(c), it[c]) \in Heads /\ StepRow(c) \in Nat
         /\ ShownBy(c) \subseteq Queries \X Keys
         /\ \A g : \A i, k \in Nat :
              g = HeadAt(Plan(c), it[c]) /\ <<i, k>> \in ShownBy(c)
                <=> KeyIn(c, k) /\ SeenAt(i, k) /\ TurnOn(c, it[c], g, i)
         /\ \A g : \A i \in Nat :
              TurnOn(c, it[c], g, i)
                <=> g = HeadAt(Plan(c), it[c]) /\ i \in StepRow(c) .. StepRow(c) + Block - 1
<1> DEFINE h == HeadAt(Plan(c), it[c])
           q0 == StepRow(c)
           shown == ShownBy(c)
<1>1. mask \in Masks /\ split \in BOOLEAN /\ h \in Heads /\ q0 \in Nat /\ it[c] \in Nat
  BY TakesTurn DEF IInv, Underway, StepRow
<1>2. /\ IsMask(mask) /\ mask.tq \in Nat /\ mask.tk \in Nat /\ Block \in Nat \ {0}
      /\ K0(c) \in Nat
  BY <1>1, Lengths, Sizes, Halves
<1>3. \A i \in q0 .. q0 + Block - 1, k \in K0(c) .. K0(c) + Block - 1 :
        StepShows(q0, K0(c), i, k) <=> SeenAt(i, k)
  BY <1>1, Prepared, ShownIs
<1>4. \A g : \A i \in Nat : TurnOn(c, it[c], g, i) <=> g = h /\ i \in q0 .. q0 + Block - 1
  BY <1>1, <1>2 DEF TurnOn, StepRow
<1>5. \A i, k : <<i, k>> \in shown
                  <=> /\ i \in q0 .. q0 + Block - 1 /\ k \in K0(c) .. K0(c) + Block - 1
                      /\ SeenAt(i, k)
  BY <1>3 DEF ShownBy
<1>6. \A k \in Nat : KeyIn(c, k) <=> k \in K0(c) .. K0(c) + Block - 1
  BY <1>2 DEF KeyIn
<1>7. shown \subseteq Queries \X Keys
  <2> SUFFICES ASSUME NEW ik \in shown PROVE ik \in Queries \X Keys
    OBVIOUS
  <2>1. ik = <<ik[1], ik[2]>> /\ ik[1] \in q0 .. q0 + Block - 1 /\ SeenAt(ik[1], ik[2])
    <3>1. ik \in (q0 .. q0 + Block - 1) \X (K0(c) .. K0(c) + Block - 1)
      BY DEF ShownBy
    <3>2. ik = <<ik[1], ik[2]>>
      BY <3>1
    <3> QED BY <1>5, <3>2
  <2>2. ik[1] \in Nat /\ ik[1] < mask.tq /\ ik[2] \in Sees(mask, ik[1])
    BY <1>1, <1>2, <2>1 DEF SeenAt
  <2>3. ik[1] \in Queries /\ ik[2] \in Keys
    BY <1>2, <2>2 DEF Queries, Keys, Sees
  <2> QED BY <2>1, <2>3
<1>8. \A g : \A i, k \in Nat :
        g = h /\ <<i, k>> \in shown <=> KeyIn(c, k) /\ SeenAt(i, k) /\ TurnOn(c, it[c], g, i)
  BY <1>4, <1>5, <1>6
<1> QED BY <1>1, <1>4, <1>7, <1>8
\* A cube of the products takes a turn.
LEMMA StepOK ==
  ASSUME IInv, NEW c \in ProductCubes, Step(c)
  PROVE  IInv'
<1> DEFINE h == HeadAt(plan[c], it[c])
           q0 == QueryAt(plan[c], c[1], it[c])
           rows == q0 .. q0 + Block - 1
           cols == K0(c) .. K0(c) + Block - 1
           On(g, i) == TurnOn(c, it[c], g, i)
           New(g, i, k) == KeyIn(c, k) /\ SeenAt(i, k) /\ On(g, i)
<1>0. /\ UNCHANGED call /\ UNCHANGED <<launch, ran, plan, lseBwd, bounds, kvAcc, dq, dkv>>
      /\ launch = "products" /\ c \notin ran
      /\ it[c] < Plan(c).it1 /\ it' = [it EXCEPT ![c] = it[c] + 1]
      /\ mask \in Masks /\ split \in BOOLEAN /\ atomic \in BOOLEAN /\ Underway /\ Swept
      /\ plan[c] = Plan(c)
  BY DEF IInv, Underway, Step, Starts, prepared
<1>1. PICK shown \in {{ik \in rows \X cols : StepShows(q0, K0(c), ik[1], ik[2])}} :
        /\ sums' = [sums EXCEPT ![c] = [k \in Keys |-> [hi \in HeadRows |->
                      sums[c][k][hi] + Once(hi[1] = h /\ <<hi[2], k>> \in shown)]]]
        /\ IF atomic
           THEN dqAcc' = [hi \in AccRows |->
                  IF hi[1] = h /\ hi[2] \in rows
                  THEN Added(dqAcc[hi], [k \in Keys |-> Once(<<hi[2], k>> \in shown)])
                  ELSE dqAcc[hi]]
           ELSE UNCHANGED dqAcc
        /\ spoilt' = (\/ spoilt
                      \/ ~(shown \subseteq Queries \X Keys)
                      \/ \E i \in rows \cap Queries : NaNAt(<<h, i>>))
  BY DEF Step
<1>2. /\ h \in Heads /\ q0 \in Nat /\ shown \subseteq Queries \X Keys
      /\ \A g : \A i, k \in Nat : g = h /\ <<i, k>> \in shown <=> New(g, i, k)
      /\ \A g : \A i \in Nat : On(g, i) <=> g = h /\ i \in rows
  <2>1. /\ h = HeadAt(Plan(c), it[c]) /\ q0 = QueryAt(Plan(c), c[1], it[c])
        /\ shown = {ik \in rows \X cols : StepShows(q0, K0(c), ik[1], ik[2])}
    BY <1>0
  <2> HIDE DEF h, q0
  <2>2. q0 = StepRow(c) /\ shown = ShownBy(c)
    BY <2>1 DEF StepRow, ShownBy
  <2> QED BY <1>0, <2>1, <2>2, StepTakes
<1> HIDE DEF h, q0, rows, cols
<1>3. /\ \A d \in ProductCubes : \A g, i : Took(d, g, i)' <=> Took(d, g, i) \/ (d = c /\ On(g, i))
      /\ \A d \in ProductCubes : \A g : \A i \in Nat : d[1] = c[1] => ~(Took(d, g, i) /\ On(g, i))
  BY <1>0, TakesTurn
<1> HIDE DEF On
<1>4. /\ \A hi \in HeadRows : hi[2] \in Nat
      /\ \A hi \in AccRows : hi[2] \in Nat
      /\ Keys \subseteq Nat
  BY Lengths, Sizes DEF HeadRows, AccRows, Queries, Keys
<1>5. DeltaRan = DeltaCubes /\ DeltaRan' = DeltaRan /\ Flushed = ran /\ Flushed' = Flushed
  <2>1. Flushed = ran /\ Flushed' = ran'
    BY <1>0 DEF Flushed
  <2>2. DeltaRan = DeltaCubes /\ DeltaRan' = DeltaCubes'
    BY <1>0 DEF DeltaRan
  <2> QED BY <1>0, <2>1, <2>2, Fixed
<1>6. Underway'
  <2>1. launch' # "returned" => ran' \subseteq CubesOf(launch)'
    BY <1>0, Fixed DEF Underway, CubesOf
  <2> QED BY <1>0, <2>1, Fixed DEF Underway
<1>7. Swept'
  <2>1. \A d \in ProductCubes : it'[d] = IF d = c THEN it[c] + 1 ELSE it[d]
    BY <1>0 DEF Swept
  <2>2. \A d \in ProductCubes : /\ Plan(d).it0 \in Nat /\ Plan(d).it1 \in Nat /\ it[d] \in Nat
                                /\ Plan(d).it0 <= it[d] /\ it[d] <= Plan(d).it1
    BY <1>0, PlanIs DEF Swept
  <2>3. it' \in [ProductCubes -> Nat]
    BY <1>0, <2>2 DEF Swept
  <2>4. \A d \in ProductCubes : Plan(d).it0 <= it'[d] /\ it'[d] <= Plan(d).it1
    BY <1>0, <2>1, <2>2
  <2>5. \A d \in ProductCubes : d \in Flushed => it'[d] = Plan(d).it1
    BY <1>0, <1>5, <2>1 DEF Swept
  <2> QED BY <1>0, <1>5, <2>3, <2>4, <2>5, Fixed DEF Swept
<1>8. spoilt' = FALSE
  <2>1. \A i \in Queries : ~NaNAt(<<h, i>>)
    <3>1. \A i \in Queries : <<h, i>> \in HeadRows
      BY <1>2 DEF HeadRows
    <3> QED BY <1>0, <3>1, Prepared
  <2> QED BY <1>1, <1>2, <2>1 DEF IInv
<1>9. sums' = SumsNow'
  <2> DEFINE Old(d, k, hi) == KeyIn(d, k) /\ SeenAt(hi[2], k) /\ Took(d, hi[1], hi[2])
             Now(d, k, hi) == Old(d, k, hi) \/ (d = c /\ New(hi[1], hi[2], k))
  <2>1. SumsNow' = [d \in ProductCubes |-> [k \in Keys |-> [hi \in HeadRows |->
                      Once(KeyIn(d, k) /\ SeenAt(hi[2], k) /\ Took(d, hi[1], hi[2])')]]]
    <3>1. \A d, k : KeyIn(d, k)' <=> KeyIn(d, k)
      BY DEF KeyIn, K0
    <3> QED BY <1>0, <3>1, Fixed DEF SumsNow
  <2>2. \A d \in ProductCubes, k \in Keys, hi \in HeadRows :
          KeyIn(d, k) /\ SeenAt(hi[2], k) /\ Took(d, hi[1], hi[2])' <=> Now(d, k, hi)
    BY <1>3
  <2>3. \A k \in Keys, hi \in HeadRows :
          sums[c][k][hi] + Once(hi[1] = h /\ <<hi[2], k>> \in shown) = Once(Now(c, k, hi))
    <3> TAKE k \in Keys, hi \in HeadRows
    <3>1. sums[c][k][hi] = Once(Old(c, k, hi))
      BY DEF IInv, SumsNow
    <3>2. hi[1] = h /\ <<hi[2], k>> \in shown <=> New(hi[1], hi[2], k)
      BY <1>2, <1>4
    <3>3. ~(Old(c, k, hi) /\ New(hi[1], hi[2], k))
      BY <1>3, <1>4
    <3>4. Once(Old(c, k, hi)) + Once(New(hi[1], hi[2], k)) = Once(Now(c, k, hi))
      <4>1. Old(c, k, hi) \in BOOLEAN /\ New(hi[1], hi[2], k) \in BOOLEAN
        BY DEF KeyIn
      <4>2. Now(c, k, hi) <=> Old(c, k, hi) \/ New(hi[1], hi[2], k)
        OBVIOUS
      <4> HIDE DEF Old, New, Now
      <4>3. Once(Old(c, k, hi)) + Once(New(hi[1], hi[2], k))
              = Once(Old(c, k, hi) \/ New(hi[1], hi[2], k))
        BY <3>3, <4>1, OnceMore
      <4> QED BY <4>2, <4>3 DEF Once
    <3>5. Once(hi[1] = h /\ <<hi[2], k>> \in shown) = Once(New(hi[1], hi[2], k))
      BY <3>2 DEF Once
    <3> QED BY <3>1, <3>4, <3>5
  <2>4. ASSUME NEW d \in ProductCubes
        PROVE  sums'[d] = [k \in Keys |-> [hi \in HeadRows |-> Once(Now(d, k, hi))]]
    <3>1. CASE d = c
      <4>1. sums'[c] = [k \in Keys |-> [hi \in HeadRows |->
                          sums[c][k][hi] + Once(hi[1] = h /\ <<hi[2], k>> \in shown)]]
        BY <1>1 DEF IInv, SumsNow
      <4> HIDE DEF Now
      <4> QED BY <2>3, <3>1, <4>1
    <3>2. CASE d # c
      <4>1. sums'[d] = sums[d]
        BY <1>1, <3>2 DEF IInv, SumsNow
      <4>2. sums[d] = [k \in Keys |-> [hi \in HeadRows |-> Once(Old(d, k, hi))]]
        BY DEF IInv, SumsNow
      <4>3. \A k \in Keys, hi \in HeadRows : Now(d, k, hi) <=> Old(d, k, hi)
        BY <3>2
      <4> HIDE DEF Now, Old
      <4> QED BY <4>1, <4>2, <4>3 DEF Once
    <3> QED BY <3>1, <3>2
  <2>5. sums' \in [ProductCubes -> {sums'[d] : d \in ProductCubes}]
    BY <1>1 DEF IInv, SumsNow
  <2> HIDE DEF Old, Now
  <2>6. SumsNow' = [d \in ProductCubes |-> [k \in Keys |-> [hi \in HeadRows |-> Once(Now(d, k, hi))]]]
    BY <2>1, <2>2 DEF Once
  <2> QED BY <2>4, <2>5, <2>6
<1>10. dqAcc' = DqAccNow'
  <2> DEFINE Old(hi, k) == \E d \in ProductCubes : KeyIn(d, k) /\ Took(d, hi[1], hi[2])
  <2>1. DqAccNow' = [hi \in AccRows |-> IF atomic THEN DqSum(hi)' ELSE Junk]
    <3>1. \A hi \in AccRows : atomic => RowDone(AccRow(hi[1], hi[2]))
      BY <1>0, <1>5, DeltaReaches DEF RowDone
    <3>2. DqAccNow' = [hi \in AccRows |-> IF atomic /\ RowDone(AccRow(hi[1], hi[2]))
                                          THEN DqSum(hi)' ELSE Junk]
      BY <1>0, <1>5, Fixed, SamePrepared DEF DqAccNow, AccRow
    <3> QED BY <3>1, <3>2
  <2>2. \A hi \in AccRows : dqAcc[hi] = IF atomic THEN DqSum(hi) ELSE Junk
    BY <1>0, Prepared DEF IInv
  <2>3. \A hi \in AccRows : DqSum(hi)' =
          [k \in Keys |-> Once(/\ SeenAt(hi[2], k)
                               /\ Old(hi, k) \/ (KeyIn(c, k) /\ On(hi[1], hi[2])))]
    <3> TAKE hi \in AccRows
    <3>1. DqSum(hi)' = [k \in Keys |-> Once(/\ SeenAt(hi[2], k)
                          /\ \E d \in ProductCubes : KeyIn(d, k) /\ Took(d, hi[1], hi[2])')]
      <4>1. \A d, k : KeyIn(d, k)' <=> KeyIn(d, k)
        BY DEF KeyIn, K0
      <4> QED BY <1>0, <4>1, Fixed DEF DqSum
    <3>2. \A k \in Keys : (\E d \in ProductCubes : KeyIn(d, k) /\ Took(d, hi[1], hi[2])')
                            <=> Old(hi, k) \/ (KeyIn(c, k) /\ On(hi[1], hi[2]))
      BY <1>3
    <3> QED BY <3>1, <3>2 DEF Once
  <2>4. CASE ~atomic
    <3>1. dqAcc = DqAccNow
      BY DEF IInv
    <3>2. dqAcc = [hi \in AccRows |-> Junk]
      BY <1>0, <2>4, <3>1, Prepared
    <3> QED BY <1>1, <2>1, <2>4, <3>2
  <2>5. ASSUME atomic, NEW hi \in AccRows
        PROVE  (IF hi[1] = h /\ hi[2] \in rows
                THEN Added(dqAcc[hi], [k \in Keys |-> Once(<<hi[2], k>> \in shown)])
                ELSE dqAcc[hi]) = DqSum(hi)'
    <3> DEFINE Was(k) == SeenAt(hi[2], k) /\ Old(hi, k)
               Is(k) == Was(k) \/ New(hi[1], hi[2], k)
    <3>1. dqAcc[hi] = DqSum(hi) /\ hi[2] \in Nat
      BY <1>4, <2>2, <2>5
    <3>2. DqSum(hi) = [k \in Keys |-> Once(Was(k))] /\ DqSum(hi) # Junk
      BY <1>0, SumsAreNumbers DEF DqSum
    <3>3. DqSum(hi)' = [k \in Keys |-> Once(Is(k))]
      <4>1. \A k : Is(k) <=> /\ SeenAt(hi[2], k)
                             /\ Old(hi, k) \/ (KeyIn(c, k) /\ On(hi[1], hi[2]))
        OBVIOUS
      <4> HIDE DEF Is, Was, Old
      <4> QED BY <2>3, <4>1 DEF Once
    <3>4. CASE ~(hi[1] = h /\ hi[2] \in rows)
      <4>1. \A k \in Keys : ~New(hi[1], hi[2], k)
        BY <1>2, <3>1, <3>4
      <4>2. \A k \in Keys : Is(k) <=> Was(k)
        BY <4>1
      <4> HIDE DEF Is, Was, New
      <4> QED BY <3>1, <3>2, <3>3, <3>4, <4>2 DEF Once
    <3>5. CASE hi[1] = h /\ hi[2] \in rows
      <4>1. \A k \in Keys : <<hi[2], k>> \in shown <=> New(hi[1], hi[2], k)
        <5>1. \A k \in Keys : k \in Nat
          BY <1>4
        <5>2. \A k \in Nat : hi[1] = h /\ <<hi[2], k>> \in shown <=> New(hi[1], hi[2], k)
          BY <1>2, <3>1
        <5> HIDE DEF New
        <5> QED BY <3>5, <5>1, <5>2
      <4>2. \A k \in Keys : ~(Was(k) /\ New(hi[1], hi[2], k))
        <5> SUFFICES ASSUME NEW k \in Keys, NEW d \in ProductCubes, KeyIn(d, k),
                            Took(d, hi[1], hi[2]), KeyIn(c, k), On(hi[1], hi[2])
                     PROVE  FALSE
          OBVIOUS
        <5>1. d[1] = c[1]
          BY <1>0, <1>4, OneBlock
        <5> QED BY <1>3, <3>1, <5>1
      <4>3. \A k \in Keys : Once(Was(k)) + Once(<<hi[2], k>> \in shown) = Once(Is(k))
        <5> TAKE k \in Keys
        <5>1. Was(k) \in BOOLEAN /\ New(hi[1], hi[2], k) \in BOOLEAN
          BY DEF SeenAt
        <5>2. Is(k) <=> Was(k) \/ New(hi[1], hi[2], k)
          OBVIOUS
        <5> HIDE DEF Was, Is, New
        <5>3. Once(Was(k)) + Once(New(hi[1], hi[2], k)) = Once(Was(k) \/ New(hi[1], hi[2], k))
          BY <4>2, <5>1, OnceMore
        <5> QED BY <4>1, <5>2, <5>3 DEF Once
      <4> HIDE DEF Was, Is, New
      <4>4. Added(DqSum(hi), [k \in Keys |-> Once(<<hi[2], k>> \in shown)])
              = [k \in Keys |-> Once(Was(k)) + Once(<<hi[2], k>> \in shown)]
        BY <3>2 DEF Added
      <4> QED BY <3>1, <3>3, <3>5, <4>3, <4>4
    <3> QED BY <3>4, <3>5
  <2>6. CASE atomic
    BY <1>1, <2>1, <2>5, <2>6
  <2> QED BY <1>0, <2>4, <2>6
<1>11. kvAcc' = KvAccNow'
  <2>1. \A kc : KvSum(kc)' = KvSum(kc)
    <3>1. \A d \in ran : \A g, i : Took(d, g, i)' <=> Took(d, g, i)
      <4>1. ran \subseteq ProductCubes
        BY <1>0 DEF Underway, CubesOf
      <4> QED BY <1>0, <1>3, <4>1
    <3>2. \A d, k : KeyIn(d, k)' <=> KeyIn(d, k)
      BY DEF KeyIn, K0
    <3> QED BY <1>0, <1>5, <3>1, <3>2, Fixed DEF KvSum
  <2> QED BY <1>0, <1>5, <2>1, Fixed, SamePrepared DEF IInv, KvAccNow, UnitOf
<1>12. \A hi \in HeadRows : DqWritten(hi)' <=> DqWritten(hi)
  BY <1>0, Fixed DEF DqWritten, Finished
<1>13. \A kc \in KeyChunks : DkvWritten(kc)' <=> DkvWritten(kc)
  BY <1>0, <1>5, Fixed DEF DkvWritten, Finished, DkvCube
<1>14. plan' = [d \in ProductCubes |-> Plan(d)]'
  BY <1>0, Fixed DEF IInv
<1>15. lseBwd' = LseNow' /\ bounds' = BoundsNow' /\ dq' = DqNow' /\ dkv' = DkvNow'
  BY <1>0, <1>5, <1>12, <1>13, SamePrepared, SameDq, SameDkv DEF IInv
<1> QED BY <1>6, <1>7, <1>8, <1>9, <1>10, <1>11, <1>14, <1>15 DEF IInv
-----------------------------------------------------------------------------
(* The end of a sweep and the rounding. *)

\* No two cubes of a key block take the same query of the same head.
LEMMA TookOnce ==
  ASSUME mask \in Masks, split \in BOOLEAN, Swept,
         NEW c \in ProductCubes, NEW d \in ProductCubes, c[1] = d[1], NEW h, NEW i \in Nat,
         Took(c, h, i), Took(d, h, i)
  PROVE  c = d
<1>1. \A e \in ProductCubes : Plan(e).it0 \in Nat /\ Plan(e).it1 \in Nat /\ it[e] \in Nat /\ it[e] <= Plan(e).it1
  BY PlanIs DEF Swept
<1>2. PICK t \in Plan(c).it0 .. it[c] - 1 : TurnOn(c, t, h, i)
  BY DEF Took
<1>3. PICK u \in Plan(d).it0 .. it[d] - 1 : TurnOn(d, u, h, i)
  BY DEF Took
<1>4. t \in Plan(c).it0 .. Plan(c).it1 - 1 /\ u \in Plan(d).it0 .. Plan(d).it1 - 1
  BY <1>1
<1> QED BY <1>2, <1>3, <1>4, OneTaker

\* Where a block is not split, its cube's sums are the gradient.
LEMMA UnsplitIs ==
  ASSUME IInv, ~split, NEW c \in ProductCubes, it[c] = Plan(c).it1, NEW kc \in KeyChunks
  PROVE  /\ DkvCube(kc) = c <=> KeyIn(c, kc[1])
         /\ KeyIn(c, kc[1]) => sums[c][kc[1]] = DkvOf(kc)
<1>1. mask \in Masks /\ split \in BOOLEAN /\ kc[1] \in Keys /\ kc[1] \in Nat
  BY Lengths DEF IInv, Underway, KeyChunks, Keys
<1>2. \A d \in ProductCubes : d = <<d[1], 0>>
  BY <1>1, Halves
<1>3. KeyIn(c, kc[1]) <=> c[1] = kc[1] \div Block
  BY <1>1, OneBlock
<1>4. DkvCube(kc) = c <=> KeyIn(c, kc[1])
  BY <1>2, <1>3 DEF DkvCube
<1>5. ASSUME KeyIn(c, kc[1]) PROVE sums[c][kc[1]] = DkvOf(kc)
  <2>1. sums[c][kc[1]] = [hi \in HeadRows |->
          Once(KeyIn(c, kc[1]) /\ SeenAt(hi[2], kc[1]) /\ Took(c, hi[1], hi[2]))]
    BY <1>1 DEF IInv, SumsNow
  <2>2. ASSUME NEW hi \in HeadRows
        PROVE  KeyIn(c, kc[1]) /\ SeenAt(hi[2], kc[1]) /\ Took(c, hi[1], hi[2])
                 <=> kc[1] \in Sees(mask, hi[2])
    <3>1. hi[1] \in Heads /\ hi[2] \in Queries /\ hi[2] < mask.tq
      BY <1>1, Lengths DEF HeadRows, Queries
    <3>2. SeenAt(hi[2], kc[1]) <=> kc[1] \in Sees(mask, hi[2])
      BY <3>1 DEF SeenAt
    <3>3. ASSUME kc[1] \in Sees(mask, hi[2]) PROVE Took(c, hi[1], hi[2])
      <4>1. \A d \in ProductCubes : d[1] = kc[1] \div Block => d \in {c} /\ it[d] = Plan(d).it1
        BY <1>2, <1>3, <1>5
      <4>2. {c} \in SUBSET ProductCubes
        OBVIOUS
      <4>3. \E d \in {c} : KeyIn(d, kc[1]) /\ Took(d, hi[1], hi[2])
        BY <1>1, <3>1, <3>3, <4>1, <4>2, AllSummed
      <4> QED BY <4>3
    <3> QED BY <1>5, <3>2, <3>3
  <2> QED BY <2>1, <2>2 DEF DkvOf, Once
<1> QED BY <1>4, <1>5

\* Where it is, the cube's sums are what its accumulators have more.
LEMMA SplitIs ==
  ASSUME IInv, NEW c \in ProductCubes, launch = "products", c \notin ran,
         NEW kc \in KeyChunks
  PROVE  LET More == [hi \in HeadRows |->
                        Once(/\ SeenAt(hi[2], kc[1])
                             /\ \E d \in ran \cup {c} : KeyIn(d, kc[1]) /\ Took(d, hi[1], hi[2]))]
         IN More = IF Plan(c).it1 > Plan(c).it0 /\ KeyIn(c, kc[1])
                   THEN Added(KvSum(kc), sums[c][kc[1]]) ELSE KvSum(kc)
<1> DEFINE Old(hi) == /\ SeenAt(hi[2], kc[1])
                      /\ \E d \in ran : KeyIn(d, kc[1]) /\ Took(d, hi[1], hi[2])
           New(hi) == KeyIn(c, kc[1]) /\ SeenAt(hi[2], kc[1]) /\ Took(c, hi[1], hi[2])
           More == [hi \in HeadRows |->
                      Once(/\ SeenAt(hi[2], kc[1])
                           /\ \E d \in ran \cup {c} : KeyIn(d, kc[1]) /\ Took(d, hi[1], hi[2]))]
<1>1. /\ mask \in Masks /\ split \in BOOLEAN /\ Swept /\ ran \subseteq ProductCubes
      /\ kc[1] \in Keys /\ kc[1] \in Nat
  BY Lengths DEF IInv, Underway, CubesOf, KeyChunks, Keys
<1>2. \A hi \in HeadRows : hi[2] \in Nat
  BY <1>1, Lengths DEF HeadRows, Queries
<1>3. KvSum(kc) = [hi \in HeadRows |-> Once(Old(hi))] /\ KvSum(kc) # Junk
  <2>1. Flushed = ran
    BY DEF Flushed
  <2> QED BY <1>1, <2>1, SumsAreNumbers DEF KvSum
<1>4. sums[c][kc[1]] = [hi \in HeadRows |-> Once(New(hi))]
  BY <1>1 DEF IInv, SumsNow
<1>5. More = [hi \in HeadRows |-> Once(Old(hi) \/ New(hi))]
  BY DEF Once
<1>6. \A hi \in HeadRows : ~(Old(hi) /\ New(hi))
  <2> SUFFICES ASSUME NEW hi \in HeadRows, NEW d \in ran, KeyIn(d, kc[1]), Took(d, hi[1], hi[2]),
                      KeyIn(c, kc[1]), Took(c, hi[1], hi[2])
               PROVE  FALSE
    OBVIOUS
  <2>1. d \in ProductCubes /\ d[1] = c[1]
    BY <1>1, OneBlock
  <2>2. d = c
    BY <1>1, <1>2, <2>1, TookOnce
  <2> QED BY <2>2
<1>7. CASE Plan(c).it1 > Plan(c).it0 /\ KeyIn(c, kc[1])
  <2>1. \A hi \in HeadRows : Old(hi) \in BOOLEAN /\ New(hi) \in BOOLEAN
    BY DEF SeenAt, KeyIn
  <2> HIDE DEF Old, New, More
  <2>2. \A hi \in HeadRows : Once(Old(hi)) + Once(New(hi)) = Once(Old(hi) \/ New(hi))
    BY <1>6, <2>1, OnceMore
  <2>3. Added(KvSum(kc), sums[c][kc[1]]) = [hi \in HeadRows |-> Once(Old(hi)) + Once(New(hi))]
    BY <1>3, <1>4 DEF Added
  <2>4. More = Added(KvSum(kc), sums[c][kc[1]])
    BY <1>5, <2>2, <2>3
  <2> QED BY <1>7, <2>4 DEF More
<1>8. CASE ~(Plan(c).it1 > Plan(c).it0 /\ KeyIn(c, kc[1]))
  <2>1. \A hi \in HeadRows : ~New(hi)
    <3>1. /\ Plan(c).it0 \in Nat /\ Plan(c).it1 \in Nat /\ it[c] \in Nat /\ it[c] <= Plan(c).it1
      BY <1>1, PlanIs DEF Swept
    <3>2. KeyIn(c, kc[1]) => Plan(c).it0 .. it[c] - 1 = {}
      BY <1>8, <3>1
    <3> QED BY <3>2 DEF Took
  <2> HIDE DEF Old, New, More
  <2>2. More = KvSum(kc)
    BY <1>3, <1>5, <2>1 DEF Once
  <2> QED BY <1>8, <2>2 DEF More
<1> QED BY <1>7, <1>8

\* A cube of the products writes dK and dV, or adds to their accumulators.
LEMMA FlushOK ==
  ASSUME IInv, NEW c \in ProductCubes, Flush(c)
  PROVE  IInv'
<1>0. /\ UNCHANGED call /\ UNCHANGED <<it, sums, plan, lseBwd, bounds, dqAcc, dq, spoilt>>
      /\ launch = "products" /\ launch' = launch /\ c \notin ran /\ ran' = ran \cup {c}
      /\ mask \in Masks /\ split \in BOOLEAN /\ atomic \in BOOLEAN /\ Underway /\ Swept
      /\ plan[c] = Plan(c) /\ it[c] >= Plan(c).it1
  BY DEF IInv, Underway, Flush, Starts, Ended, prepared
<1>1. it[c] = Plan(c).it1
  BY <1>0, PlanIs DEF Swept
<1>2. /\ split => /\ kvAcc' = [kc \in KeyChunks |->
                       IF Plan(c).it1 > Plan(c).it0 /\ KeyIn(c, kc[1])
                       THEN Added(kvAcc[kc], sums[c][kc[1]]) ELSE kvAcc[kc]]
                  /\ dkv' = dkv
      /\ ~split => /\ dkv' = [kc \in KeyChunks |-> IF KeyIn(c, kc[1]) THEN sums[c][kc[1]] ELSE dkv[kc]]
                   /\ kvAcc' = kvAcc
  BY <1>0 DEF Flush, InBlock, KeyIn
<1>3. DeltaRan = DeltaCubes /\ DeltaRan' = DeltaRan /\ Flushed = ran /\ Flushed' = ran \cup {c}
  <2>1. Flushed = ran /\ Flushed' = ran'
    BY <1>0 DEF Flushed
  <2>2. DeltaRan = DeltaCubes /\ DeltaRan' = DeltaCubes'
    BY <1>0 DEF DeltaRan
  <2> QED BY <1>0, <2>1, <2>2, Fixed
<1>4. Underway'
  <2>1. launch' # "returned" => ran' \subseteq CubesOf(launch)'
    BY <1>0, Fixed DEF Underway, CubesOf
  <2> QED BY <1>0, <2>1, Fixed DEF Underway
<1>5. Swept'
  BY <1>0, <1>1, <1>3, Fixed DEF Swept
<1>6. kvAcc' = KvAccNow'
  <2>1. KvAccNow' = [kc \in KeyChunks |-> IF split THEN KvSum(kc)' ELSE Junk]
    <3>1. \A kc \in KeyChunks : split => UnitDone(UnitOf(kc))
      BY <1>0, <1>3, DeltaReaches DEF UnitDone
    <3>2. KvAccNow' = [kc \in KeyChunks |-> IF split /\ UnitDone(UnitOf(kc)) THEN KvSum(kc)' ELSE Junk]
      BY <1>0, <1>3, Fixed, SamePrepared DEF KvAccNow, UnitOf
    <3> QED BY <3>1, <3>2
  <2>2. kvAcc = [kc \in KeyChunks |-> IF split THEN KvSum(kc) ELSE Junk]
    BY <1>0, Prepared DEF IInv
  <2>3. \A kc : KvSum(kc)' = [hi \in HeadRows |->
          Once(/\ SeenAt(hi[2], kc[1])
               /\ \E d \in ran \cup {c} : KeyIn(d, kc[1]) /\ Took(d, hi[1], hi[2]))]
    <3>1. \A d, k : KeyIn(d, k)' <=> KeyIn(d, k)
      BY DEF KeyIn, K0
    <3> QED BY <1>0, <1>3, <3>1, Fixed, SameTurns DEF KvSum
  <2>4. CASE split
    <3>1. \A kc \in KeyChunks :
            KvSum(kc)' = IF Plan(c).it1 > Plan(c).it0 /\ KeyIn(c, kc[1])
                         THEN Added(KvSum(kc), sums[c][kc[1]]) ELSE KvSum(kc)
      BY <1>0, <2>3, SplitIs
    <3>2. \A kc \in KeyChunks : kvAcc[kc] = KvSum(kc)
      BY <2>2, <2>4
    <3> QED BY <1>2, <2>1, <2>4, <3>1, <3>2
  <2>5. CASE ~split
    BY <1>2, <2>1, <2>2, <2>5
  <2> QED BY <1>0, <2>4, <2>5
<1>7. dkv' = DkvNow'
  <2>1. CASE split
    <3>1. \A kc \in KeyChunks : DkvWritten(kc)' <=> DkvWritten(kc)
      BY <1>0, <2>1, Fixed DEF DkvWritten, Finished
    <3> QED BY <1>0, <1>2, <2>1, <3>1, SameDkv DEF IInv
  <2>2. CASE ~split
    <3>1. \A kc \in KeyChunks : DkvWritten(kc)' <=> DkvWritten(kc) \/ DkvCube(kc) = c
      BY <1>0, <1>3, <2>2, Fixed DEF DkvWritten, DkvCube
    <3>2. \A kc \in KeyChunks : dkv[kc] = IF DkvWritten(kc) THEN DkvOf(kc) ELSE Pending
      BY DEF IInv, DkvNow
    <3>3. DkvNow' = [kc \in KeyChunks |-> IF DkvWritten(kc)' THEN DkvOf(kc) ELSE Pending]
      BY <1>0, Fixed DEF DkvNow
    <3>4. \A kc \in KeyChunks :
            (IF KeyIn(c, kc[1]) THEN sums[c][kc[1]] ELSE dkv[kc])
              = IF DkvWritten(kc)' THEN DkvOf(kc) ELSE Pending
      BY <1>1, <2>2, <3>1, <3>2, UnsplitIs
    <3> QED BY <1>2, <2>2, <3>3, <3>4
  <2> QED BY <1>0, <2>1, <2>2
<1>8. \A hi \in HeadRows : DqWritten(hi)' <=> DqWritten(hi)
  BY <1>0, Fixed DEF DqWritten, Finished
<1>9. plan' = [d \in ProductCubes |-> Plan(d)]'
  BY <1>0, Fixed DEF IInv
<1> QED BY <1>0, <1>3, <1>4, <1>5, <1>6, <1>7, <1>8, <1>9, SamePrepared, SameTurns, SameDqAcc,
           SameDq DEF IInv
\* The accumulators of a call all of whose sweeps have ended are its gradients.
LEMMA WholeSums ==
  ASSUME mask \in Masks, split \in BOOLEAN, Flushed = ProductCubes,
         \A c \in ProductCubes : it[c] = Plan(c).it1
  PROVE  /\ \A hi \in HeadRows : DqSum(hi) = DqOf(hi)
         /\ \A kc \in KeyChunks : KvSum(kc) = DkvOf(kc)
<1>1. ASSUME NEW hi \in HeadRows, NEW k
      PROVE  (/\ SeenAt(hi[2], k)
              /\ \E c \in ProductCubes : KeyIn(c, k) /\ Took(c, hi[1], hi[2]))
               <=> k \in Sees(mask, hi[2])
  <2>1. hi[1] \in Heads /\ hi[2] \in Queries /\ hi[2] < mask.tq
    BY Lengths DEF HeadRows, Queries
  <2>2. SeenAt(hi[2], k) <=> k \in Sees(mask, hi[2])
    BY <2>1 DEF SeenAt
  <2>3. ASSUME k \in Sees(mask, hi[2])
        PROVE  \E c \in ProductCubes : KeyIn(c, k) /\ Took(c, hi[1], hi[2])
    <3>1. ProductCubes \in SUBSET ProductCubes
      OBVIOUS
    <3> QED BY <2>1, <2>3, <3>1, AllSummed
  <2> QED BY <2>2, <2>3
<1>2. \A hi \in HeadRows : DqSum(hi) = DqOf(hi)
  BY <1>1 DEF DqSum, DqOf, Once
<1>3. \A kc \in KeyChunks : KvSum(kc) = DkvOf(kc)
  BY <1>1 DEF KvSum, DkvOf, Once
<1> QED BY <1>2, <1>3

\* The rows of a tile of finish are those it is the tile of.
LEMMA TileRowsAre ==
  ASSUME mask \in Masks, NEW x \in Nat, x < QBlocks * Group, NEW hi \in HeadRows
  PROVE  hi[1] = (x \div QBlocks) % Group /\ hi[2] \div Block = x % QBlocks <=> TileOf(hi) = x
<1> DEFINE h == x \div QBlocks
           r == x % QBlocks
           g == hi[1]
           q == hi[2] \div Block
<1>1. QBlocks \in Nat \ {0} /\ Group \in Nat \ {0} /\ Block \in Nat \ {0}
  BY Lengths, Sizes
<1>2. h \in Nat /\ r \in 0 .. QBlocks - 1 /\ x = h * QBlocks + r
  BY <1>1, Divided
<1>3. g \in 0 .. Group - 1 /\ q \in 0 .. QBlocks - 1
  <2>1. hi[1] \in 0 .. Group - 1 /\ hi[2] \in Queries
    BY DEF HeadRows, Heads
  <2>2. hi[2] \div Block \in 0 .. QBlocks - 1
    BY <2>1, Lengths
  <2> QED BY <2>1, <2>2
<1>4. h % Group = h
  <2>1. x < Group * QBlocks
    BY <1>1
  <2>2. h < Group
    BY <1>1, <2>1, DividedBelow
  <2> HIDE DEF h
  <2>3. h \in 0 .. Group - 1 /\ h = 0 * Group + h
    BY <1>1, <1>2, <2>2
  <2>4. h \in Nat /\ 0 \in Nat /\ Group \in Nat \ {0}
    BY <1>1, <1>2
  <2> QED BY ONLY <2>3, <2>4, QuotientIs
<1>5. TileOf(hi) = g * QBlocks + q
  BY DEF TileOf
<1>6. ASSUME g * QBlocks + q = x PROVE g = h /\ q = r
  <2>1. g \in Nat /\ x = g * QBlocks + q
    BY <1>3, <1>6
  <2> HIDE DEF g, q
  <2> QED BY <1>1, <1>3, <2>1, QuotientIs DEF h, r
<1> HIDE DEF h, r, g, q
<1>7. g = h /\ q = r <=> TileOf(hi) = x
  BY <1>2, <1>5, <1>6
<1> QED BY <1>4, <1>7 DEF h, r, g, q

\* A cube of the rounding ends.
LEMMA FinishOK ==
  ASSUME IInv, NEW x \in FinishCubes, Finish(x)
  PROVE  IInv'
<1> DEFINE units == (x - DqTiles) * UnitsPerCube .. (x - DqTiles + 1) * UnitsPerCube - 1
<1>0. /\ UNCHANGED call /\ UNCHANGED <<it, sums, plan, lseBwd, bounds, dqAcc, kvAcc, spoilt>>
      /\ launch = "finish" /\ launch' = launch /\ ran' = ran \cup {x}
      /\ mask \in Masks /\ split \in BOOLEAN /\ atomic \in BOOLEAN /\ Underway /\ Swept
  BY DEF IInv, Underway, Finish, Starts, Ended, prepared
<1>1. /\ x < DqTiles =>
           /\ dq' = [hi \in HeadRows |->
                      IF hi[1] = (x \div QBlocks) % Group /\ hi[2] \div Block = x % QBlocks
                      THEN dqAcc[hi] ELSE dq[hi]]
           /\ dkv' = dkv
      /\ ~(x < DqTiles) =>
           /\ dkv' = [kc \in KeyChunks |-> IF UnitOf(kc) \in units THEN kvAcc[kc] ELSE dkv[kc]]
           /\ dq' = dq
  BY DEF Finish, UnitOf
<1>2. /\ DqTiles \in Nat /\ Ceil(KvChunks, UnitsPerCube) \in Nat
      /\ atomic => DqTiles = QBlocks * Group
      /\ ~atomic => DqTiles = 0
      /\ ~split => Ceil(KvChunks, UnitsPerCube) = 0
      /\ \A hi \in HeadRows : atomic => TileOf(hi) \in 0 .. DqTiles - 1
      /\ \A kc \in KeyChunks : split => DkvRun(kc) >= DqTiles
  BY <1>0, WritersExist
<1>3. x \in Nat /\ (x < DqTiles => atomic) /\ (~(x < DqTiles) => split)
  BY <1>0, <1>2 DEF FinishCubes
<1>4. /\ DeltaRan' = DeltaRan /\ Flushed = ProductCubes /\ Flushed' = Flushed
  <2>1. Flushed = ProductCubes /\ Flushed' = ProductCubes'
    BY <1>0 DEF Flushed
  <2>2. DeltaRan = DeltaCubes /\ DeltaRan' = DeltaCubes'
    BY <1>0 DEF DeltaRan
  <2> QED BY <1>0, <2>1, <2>2, Fixed
<1>5. /\ \A hi \in HeadRows : DqSum(hi) = DqOf(hi)
      /\ \A kc \in KeyChunks : KvSum(kc) = DkvOf(kc)
  <2>1. \A c \in ProductCubes : it[c] = Plan(c).it1
    BY <1>0, <1>4 DEF Swept
  <2> QED BY <1>0, <1>4, <2>1, WholeSums
<1>6. Underway'
  <2>1. launch' # "returned" => ran' \subseteq CubesOf(launch)'
    BY <1>0, Fixed DEF Underway, CubesOf
  <2> QED BY <1>0, <2>1, Fixed DEF Underway
<1>7. Swept'
  BY <1>0, <1>4, Fixed DEF Swept
<1>8. /\ \A hi \in HeadRows : DqWritten(hi)' <=> DqWritten(hi) \/ (atomic /\ TileOf(hi) = x)
      /\ \A kc \in KeyChunks : DkvWritten(kc)' <=> DkvWritten(kc) \/ (split /\ DkvRun(kc) = x)
  BY <1>0, <1>4, Fixed DEF DqWritten, DkvWritten, Finished, DkvCube
<1>9. dq' = DqNow'
  <2>1. \A hi \in HeadRows : dq[hi] = IF DqWritten(hi) THEN DqOf(hi) ELSE Pending
    BY DEF IInv, DqNow
  <2>2. DqNow' = [hi \in HeadRows |-> IF DqWritten(hi)' THEN DqOf(hi) ELSE Pending]
    BY <1>0, Fixed DEF DqNow
  <2>3. CASE x < DqTiles
    <3>1. \A hi \in HeadRows : dqAcc[hi] = DqOf(hi)
      <4>1. mask.tq \in Nat /\ QBlocks * Block \in Nat /\ mask.tq <= QBlocks * Block
        BY <1>0, Lengths, Sizes
      <4>2. HeadRows \subseteq AccRows
        BY <4>1 DEF HeadRows, AccRows, Queries
      <4>3. dqAcc = [hi \in AccRows |-> DqSum(hi)]
        BY <1>0, <1>3, <2>3, Prepared DEF IInv
      <4> QED BY <1>5, <4>2, <4>3
    <3>2. \A hi \in HeadRows :
            hi[1] = (x \div QBlocks) % Group /\ hi[2] \div Block = x % QBlocks <=> TileOf(hi) = x
      BY <1>0, <1>2, <1>3, <2>3, TileRowsAre
    <3> QED BY <1>1, <1>3, <1>8, <2>1, <2>2, <2>3, <3>1, <3>2
  <2>4. CASE ~(x < DqTiles)
    <3>1. \A hi \in HeadRows : atomic => TileOf(hi) # x
      BY <1>2, <2>4
    <3>2. \A hi \in HeadRows : DqWritten(hi)' <=> DqWritten(hi)
      BY <1>8, <3>1
    <3> QED BY <1>0, <1>1, <2>4, <3>2, SameDq DEF IInv
  <2> QED BY <2>3, <2>4
<1>10. dkv' = DkvNow'
  <2>1. \A kc \in KeyChunks : dkv[kc] = IF DkvWritten(kc) THEN DkvOf(kc) ELSE Pending
    BY DEF IInv, DkvNow
  <2>2. DkvNow' = [kc \in KeyChunks |-> IF DkvWritten(kc)' THEN DkvOf(kc) ELSE Pending]
    BY <1>0, Fixed DEF DkvNow
  <2>3. CASE x < DqTiles
    <3>1. \A kc \in KeyChunks : split => DkvRun(kc) # x
      <4>1. \A kc \in KeyChunks : split => DkvRun(kc) \in Int
        <5>1. \A kc \in KeyChunks : UnitOf(kc) \in Nat
          BY <1>0, DeltaReaches
        <5>2. \A kc \in KeyChunks : UnitOf(kc) \div UnitsPerCube \in Nat
          BY <5>1, Sizes, Divided
        <5> QED BY <1>2, <5>2 DEF DkvRun
      <4> QED BY <1>2, <1>3, <2>3, <4>1
    <3>2. \A kc \in KeyChunks : DkvWritten(kc)' <=> DkvWritten(kc)
      BY <1>8, <3>1
    <3> QED BY <1>0, <1>1, <2>3, <3>2, SameDkv DEF IInv
  <2>4. CASE ~(x < DqTiles)
    <3>1. \A kc \in KeyChunks : kvAcc[kc] = DkvOf(kc)
      <4>1. kvAcc = [kc \in KeyChunks |-> KvSum(kc)]
        BY <1>0, <1>3, <2>4, Prepared DEF IInv
      <4> QED BY <1>5, <4>1
    <3>2. \A kc \in KeyChunks : UnitOf(kc) \in units <=> DkvRun(kc) = x
      <4> TAKE kc \in KeyChunks
      <4> DEFINE y == x - DqTiles
                 u == UnitOf(kc) \div UnitsPerCube
      <4>1. y \in Int /\ UnitOf(kc) \in Nat /\ UnitsPerCube \in Nat \ {0}
        BY <1>0, <1>2, <1>3, DeltaReaches, Sizes
      <4>2. UnitOf(kc) \in y * UnitsPerCube .. (y + 1) * UnitsPerCube - 1 <=> u = y
        BY <4>1, InCube
      <4>3. u \in Nat
        BY <4>1, Divided
      <4>4. u = y <=> DqTiles + u = x
        <5> HIDE DEF u
        <5> QED BY <1>2, <1>3, <4>3
      <4> QED BY <4>2, <4>4 DEF DkvRun
    <3> HIDE DEF units
    <3> QED BY <1>1, <1>3, <1>8, <2>1, <2>2, <2>4, <3>1, <3>2
  <2> QED BY <2>3, <2>4
<1>11. plan' = [d \in ProductCubes |-> Plan(d)]'
  BY <1>0, Fixed DEF IInv
<1> QED BY <1>0, <1>4, <1>6, <1>7, <1>9, <1>10, <1>11, SamePrepared, SameTurns, SameDqAcc,
           SameKvAcc DEF IInv

-----------------------------------------------------------------------------
(* The theorems. *)

\* So does a step that changes nothing.
LEMMA StutterOK ==
  ASSUME IInv, UNCHANGED vars
  PROVE  IInv'
<1>0. /\ UNCHANGED call /\ launch' = launch /\ ran' = ran
      /\ UNCHANGED <<it, sums, plan, lseBwd, bounds, dqAcc, kvAcc, dq, dkv, spoilt>>
      /\ Underway /\ Swept /\ launch \in Launches
  BY DEF IInv, Underway, vars, call
<1>1. DeltaRan' = DeltaRan /\ Flushed' = Flushed
  <2>1. DeltaRan' = DeltaRan
    BY <1>0, Fixed DEF DeltaRan
  <2>2. Flushed' = Flushed
    BY <1>0, Fixed DEF Flushed, Launches
  <2> QED BY <2>1, <2>2
<1>2. Underway'
  <2>1. launch' # "returned" => ran' \subseteq CubesOf(launch)'
    BY <1>0, Fixed DEF Underway, CubesOf
  <2> QED BY <1>0, <2>1, Fixed DEF Underway
<1>3. Swept'
  BY <1>0, <1>1, Fixed DEF Swept
<1>4. \A hi \in HeadRows : DqWritten(hi)' <=> DqWritten(hi)
  BY <1>0, Fixed DEF DqWritten, Finished
<1>5. \A kc \in KeyChunks : DkvWritten(kc)' <=> DkvWritten(kc)
  BY <1>0, <1>1, Fixed DEF DkvWritten, Finished, DkvCube
<1>6. plan' = [d \in ProductCubes |-> Plan(d)]'
  BY <1>0, Fixed DEF IInv
<1> QED BY <1>0, <1>1, <1>2, <1>3, <1>4, <1>5, <1>6, SamePrepared, SameTurns, SameDqAcc, SameKvAcc,
           SameDq, SameDkv DEF IInv

\* Each action keeps the invariant.
LEMMA StepKeeps == IInv /\ [Next]_vars => IInv'
<1> SUFFICES ASSUME IInv, [Next]_vars PROVE IInv'
  OBVIOUS
<1>1. CASE EndLaunch
  BY <1>1, EndLaunchOK
<1>2. CASE \E x \in DeltaCubes : Delta(x)
  BY <1>2, DeltaOK
<1>3. CASE \E x \in DqCubes : Dq(x)
  BY <1>3, DqOK
<1>4. CASE \E c \in ProductCubes : Step(c) \/ Flush(c)
  BY <1>4, StepOK, FlushOK
<1>5. CASE \E x \in FinishCubes : Finish(x)
  BY <1>5, FinishOK
<1>6. CASE UNCHANGED vars
  BY <1>6, StutterOK
<1> QED BY <1>1, <1>2, <1>3, <1>4, <1>5, <1>6 DEF Next

\* At every moment of a call each accumulator, each sum and each gradient is what
\* the launch, its cubes that ended and the turns taken make it, whatever the
\* order the cubes ran in.
THEOREM Inductive == Spec => []IInv
<1>1. Init => IInv
  BY InitOK
<1>2. IInv /\ [Next]_vars => IInv'
  BY StepKeeps
<1> QED BY <1>1, <1>2, PTL DEF Spec
\* Every variable of a call has its values throughout it; above all, no kernel
\* that reads the log-sum-exp finds it -inf.
THEOREM TypeCorrect == Spec => []TypeOK
<1>1. IInv => TypeOK
  <2> SUFFICES ASSUME IInv PROVE TypeOK
    OBVIOUS
  <2>1. /\ mask \in Masks /\ split \in BOOLEAN /\ atomic \in BOOLEAN
        /\ launch \in Launches /\ (launch # "returned" => ran \subseteq CubesOf(launch))
        /\ it \in [ProductCubes -> Nat]
        /\ spoilt \in BOOLEAN
    BY DEF IInv, Underway, Swept
  <2>2. plan \in [ProductCubes -> [first : Nat, perHead : Nat, it0 : Nat, it1 : Nat]]
    <3>1. \A c \in ProductCubes : Plan(c) \in [first : Nat, perHead : Nat, it0 : Nat, it1 : Nat]
      <4> TAKE c \in ProductCubes
      <4>1. /\ PerHead(c[1]) \in Nat /\ FirstStep(c[1]) \in Nat
            /\ Turns(c[1]) \in Nat /\ Middle(c[1]) \in Nat
            /\ (IF split /\ c[2] = 1 THEN Middle(c[1]) ELSE 0) \in Nat
            /\ (IF split /\ c[2] = 0 THEN Middle(c[1]) ELSE Turns(c[1])) \in Nat
        BY <2>1, PlanIs
      <4> QED BY <2>1, <4>1, PlanIs
    <3> QED BY <3>1 DEF IInv
  <2>3. sums \in [ProductCubes -> [Keys -> RowSum]]
    BY DEF IInv, SumsNow, RowSum, Once
  <2>4. lseBwd \in [HeadRows -> {"finite", "+inf", "junk"}]
    BY DEF IInv, LseNow, LseBwd
  <2>5. bounds \in [Queries -> Int \X Int]
    <3>1. \A i \in Queries : RowBounds(mask, i) \in Int \X Int
      <4> TAKE i \in Queries
      <4>1. i \in Nat /\ IsMask(mask)
        BY <2>1, Lengths DEF Queries
      <4> QED BY <4>1, BoundsInKeys
    <3> QED BY <3>1 DEF IInv, BoundsNow
  <2>6. dqAcc \in [AccRows -> KeySum \cup {Junk}]
    BY <2>1, SumsAreNumbers DEF IInv, DqAccNow, KeySum
  <2>7. kvAcc \in [KeyChunks -> RowSum \cup {Junk}]
    BY <2>1, SumsAreNumbers DEF IInv, KvAccNow, RowSum
  <2>8. dq \in [HeadRows -> KeySum \cup {Junk, Pending}]
    <3>1. \A hi : DqOf(hi) \in KeySum
      BY DEF DqOf, KeySum, Once
    <3> QED BY <3>1 DEF IInv, DqNow
  <2>9. dkv \in [KeyChunks -> RowSum \cup {Junk, Pending}]
    <3>1. \A kc : DkvOf(kc) \in RowSum
      BY DEF DkvOf, RowSum, Once
    <3> QED BY <3>1 DEF IInv, DkvNow
  <2> QED BY <2>1, <2>2, <2>3, <2>4, <2>5, <2>6, <2>7, <2>8, <2>9 DEF TypeOK, Launches
<1> QED BY <1>1, Inductive, PTL

\* The gradients a call returns have each product of a query and a key it sees
\* once and no other, split or not, atomic or not, however its cubes ran.
THEOREM GradientsAreExact == Spec => []GradientsExact
<1>1. IInv => GradientsExact
  <2> SUFFICES ASSUME IInv PROVE GradientsExact
    OBVIOUS
  <2>1. ASSUME launch = "returned"
        PROVE  /\ \A hi \in HeadRows : dq[hi] = DqOf(hi)
               /\ \A kc \in KeyChunks : dkv[kc] = DkvOf(kc)
    <3>1. mask \in Masks /\ split \in BOOLEAN /\ atomic \in BOOLEAN /\ Flushed = ProductCubes
      BY <2>1 DEF IInv, Underway, Flushed
    <3>2. \A hi \in HeadRows : DqWritten(hi)
      BY <2>1 DEF DqWritten, Finished
    <3>3. \A kc \in KeyChunks : DkvWritten(kc)
      BY <2>1, <3>1, WritersExist DEF DkvWritten, Finished
    <3> QED BY <3>2, <3>3 DEF IInv, DqNow, DkvNow
  <2> QED BY <2>1 DEF GradientsExact, IInv
<1> QED BY <1>1, Inductive, PTL

\* When the products and the rounding run, no accumulator they use holds what
\* memory held before: delta's cubes reached every one.
THEOREM ZeroedBefore == Spec => []ZeroedFirst
<1>1. IInv => ZeroedFirst
  <2> SUFFICES ASSUME IInv, launch \in {"products", "finish"}
               PROVE  /\ atomic => \A hi \in AccRows : dqAcc[hi] # Junk
                      /\ split => \A kc \in KeyChunks : kvAcc[kc] # Junk
    BY DEF ZeroedFirst
  <2>1. mask \in Masks /\ launch # "delta"
    BY DEF IInv, Underway
  <2>2. /\ dqAcc = [hi \in AccRows |-> IF atomic THEN DqSum(hi) ELSE Junk]
        /\ kvAcc = [kc \in KeyChunks |-> IF split THEN KvSum(kc) ELSE Junk]
    BY <2>1, Prepared DEF IInv
  <2> QED BY <2>1, <2>2, SumsAreNumbers
<1> QED BY <1>1, Inductive, PTL

\* A gradient that has been written stays written.
LEMMA WrittenStays ==
  ASSUME IInv, [Next]_vars
  PROVE  /\ UNCHANGED call
         /\ \A hi \in HeadRows : DqWritten(hi) => DqWritten(hi)'
         /\ \A kc \in KeyChunks : DkvWritten(kc) => DkvWritten(kc)'
<1>1. CASE EndLaunch
  BY <1>1, LaunchedNext DEF EndLaunch
<1>2. CASE ~EndLaunch
  <2>1. UNCHANGED call /\ launch' = launch /\ ran \subseteq ran'
    BY <1>2 DEF Next, Delta, Dq, Step, Flush, Finish, Ended, vars, call
  <2>2. launch \in Launches
    BY DEF IInv, Underway
  <2>3. \A d : d \in Flushed => d \in Flushed'
    BY <2>1, <2>2, Fixed DEF Flushed, Launches
  <2>4. \A hi \in HeadRows : DqWritten(hi) => DqWritten(hi)'
    BY <2>1, Fixed DEF DqWritten, Finished
  <2>5. \A kc \in KeyChunks : DkvWritten(kc) => DkvWritten(kc)'
    BY <2>1, <2>3, Fixed DEF DkvWritten, Finished, DkvCube
  <2> QED BY <2>1, <2>4, <2>5
<1> QED BY <1>1, <1>2

\* No step changes a gradient that has been written: no two cubes write the same.
THEOREM WrittenAtMostOnce == Spec => WrittenOnce
<1> DEFINE Kept == /\ \A hi \in HeadRows : dq[hi] # Pending => dq'[hi] = dq[hi]
                   /\ \A kc \in KeyChunks : dkv[kc] # Pending => dkv'[kc] = dkv[kc]
<1>1. IInv /\ IInv' /\ [Next]_vars => Kept
  <2> SUFFICES ASSUME IInv, IInv', [Next]_vars PROVE Kept
    OBVIOUS
  <2>1. /\ UNCHANGED call
        /\ \A hi \in HeadRows : DqWritten(hi) => DqWritten(hi)'
        /\ \A kc \in KeyChunks : DkvWritten(kc) => DkvWritten(kc)'
    BY WrittenStays
  <2>2. dq' = DqNow' /\ dkv' = DkvNow'
    BY DEF IInv
  <2>3. /\ DqNow' = [hi \in HeadRows |-> IF DqWritten(hi)' THEN DqOf(hi) ELSE Pending]
        /\ DkvNow' = [kc \in KeyChunks |-> IF DkvWritten(kc)' THEN DkvOf(kc) ELSE Pending]
    BY <2>1, Fixed DEF DqNow, DkvNow
  <2>4. dq = DqNow /\ dkv = DkvNow
    BY DEF IInv
  <2>5. ASSUME NEW hi \in HeadRows, dq[hi] # Pending PROVE dq'[hi] = dq[hi]
    <3>1. DqWritten(hi) /\ dq[hi] = DqOf(hi)
      BY <2>4, <2>5 DEF DqNow
    <3> QED BY <2>1, <2>2, <2>3, <3>1
  <2>6. ASSUME NEW kc \in KeyChunks, dkv[kc] # Pending PROVE dkv'[kc] = dkv[kc]
    <3>1. DkvWritten(kc) /\ dkv[kc] = DkvOf(kc)
      BY <2>4, <2>6 DEF DkvNow
    <3> QED BY <2>1, <2>2, <2>3, <3>1
  <2> QED BY <2>5, <2>6
<1>2. IInv /\ IInv' /\ [Next]_vars => [Kept]_vars
  BY <1>1
<1> QED BY <1>2, Inductive, PTL DEF Spec, WrittenOnce
=============================================================================
