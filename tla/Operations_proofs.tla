---------------------------- MODULE Operations_proofs ----------------------------
(***************************************************************************)
(* The plan of packed sequences of the gated delta rule (plan_kernel of     *)
(* gated_delta/chunk/cube.rs) in every call: any boundaries, any number of  *)
(* sequences, any sizes.                                                    *)
(*                                                                         *)
(* A cube of GROUP units scans the sequences' chunk counts, group after     *)
(* group, by windows that double.  The scan is compared with the sums of    *)
(* the counts, each chunk with the sequence the sums give it, its tokens    *)
(* with that sequence's, clamped.  Then no other launch writes the plan.    *)
(***************************************************************************)
EXTENDS Operations, AttentionMask_proofs

\* The scan is the GROUP turns of a scan by windows that double.
LEMMA ScanIs ==
  ASSUME NEW counts
  PROVE  Delta!Scan(counts) = Doublings(counts, GROUP)[GROUP][1]
BY Zenon DEF Delta!Scan, Delta!Stepped, Doublings, Turned, Doubled

-----------------------------------------------------------------------------
(* The sequences' chunks.                                                   *)

\* The greater and the less of two.
LEMMA MaxOfTwo ==
  ASSUME NEW a \in Int, NEW b \in Int
  PROVE  Delta!Max({a, b}) = IF a >= b THEN a ELSE b
<1>1. \E x \in {a, b} : \A y \in {a, b} : x >= y
  OBVIOUS
<1>2. Delta!Max({a, b}) \in {a, b} /\ \A y \in {a, b} : Delta!Max({a, b}) >= y
  BY <1>1 DEF Delta!Max
<1> QED BY <1>2

LEMMA MinOfTwo ==
  ASSUME NEW a \in Int, NEW b \in Int
  PROVE  Delta!Min({a, b}) = IF a <= b THEN a ELSE b
<1>1. \E x \in {a, b} : \A y \in {a, b} : x <= y
  OBVIOUS
<1>2. Delta!Min({a, b}) \in {a, b} /\ \A y \in {a, b} : Delta!Min({a, b}) <= y
  BY <1>1 DEF Delta!Min
<1> QED BY <1>2

\* A call the plan's kernel is launched for.
Planned(c) == Delta!DeltaAssumption /\ Delta!IsCall(c) /\ Delta!Packed(c)

\* What DeltaAssumption and IsCall say of each number.
LEMMA PlannedNumbers ==
  ASSUME NEW c, Planned(c)
  PROVE  /\ CHUNK \in Nat \ {0} /\ GROUP \in Nat \ {0}
         /\ c.t \in Nat /\ Delta!Seqs(c) \in Nat \ {0}
         /\ \A s \in 0..(Delta!Seqs(c) - 1) : c.cu[s + 1] \in Int /\ c.cu[s + 2] \in Int
<1>1. CHUNK \in Nat \ {0} /\ GROUP \in Nat \ {0}
  BY DEF Planned, Delta!DeltaAssumption
<1>2. /\ c.t \in Nat /\ c.cu \in Seq(Int) /\ Delta!Seqs(c) = Len(c.cu) - 1 /\ Delta!Seqs(c) > 0
      /\ Len(c.cu) \in Nat
  BY DEF Planned, Delta!IsCall, Delta!Seqs
<1>3. \A s \in 0..(Delta!Seqs(c) - 1) : s + 1 \in 1..Len(c.cu) /\ s + 2 \in 1..Len(c.cu)
  BY <1>2
<1>4. \A x \in 1..Len(c.cu) : c.cu[x] \in Int
  BY <1>2
<1>5. \A s \in 0..(Delta!Seqs(c) - 1) : c.cu[s + 1] \in Int /\ c.cu[s + 2] \in Int
  BY <1>3, <1>4
<1>6. Delta!Seqs(c) \in Nat \ {0}
  <2>1. \A l \in Nat : l - 1 > 0 => l - 1 \in Nat \ {0}
    OBVIOUS
  <2>2. Len(c.cu) - 1 > 0
    BY <1>2
  <2> QED BY <1>2, <2>1, <2>2
<1> QED BY <1>1, <1>2, <1>5, <1>6

\* What is clamped between two bounds in order is between them.
LEMMA Clamped ==
  ASSUME NEW x \in Int, NEW hi \in Nat
  PROVE  Delta!Clamp(x, 0, hi) \in 0..hi
BY DEF Delta!Clamp

\* A sequence's tokens are among the call's, and its chunks among its tokens.
LEMMA SequenceInside ==
  ASSUME NEW c, Planned(c), NEW s \in 0..(Delta!Seqs(c) - 1)
  PROVE  /\ Delta!Start(c, s) \in Nat /\ Delta!Length(c, s) \in Nat /\ Delta!Start(c, s) + Delta!Length(c, s) <= c.t
         /\ Delta!Chunks(c, s) \in Nat
         /\ \A j \in Nat : j < Delta!Chunks(c, s) => CHUNK * j \in Nat /\ CHUNK * j < Delta!Length(c, s)
<1> DEFINE a == Delta!Clamp(c.cu[s + 1], 0, c.t)
           e == Delta!Clamp(c.cu[s + 2], 0, c.t)
<1>1. /\ CHUNK \in Nat \ {0} /\ c.t \in Nat
      /\ c.cu[s + 1] \in Int /\ c.cu[s + 2] \in Int
  BY PlannedNumbers
<1>2. a \in 0..c.t /\ e \in 0..c.t
  BY <1>1, Clamped
<1>3. Delta!Start(c, s) = a /\ Delta!Length(c, s) = Delta!Max({e - a, 0})
  BY DEF Delta!Start, Delta!Length
<1> HIDE DEF a, e
<1>4. Delta!Length(c, s) = IF e - a >= 0 THEN e - a ELSE 0
  <2>1. e - a \in Int /\ 0 \in Int
    BY <1>1, <1>2
  <2> HIDE DEF Delta!Max
  <2> QED BY <1>3, <2>1, MaxOfTwo
<1>5. Delta!Start(c, s) \in Nat /\ Delta!Length(c, s) \in Nat /\ Delta!Start(c, s) + Delta!Length(c, s) <= c.t
  BY <1>1, <1>2, <1>3, <1>4
<1> QED BY <1>1, <1>5, RoundUpStarts DEF Delta!Chunks, Delta!CeilDiv, RoundUp

-----------------------------------------------------------------------------
(* The plan's sums: each sequence's first chunk is the sum of the chunks of *)
(* those before.                                                            *)

Groups(c) == Delta!CeilDiv(Delta!Seqs(c), GROUP)
Lanes(c)  == Groups(c) * GROUP

\* The chunks of each sequence, and of each lane of the last group without one.
Counts(c) == [s \in 0..(Lanes(c) - 1) |-> IF s < Delta!Seqs(c) THEN Delta!Chunks(c, s) ELSE 0]

PlanSums(c, T) == Planned(c) /\ Sums(T, Counts(c), Lanes(c))

\* The groups' lanes are at least as many as the sequences.
LEMMA LanesSuffice ==
  ASSUME NEW c, Planned(c)
  PROVE  Groups(c) \in Nat /\ Lanes(c) \in Nat /\ Delta!Seqs(c) <= Lanes(c)
<1>1. GROUP \in Nat \ {0} /\ Delta!Seqs(c) \in Nat
  BY PlannedNumbers
<1>2. Groups(c) \in Nat /\ Delta!Seqs(c) <= Lanes(c)
  BY <1>1, RoundedUp DEF Groups, Lanes, Delta!CeilDiv
<1> QED BY <1>1, <1>2 DEF Lanes

\* There are sums of the chunks.
LEMMA PlanSumsExist ==
  ASSUME NEW c, Planned(c)
  PROVE  \E T : PlanSums(c, T)
<1>1. Lanes(c) \in Nat /\ Delta!Seqs(c) \in Nat
  BY PlannedNumbers, LanesSuffice
<1>2. ASSUME NEW i \in 0..(Lanes(c) - 1) PROVE Counts(c)[i] \in Nat
  <2>1. i < Delta!Seqs(c) => i \in 0..(Delta!Seqs(c) - 1)
    BY <1>1
  <2> QED BY <2>1, SequenceInside DEF Counts
<1> QED BY <1>1, <1>2, SumsExist DEF PlanSums

\* What the sums are for the sequences, of which there are S.
LEMMA SumsKnown ==
  ASSUME NEW c, NEW T, PlanSums(c, T), NEW S, S = Delta!Seqs(c)
  PROVE  /\ S \in Nat \ {0} /\ Lanes(c) \in Nat /\ S <= Lanes(c)
         /\ T[0] = 0 /\ T[Lanes(c)] = T[S]
         /\ \A s \in 0..S : T[s] \in Nat
         /\ \A s, r \in 0..S : s <= r => T[s] <= T[r]
         /\ \A s \in 0..(S - 1) : /\ Delta!Chunks(c, s) \in Nat /\ Counts(c)[s] = Delta!Chunks(c, s)
                                  /\ T[s + 1] = T[s] + Delta!Chunks(c, s)
<1>1. Planned(c) /\ Sums(T, Counts(c), Lanes(c))
  BY DEF PlanSums
<1>2. S \in Nat \ {0} /\ Lanes(c) \in Nat /\ S <= Lanes(c)
  BY <1>1, PlannedNumbers, LanesSuffice
<1>3. ASSUME NEW s \in 0..S PROVE s \in 0..Lanes(c) /\ T[s] \in Nat
  <2>1. s \in 0..Lanes(c)
    BY <1>2
  <2>2. T[s] >= 0
    BY <1>1, <1>2, <2>1, SumsReach
  <2> QED BY <1>1, <2>1, <2>2 DEF Sums
<1>4. ASSUME NEW s \in 0..S, NEW r \in 0..S, s <= r PROVE T[s] <= T[r]
  BY <1>1, <1>2, <1>3, <1>4, SumsOnward
<1>5. ASSUME NEW s \in 0..(S - 1)
      PROVE  /\ Delta!Chunks(c, s) \in Nat /\ Counts(c)[s] = Delta!Chunks(c, s)
             /\ T[s + 1] = T[s] + Delta!Chunks(c, s)
  <2>1. s \in 0..(Lanes(c) - 1) /\ s < Delta!Seqs(c)
    BY <1>2
  <2>2. Counts(c)[s] = Delta!Chunks(c, s)
    BY <2>1 DEF Counts
  <2> QED BY <1>1, <2>1, <2>2, SequenceInside DEF Sums
<1>6. T[Lanes(c)] = T[S]
  <2>1. \A i \in S..(Lanes(c) - 1) : i \in 0..(Lanes(c) - 1) /\ ~(i < Delta!Seqs(c))
    BY <1>2
  <2>2. \A i \in S..(Lanes(c) - 1) : Counts(c)[i] = 0
    BY <2>1 DEF Counts
  <2>3. S \in 0..Lanes(c)
    BY <1>2
  <2> QED BY <1>1, <1>2, <2>2, <2>3, SumsStop
<1> QED BY <1>1, <1>2, <1>3, <1>4, <1>5, <1>6 DEF Sums

\* The lanes of a group.
LEMMA GroupsLanes ==
  ASSUME NEW c, Planned(c), NEW g \in Nat, g < Groups(c)
  PROVE  /\ g * GROUP \in Nat /\ g * GROUP + GROUP <= Lanes(c)
         /\ (g + 1) * GROUP = g * GROUP + GROUP
<1>1. GROUP \in Nat \ {0} /\ Groups(c) \in Nat
  BY PlannedNumbers, LanesSuffice
<1>2. (g + 1) * GROUP <= Lanes(c)
  BY <1>1, TimesOnward DEF Lanes
<1> QED BY <1>1, <1>2

\* A group's scan, from its first lane on.
LEMMA GroupScans ==
  ASSUME NEW c, NEW T, PlanSums(c, T), NEW g \in Nat, g < Groups(c)
  PROVE  \A i \in 0..(GROUP - 1) : Delta!GroupScan(c, g)[i] = T[g * GROUP + i + 1] - T[g * GROUP]
<1> DEFINE b == g * GROUP
           U == [i \in 0..GROUP |-> T[b + i] - T[b]]
           v == [i \in 0..(GROUP - 1) |-> Counts(c)[b + i]]
<1>1. Planned(c) /\ Sums(T, Counts(c), Lanes(c))
  BY DEF PlanSums
<1>2. GROUP \in Nat \ {0} /\ Lanes(c) \in Nat /\ b \in 0..Lanes(c) /\ b + GROUP <= Lanes(c)
  BY <1>1, PlannedNumbers, LanesSuffice, GroupsLanes
<1>3. Delta!GroupScan(c, g) = Delta!Scan(v)
  <2>1. ASSUME NEW i \in 0..(GROUP - 1) PROVE Counts(c)[b + i] = Delta!Lane(c, g, i)
    <3>1. b + i \in 0..(Lanes(c) - 1)
      BY <1>2
    <3> QED BY <3>1 DEF Counts, Delta!Lane
  <2> QED BY <2>1 DEF Delta!GroupScan
<1> HIDE DEF b
<1>4. Sums(U, v, GROUP)
  BY <1>1, <1>2, SumsFrom
<1>5. DOMAIN v = 0..(GROUP - 1) /\ v = [i \in DOMAIN v |-> v[i]]
  OBVIOUS
<1>6. ASSUME NEW i \in 0..(GROUP - 1) PROVE U[i + 1] = T[b + i + 1] - T[b]
  <2>1. i + 1 \in 0..GROUP /\ b + (i + 1) = b + i + 1
    BY <1>2
  <2> QED BY <2>1
<1> HIDE DEF U, v
<1>7. Delta!Scan(v) = [i \in 0..(GROUP - 1) |-> U[i + 1]]
  <2>1. Delta!Scan(v) = Doublings(v, GROUP)[GROUP][1]
    BY ScanIs
  <2> QED BY <1>2, <1>4, <1>5, <2>1, SumsOfScan
<1> QED BY <1>3, <1>6, <1>7 DEF b

\* The chunks of the groups before.
LEMMA BeforeGroup ==
  ASSUME NEW c, NEW T, PlanSums(c, T), NEW k \in 0..Groups(c)
  PROVE  Delta!Before(c, k) = T[k * GROUP]
<1> DEFINE R(v, g) == v + Delta!GroupScan(c, g - 1)[GROUP - 1]
           F(f, g) == IF g = 0 THEN 0 ELSE R(f[g - 1], g)
           total == CHOOSE f : f = [g \in 0..k |-> F(f, g)]
           W == [g \in 0..k |-> T[g * GROUP]]
<1>1. Delta!Before(c, k) = total[k]
  BY Zenon DEF Delta!Before
<1>2. Planned(c) /\ Sums(T, Counts(c), Lanes(c))
  BY DEF PlanSums
<1>3. GROUP \in Nat \ {0} /\ k \in Nat /\ T[0] = 0
  BY <1>2, PlannedNumbers, LanesSuffice, SumsKnown
<1>4. ASSUME NEW g \in 1..k PROVE R(T[(g - 1) * GROUP], g) = T[g * GROUP]
  <2> DEFINE b == (g - 1) * GROUP
             e == g * GROUP
  <2>1. g - 1 \in Nat /\ g - 1 < Groups(c) /\ (g - 1) + 1 = g /\ GROUP - 1 \in 0..(GROUP - 1)
    BY <1>2, <1>3, LanesSuffice
  <2>2. Delta!GroupScan(c, g - 1)[GROUP - 1] = T[b + (GROUP - 1) + 1] - T[b]
    BY <2>1, GroupScans
  <2>3. b \in Nat /\ b + GROUP <= Lanes(c) /\ e = b + GROUP
    BY <1>2, <2>1, GroupsLanes
  <2> HIDE DEF b, e
  <2>4. b + (GROUP - 1) + 1 = e /\ b \in 0..Lanes(c) /\ e \in 0..Lanes(c)
    BY <1>2, <1>3, <2>3, LanesSuffice
  <2>5. T[b] \in Int /\ T[e] \in Int
    BY <1>2, <2>4 DEF Sums
  <2> QED BY <2>2, <2>4, <2>5 DEF b, e
<1> HIDE DEF R
<1>5. ASSUME NEW g \in 0..k PROVE W[g] = F(W, g)
  <2>1. CASE g = 0
    BY <1>3, <2>1
  <2>2. CASE g # 0
    <3>1. g \in 1..k /\ g - 1 \in 0..k
      BY <2>2
    <3> QED BY <1>4, <2>2, <3>1
  <2> QED BY <2>1, <2>2
<1> HIDE DEF F
<1>6. W = [g \in 0..k |-> F(W, g)]
  BY <1>5
<1> HIDE DEF W
<1>7. total = [g \in 0..k |-> F(total, g)]
  BY <1>6
<1> HIDE DEF total
<1>8. total[0] = W[0] /\ \A g \in 1..k : total[g - 1] = W[g - 1] => total[g] = W[g]
  BY <1>3, <1>6, <1>7 DEF F
<1>9. total[k] = W[k]
  BY <1>3, <1>8, StepsAlike
<1> QED BY <1>1, <1>3, <1>9 DEF W

\* A sequence's first chunk.
THEOREM FirstChunk ==
  ASSUME NEW c, NEW T, PlanSums(c, T), NEW s \in 0..(Delta!Seqs(c) - 1)
  PROVE  Delta!First(c, s) = T[s]
<1> DEFINE g == s \div GROUP
           i == s % GROUP
<1>1. Planned(c)
  BY DEF PlanSums
<1>2. GROUP \in Nat \ {0} /\ Groups(c) \in Nat /\ s \in Nat /\ s < Groups(c) * GROUP
  BY <1>1, PlannedNumbers, LanesSuffice DEF Lanes
<1>3. g \in Nat /\ i \in 0..(GROUP - 1) /\ s = g * GROUP + i /\ g < Groups(c)
  BY <1>2, Divided, DividedBelow
<1>4. Delta!First(c, s) = Delta!Before(c, g) + Delta!GroupScan(c, g)[i] - Delta!Chunks(c, s)
  BY DEF Delta!First
<1> HIDE DEF g, i
<1>5. g \in 0..Groups(c)
  BY <1>2, <1>3
<1>6. Delta!Before(c, g) = T[g * GROUP] /\ Delta!GroupScan(c, g)[i] = T[s + 1] - T[g * GROUP]
  BY <1>3, <1>5, BeforeGroup, GroupScans
<1>7. T[g * GROUP] \in Int
  <2>1. g * GROUP \in 0..Lanes(c)
    BY <1>1, <1>2, <1>3, LanesSuffice, GroupsLanes
  <2> QED BY <2>1 DEF PlanSums, Sums
<1>8. T[s] \in Nat /\ Delta!Chunks(c, s) \in Nat /\ T[s + 1] = T[s] + Delta!Chunks(c, s)
  BY SumsKnown
<1> QED BY <1>4, <1>6, <1>7, <1>8

-----------------------------------------------------------------------------
(* The plan.                                                                *)

\* The count of chunks the plan has room for.
LEMMA RoomFor ==
  ASSUME NEW c, Planned(c)
  PROVE  /\ Delta!N(c) \in Nat
         /\ Delta!N(c) = RoundUp(c.t, CHUNK) + (Delta!Seqs(c) - 1)
<1>1. CHUNK \in Nat \ {0} /\ c.t \in Nat /\ Delta!Seqs(c) \in Nat \ {0}
  BY PlannedNumbers
<1>2. RoundUp(c.t, CHUNK) \in Nat
  BY <1>1, RoundUpStarts
<1>3. Delta!Max({Delta!Seqs(c) - 1, 0}) = Delta!Seqs(c) - 1
  <2> HIDE DEF Delta!Max
  <2> QED BY <1>1, MaxOfTwo
<1>4. Delta!N(c) = RoundUp(c.t, CHUNK) + Delta!Max({Delta!Seqs(c) - 1, 0})
  BY DEF Delta!N, Delta!MaxChunks, Delta!CeilDiv, RoundUp, Planned
<1> QED BY <1>1, <1>2, <1>3, <1>4

\* Memory has a place for the plan.
HasPlan(m) == {"plan", "offsets"} \subseteq DOMAIN m

\* What the plan holds of chunk x: its first token and its count of tokens.
Entry(c, x) ==
  IF x >= Delta!Before(c, Groups(c)) THEN <<0, 0>>
  ELSE LET s == CHOOSE s \in {s \in 0..(Delta!Seqs(c) - 1) : Delta!First(c, s) <= x /\ x < Delta!First(c, s) + Delta!Chunks(c, s)} : TRUE
           j == x - Delta!First(c, s)
       IN  <<Delta!Start(c, s) + CHUNK * j, Delta!Min({Delta!Length(c, s) - CHUNK * j, CHUNK})>>

\* A chunk below the total is some sequence's.
LEMMA ChunkOwned ==
  ASSUME NEW c, NEW T, PlanSums(c, T), NEW x \in Nat, x < T[Delta!Seqs(c)]
  PROVE  \E s \in 0..(Delta!Seqs(c) - 1) : \E j \in Nat : j < Delta!Chunks(c, s) /\ x = T[s] + j
<1> DEFINE S == Delta!Seqs(c)
<1>1. S \in 0..Lanes(c) /\ Lanes(c) \in Nat
  BY SumsKnown
<1>2. PICK s \in 0..(S - 1) : T[s] <= x /\ x < T[s] + Counts(c)[s]
  BY <1>1, SumsReach DEF PlanSums
<1>3. T[s] \in Nat /\ Delta!Chunks(c, s) \in Nat /\ Counts(c)[s] = Delta!Chunks(c, s)
  BY SumsKnown
<1>4. x - T[s] \in Nat /\ x - T[s] < Delta!Chunks(c, s) /\ x = T[s] + (x - T[s])
  BY <1>2, <1>3
<1> QED BY <1>4

\* The chunks of all the groups.
LEMMA BeforeAll ==
  ASSUME NEW c, NEW T, PlanSums(c, T)
  PROVE  Delta!Before(c, Groups(c)) = T[Delta!Seqs(c)] /\ T[Delta!Seqs(c)] \in Nat
<1>1. Groups(c) \in 0..Groups(c)
  BY LanesSuffice DEF PlanSums
<1>2. T[Lanes(c)] = T[Delta!Seqs(c)] /\ T[Delta!Seqs(c)] \in Nat
  BY SumsKnown
<1> QED BY <1>1, <1>2, BeforeGroup DEF Lanes

\* Past the total there is nothing.
LEMMA EntryPast ==
  ASSUME NEW c, NEW T, PlanSums(c, T), NEW x \in Nat, ~(x < T[Delta!Seqs(c)])
  PROVE  Entry(c, x) = <<0, 0>>
<1>1. x >= Delta!Before(c, Groups(c))
  BY BeforeAll
<1> QED BY <1>1 DEF Entry

\* And of that sequence alone: the plan has its tokens from there.
LEMMA EntryOfChunk ==
  ASSUME NEW c, NEW T, PlanSums(c, T), NEW s \in 0..(Delta!Seqs(c) - 1),
         NEW j \in Nat, j < Delta!Chunks(c, s)
  PROVE  /\ T[s] + j \in Nat /\ T[s] + j < T[s + 1] /\ T[s] + j < T[Delta!Seqs(c)]
         /\ Entry(c, T[s] + j) = <<Delta!Start(c, s) + CHUNK * j, Delta!Min({Delta!Length(c, s) - CHUNK * j, CHUNK})>>
<1> DEFINE S == Delta!Seqs(c)
           x == T[s] + j
           Owner == {i \in 0..(S - 1) : Delta!First(c, i) <= x /\ x < Delta!First(c, i) + Delta!Chunks(c, i)}
<1>1. /\ S \in Nat \ {0} /\ Lanes(c) \in Nat /\ S <= Lanes(c)
      /\ T[s] \in Nat /\ T[s + 1] \in Nat /\ T[s + 1] = T[s] + Delta!Chunks(c, s) /\ T[s + 1] <= T[S] /\ T[S] \in Nat
      /\ Delta!Chunks(c, s) \in Nat
  BY SumsKnown
<1>2. x \in Nat /\ x < T[s + 1] /\ x < T[S] /\ T[s] <= x
  BY <1>1
<1>3. x - Delta!First(c, s) = j
  BY <1>1, FirstChunk
<1> HIDE DEF x
<1>4. ASSUME NEW i \in 0..(S - 1)
      PROVE  i \in 0..(Lanes(c) - 1) /\ Counts(c)[i] = Delta!Chunks(c, i) /\ Delta!First(c, i) = T[i]
  BY <1>1, SumsKnown, FirstChunk
<1>5. Owner = {s}
  <2>1. s \in Owner
    BY <1>1, <1>2, <1>4
  <2>2. ASSUME NEW i \in Owner PROVE i = s
    <3>1. T[i] <= x /\ x < T[i] + Counts(c)[i] /\ T[s] <= x /\ x < T[s] + Counts(c)[s]
      BY <1>1, <1>2, <1>4
    <3> QED BY <1>1, <1>2, <1>4, <3>1, SumsApart DEF PlanSums
  <2> QED BY <2>1, <2>2
<1>6. (CHOOSE i \in Owner : TRUE) = s
  BY <1>5
<1>7. ~(x >= Delta!Before(c, Groups(c)))
  BY <1>2, BeforeAll
<1>8. Entry(c, x) = <<Delta!Start(c, s) + CHUNK * j, Delta!Min({Delta!Length(c, s) - CHUNK * j, CHUNK})>>
  BY <1>3, <1>6, <1>7 DEF Entry
<1> QED BY <1>2, <1>8 DEF x

\* Where a chunk's tokens end.
LEMMA ChunkWidth ==
  ASSUME NEW c, Planned(c), NEW s \in 0..(Delta!Seqs(c) - 1), NEW j \in Nat, j < Delta!Chunks(c, s)
  PROVE  /\ CHUNK * j \in Nat /\ Delta!Length(c, s) - CHUNK * j \in Nat \ {0}
         /\ Delta!Min({Delta!Length(c, s) - CHUNK * j, CHUNK}) =
              IF Delta!Length(c, s) - CHUNK * j <= CHUNK THEN Delta!Length(c, s) - CHUNK * j ELSE CHUNK
<1> DEFINE rest == Delta!Length(c, s) - CHUNK * j
<1>1. CHUNK \in Int /\ CHUNK * j \in Nat /\ rest \in Nat \ {0}
  BY PlannedNumbers, SequenceInside
<1> HIDE DEF rest
<1>2. Delta!Min({rest, CHUNK}) = IF rest <= CHUNK THEN rest ELSE CHUNK
  BY <1>1, MinOfTwo
<1> QED BY <1>1, <1>2 DEF rest

\* A chunk's tokens are among the call's.
LEMMA EntryInside ==
  ASSUME NEW c, NEW T, PlanSums(c, T), NEW x \in Nat
  PROVE  Entry(c, x)[2] \in 0..CHUNK /\ Entry(c, x)[1] + Entry(c, x)[2] \in 0..c.t
<1>1. Planned(c)
  BY DEF PlanSums
<1>2. CHUNK \in Nat \ {0} /\ c.t \in Nat
  BY <1>1, PlannedNumbers
<1>3. CASE ~(x < T[Delta!Seqs(c)])
  <2>1. Entry(c, x) = <<0, 0>>
    BY <1>3, EntryPast
  <2> QED BY <1>2, <2>1
<1>4. CASE x < T[Delta!Seqs(c)]
  <2>1. PICK s \in 0..(Delta!Seqs(c) - 1), j \in Nat : j < Delta!Chunks(c, s) /\ x = T[s] + j
    BY <1>4, ChunkOwned
  <2> DEFINE k == CHUNK * j
             rest == Delta!Length(c, s) - k
             w == Delta!Min({rest, CHUNK})
  <2>2. Entry(c, x) = <<Delta!Start(c, s) + k, w>>
    BY <2>1, EntryOfChunk
  <2>3. /\ Delta!Start(c, s) \in Nat /\ Delta!Length(c, s) \in Nat /\ Delta!Start(c, s) + Delta!Length(c, s) <= c.t
        /\ k \in Nat /\ rest \in Nat \ {0} /\ w = IF rest <= CHUNK THEN rest ELSE CHUNK
    BY <1>1, <2>1, SequenceInside, ChunkWidth
  <2>4. k + rest = Delta!Length(c, s)
    BY <2>3
  <2> HIDE DEF k, rest, w
  <2>5. w \in Nat /\ w <= CHUNK /\ w <= rest
    BY <1>2, <2>3
  <2> QED BY <1>2, <2>2, <2>3, <2>4, <2>5
<1> QED BY <1>3, <1>4

\* What the kernel leaves: each chunk's entry, and of each sequence, and past the
\* last, the chunks before it, as far as the plan has room.
LEMMA PlanLeft ==
  ASSUME NEW c, NEW T, PlanSums(c, T), NEW m, HasPlan(m)
  PROVE  /\ HasPlan(Delta!PlanKernel(c, m))
         /\ Delta!PlanKernel(c, m).plan = [x \in 0..(Delta!N(c) - 1) |-> Entry(c, x)]
         /\ \A s \in 0..Delta!Seqs(c) :
              Delta!PlanKernel(c, m).offsets[s] = IF T[s] <= Delta!N(c) THEN T[s] ELSE Delta!N(c)
<1> DEFINE n == Delta!PlanKernel(c, m)
           S == Delta!Seqs(c)
           cap == Delta!N(c)
           At(s) == IF s < S THEN Delta!First(c, s) ELSE Delta!Before(c, Groups(c))
<1>1. /\ HasPlan(n)
      /\ n.plan = [x \in 0..(cap - 1) |-> Entry(c, x)]
      /\ n.offsets = [s \in 0..S |-> Delta!Min({At(s), cap})]
  BY DEF Delta!PlanKernel, Entry, Groups, HasPlan
<1> HIDE DEF n
<1>2. cap \in Nat /\ S \in Nat \ {0}
  BY RoomFor, SumsKnown DEF PlanSums
<1>3. ASSUME NEW s \in 0..S
      PROVE  n.offsets[s] = IF T[s] <= cap THEN T[s] ELSE cap
  <2>1. T[s] \in Int /\ cap \in Int
    BY <1>2, SumsKnown
  <2>2. (s < S => s \in 0..(S - 1)) /\ (~(s < S) => s = S)
    BY <1>2
  <2>3. At(s) = T[s]
    BY <2>2, FirstChunk, BeforeAll
  <2> HIDE DEF At, cap
  <2> QED BY <1>1, <2>1, <2>3, MinOfTwo
<1> QED BY <1>1, <1>3 DEF n

\* The kernel leaves a plan that stays inside its tensors.
LEMMA PlanStaysInside ==
  ASSUME NEW c, Planned(c), NEW m, HasPlan(m)
  PROVE  Delta!PlanIsInside(c, Delta!PlanKernel(c, m))
<1> DEFINE n == Delta!PlanKernel(c, m)
           S == Delta!Seqs(c)
           cap == Delta!N(c)
<1>1. PICK T : PlanSums(c, T)
  BY PlanSumsExist
<1>2. /\ n.plan = [x \in 0..(cap - 1) |-> Entry(c, x)]
      /\ \A s \in 0..S : n.offsets[s] = IF T[s] <= cap THEN T[s] ELSE cap
  BY <1>1, PlanLeft
<1>3. cap \in Nat /\ S \in Nat
  BY PlannedNumbers, RoomFor
<1> HIDE DEF n, cap
<1>4. ASSUME NEW x \in DOMAIN n.plan
      PROVE  n.plan[x][2] \in 0..CHUNK /\ n.plan[x][1] + n.plan[x][2] \in 0..c.t
  <2>1. x \in Nat /\ n.plan[x] = Entry(c, x)
    BY <1>2, <1>3
  <2> QED BY <1>1, <2>1, EntryInside
<1>5. ASSUME NEW s \in 0..(S - 1)
      PROVE  0 <= n.offsets[s] /\ n.offsets[s] <= n.offsets[s + 1] /\ n.offsets[s + 1] <= cap
  <2>1. s \in 0..S /\ s + 1 \in 0..S /\ s <= s + 1
    BY <1>3
  <2>2. T[s] \in Nat /\ T[s + 1] \in Nat /\ T[s] <= T[s + 1]
    BY <1>1, <2>1, SumsKnown
  <2> QED BY <1>2, <1>3, <2>1, <2>2
<1> QED BY <1>4, <1>5 DEF Delta!PlanIsInside, n, cap

-----------------------------------------------------------------------------
(* Boundaries in order.                                                     *)

\* Clamping changes nothing, and the boundaries are in order however far apart.
LEMMA BoundariesOnward ==
  ASSUME NEW c, Planned(c), Delta!Ordered(c), NEW S, S = Delta!Seqs(c)
  PROVE  /\ c.cu[1] = 0 /\ c.cu[S + 1] = c.t
         /\ \A i \in 0..S : c.cu[i + 1] \in 0..c.t
         /\ \A i, j \in 0..S : i <= j => c.cu[i + 1] <= c.cu[j + 1]
         /\ \A s \in 0..(S - 1) :
              /\ c.cu[s + 1] \in 0..c.t /\ c.cu[s + 2] \in 0..c.t /\ c.cu[s + 1] <= c.cu[s + 2]
              /\ Delta!Start(c, s) = c.cu[s + 1] /\ Delta!Length(c, s) = c.cu[s + 2] - c.cu[s + 1]
<1> DEFINE f == [i \in 0..S |-> c.cu[i + 1]]
<1>1. /\ c.t \in Nat /\ S \in Nat \ {0}
      /\ \A s \in 0..(S - 1) : c.cu[s + 1] \in Int /\ c.cu[s + 2] \in Int
  BY PlannedNumbers
<1>2. /\ c.cu[1] = 0 /\ c.cu[S + 1] = c.t
      /\ \A s \in 1..S : c.cu[s] <= c.cu[s + 1]
  <2>1. Delta!Packed(c) /\ Len(c.cu) = S + 1
    BY <1>1 DEF Planned, Delta!Seqs, Delta!IsCall
  <2> QED BY <2>1 DEF Delta!Ordered
<1>3. ASSUME NEW i \in 0..S PROVE f[i] = c.cu[i + 1] /\ f[i] \in Int
  BY <1>1, <1>2
<1>4. ASSUME NEW i \in 0..(S - 1) PROVE f[i] <= f[i + 1]
  <2>1. i + 1 \in 1..S /\ (i + 1) + 1 = i + 2 /\ i \in 0..S /\ i + 1 \in 0..S
    BY <1>1
  <2> QED BY <1>2, <2>1
<1> HIDE DEF f
<1>5. ASSUME NEW i \in 0..S, NEW j \in 0..S, i <= j PROVE c.cu[i + 1] <= c.cu[j + 1]
  BY <1>1, <1>3, <1>4, <1>5, StepsOnward
<1>6. ASSUME NEW i \in 0..S PROVE c.cu[i + 1] \in 0..c.t
  <2>1. 0 \in 0..S /\ S \in 0..S /\ 0 <= i /\ i <= S /\ 0 + 1 = 1
    BY <1>1
  <2> QED BY <1>1, <1>2, <1>3, <1>5, <2>1
<1>7. ASSUME NEW s \in 0..(S - 1)
      PROVE  /\ c.cu[s + 1] \in 0..c.t /\ c.cu[s + 2] \in 0..c.t /\ c.cu[s + 1] <= c.cu[s + 2]
             /\ Delta!Start(c, s) = c.cu[s + 1] /\ Delta!Length(c, s) = c.cu[s + 2] - c.cu[s + 1]
  <2> DEFINE a == c.cu[s + 1]
             e == c.cu[s + 2]
  <2>1. s \in 0..S /\ s + 1 \in 0..S /\ (s + 1) + 1 = s + 2 /\ s <= s + 1
    BY <1>1
  <2>2. a \in 0..c.t /\ e \in 0..c.t /\ a <= e
    BY <1>5, <1>6, <2>1
  <2>3. Delta!Start(c, s) = Delta!Clamp(a, 0, c.t) /\ Delta!Length(c, s) = Delta!Max({Delta!Clamp(e, 0, c.t) - Delta!Clamp(a, 0, c.t), 0})
    BY DEF Delta!Start, Delta!Length
  <2> HIDE DEF a, e
  <2>4. Delta!Clamp(a, 0, c.t) = a /\ Delta!Clamp(e, 0, c.t) = e
    BY <1>1, <2>2 DEF Delta!Clamp
  <2>5. Delta!Max({e - a, 0}) = e - a
    <3> HIDE DEF Delta!Max
    <3> QED BY <1>1, <2>2, MaxOfTwo
  <2> QED BY <2>2, <2>3, <2>4, <2>5 DEF a, e
<1> QED BY <1>2, <1>5, <1>6, <1>7

\* The plan has room for the chunks of every sequence: what max_chunks counts is
\* enough.
THEOREM ChunksFit ==
  ASSUME NEW c, NEW T, PlanSums(c, T), Delta!Ordered(c)
  PROVE  T[Delta!Seqs(c)] <= Delta!N(c)
<1> DEFINE S == Delta!Seqs(c)
           b == [i \in 0..S |-> c.cu[i + 1]]
<1>1. Planned(c) /\ CHUNK \in Nat \ {0}
  BY PlannedNumbers DEF PlanSums
<1>2. S \in Nat \ {0} /\ T[0] = 0
  BY SumsKnown
<1>3. b[0] = 0 /\ b[S] = c.t
  BY <1>1, <1>2, BoundariesOnward
<1>4. ASSUME NEW j \in 0..(S - 1)
      PROVE  /\ b[j] \in Nat /\ b[j + 1] \in Nat /\ b[j + 1] - b[j] \in Nat
             /\ T[j] \in Int /\ T[j + 1] = T[j] + RoundUp(b[j + 1] - b[j], CHUNK)
  <2>1. j \in 0..S /\ j + 1 \in 0..S /\ (j + 1) + 1 = j + 2
    BY <1>2
  <2>2. b[j] = c.cu[j + 1] /\ b[j + 1] = c.cu[j + 2]
    BY <2>1
  <2>3. T[j] \in Nat /\ T[j + 1] = T[j] + Delta!Chunks(c, j)
    BY <2>1, SumsKnown
  <2> HIDE DEF b
  <2>4. b[j] \in 0..c.t /\ b[j + 1] \in 0..c.t /\ b[j] <= b[j + 1] /\ Delta!Length(c, j) = b[j + 1] - b[j]
    BY <1>1, <2>2, BoundariesOnward
  <2> QED BY <2>3, <2>4 DEF Delta!Chunks, Delta!CeilDiv, RoundUp
<1> HIDE DEF b
<1>5. S - 1 \in 0..(S - 1) /\ (S - 1) + 1 = S
  BY <1>2
<1>6. T[S] <= RoundUp(c.t, CHUNK) + (S - 1)
  BY <1>1, <1>2, <1>3, <1>4, <1>5, RoundUpOfCuts
<1> QED BY <1>1, <1>6, RoomFor

-----------------------------------------------------------------------------
(* The plan whole.                                                          *)

\* The chunk a token of a sequence is in, the d-th.
LEMMA ChunkOfToken ==
  ASSUME NEW c, Planned(c), NEW s \in 0..(Delta!Seqs(c) - 1), NEW d \in Nat, d < Delta!Length(c, s)
  PROVE  \E j \in Nat : j < Delta!Chunks(c, s) /\ CHUNK * j <= d /\ d < CHUNK * j + CHUNK
<1> DEFINE j == d \div CHUNK
           r == d % CHUNK
           z == Delta!Chunks(c, s)
<1>1. CHUNK \in Nat \ {0} /\ Delta!Length(c, s) \in Nat
  BY PlannedNumbers, SequenceInside
<1>2. j \in Nat /\ r \in 0..(CHUNK - 1) /\ d = j * CHUNK + r
  BY <1>1, Divided
<1>3. z \in Nat /\ Delta!Length(c, s) <= z * CHUNK
  BY <1>1, RoundedUp DEF Delta!Chunks, Delta!CeilDiv
<1> HIDE DEF z
<1>4. j < z
  BY <1>1, <1>3, DividedBelow
<1> HIDE DEF j, r
<1>5. j * CHUNK = CHUNK * j /\ CHUNK * j \in Nat
  BY <1>1, <1>2
<1> QED BY <1>1, <1>2, <1>4, <1>5 DEF z

\* The kernel leaves a plan that has each token once, in its own sequence.
THEOREM PlanStaysWhole ==
  ASSUME NEW c, Planned(c), NEW m, HasPlan(m)
  PROVE  Delta!PlanIsWhole(c, Delta!PlanKernel(c, m))
<1> SUFFICES ASSUME Delta!Ordered(c) PROVE Delta!PlanIsWhole(c, Delta!PlanKernel(c, m))
  BY DEF Delta!PlanIsWhole
<1> DEFINE n == Delta!PlanKernel(c, m)
           S == Delta!Seqs(c)
           cap == Delta!N(c)
<1>1. PICK T : PlanSums(c, T)
  BY PlanSumsExist
<1>2. /\ n.plan = [x \in 0..(cap - 1) |-> Entry(c, x)]
      /\ \A s \in 0..S : n.offsets[s] = IF T[s] <= cap THEN T[s] ELSE cap
  BY <1>1, PlanLeft
<1>3. S \in Nat \ {0} /\ cap \in Nat /\ CHUNK \in Nat \ {0} /\ c.t \in Nat
  BY PlannedNumbers, RoomFor
<1>4. T[S] <= cap /\ T[S] \in Nat
  BY <1>1, ChunksFit, BeforeAll
<1> HIDE DEF n, cap
<1>5. ASSUME NEW s \in 0..S PROVE n.offsets[s] = T[s]
  <2>1. T[s] \in Nat /\ T[s] <= T[S]
    BY <1>1, <1>3, SumsKnown
  <2> QED BY <1>2, <1>3, <1>4, <2>1
<1>6. ASSUME NEW s \in 0..(S - 1), NEW j \in Nat, j < Delta!Chunks(c, s)
      PROVE  /\ T[s] + j \in T[s]..(T[s + 1] - 1) /\ T[s] + j \in DOMAIN n.plan
             /\ \A p \in Int : Delta!Holds(n, T[s] + j, p) <=>
                  /\ CHUNK * j <= p - c.cu[s + 1] /\ p - c.cu[s + 1] < CHUNK * j + CHUNK
                  /\ p < c.cu[s + 2]
  <2> DEFINE x == T[s] + j
             k == CHUNK * j
             rest == Delta!Length(c, s) - k
             w == Delta!Min({rest, CHUNK})
             a == c.cu[s + 1]
             e == c.cu[s + 2]
  <2>1. /\ x \in Nat /\ x < T[s + 1] /\ x < T[S] /\ Entry(c, x) = <<Delta!Start(c, s) + k, w>>
    BY <1>1, <1>6, EntryOfChunk
  <2>2. k \in Nat /\ rest \in Nat \ {0} /\ w = IF rest <= CHUNK THEN rest ELSE CHUNK
    BY <1>6, ChunkWidth
  <2>3. a \in Int /\ e \in Int /\ Delta!Start(c, s) = a /\ rest = e - a - k
    BY <1>3, BoundariesOnward
  <2>4. T[s] \in Nat /\ T[s + 1] \in Nat
    BY <1>1, SumsKnown
  <2>5. x \in T[s]..(T[s + 1] - 1)
    BY <1>6, <2>1, <2>4
  <2> HIDE DEF x, w, S
  <2>6. x \in DOMAIN n.plan /\ n.plan[x] = <<a + k, w>>
    BY <1>2, <1>3, <1>4, <2>1, <2>3
  <2> HIDE DEF k, rest, a, e
  <2>7. ASSUME NEW p \in Int
        PROVE  Delta!Holds(n, x, p) <=> k <= p - a /\ p - a < k + CHUNK /\ p < e
    <3>1. Delta!Holds(n, x, p) <=> a + k <= p /\ p < a + k + w
      BY <2>6 DEF Delta!Holds
    <3> QED BY <1>3, <2>2, <2>3, <3>1
  <2> QED BY <2>5, <2>6, <2>7 DEF x, k, a, e
<1>7. ASSUME NEW s \in 0..(S - 1), NEW p \in c.cu[s + 1]..(c.cu[s + 2] - 1)
      PROVE  \E y \in n.offsets[s]..(n.offsets[s + 1] - 1) :
               y \in DOMAIN n.plan /\ Delta!Holds(n, y, p) /\ \A o \in DOMAIN n.plan : Delta!Holds(n, o, p) => o = y
  <2> DEFINE a == c.cu[s + 1]
             e == c.cu[s + 2]
             d == p - a
  <2>1. s \in 0..S /\ s + 1 \in 0..S /\ a \in Int /\ e \in Int /\ Delta!Length(c, s) = e - a
    BY <1>3, BoundariesOnward
  <2>2. p \in Int /\ d \in Nat /\ d < Delta!Length(c, s) /\ p < e /\ a <= p
    BY <2>1
  <2> HIDE DEF d
  <2>3. PICK j \in Nat : j < Delta!Chunks(c, s) /\ CHUNK * j <= d /\ d < CHUNK * j + CHUNK
    BY <2>2, ChunkOfToken
  <2>4. /\ T[s] + j \in T[s]..(T[s + 1] - 1) /\ T[s] + j \in DOMAIN n.plan
        /\ Delta!Holds(n, T[s] + j, p)
    BY <1>6, <2>2, <2>3 DEF d
  <2>5. ASSUME NEW o \in DOMAIN n.plan, Delta!Holds(n, o, p) PROVE o = T[s] + j
    <3>1. o \in Nat /\ n.plan[o] = Entry(c, o)
      BY <1>2, <1>3
    <3>2. o < T[S]
      <4> SUFFICES ASSUME ~(o < T[S]) PROVE FALSE
        OBVIOUS
      <4>1. n.plan[o][1] = 0 /\ n.plan[o][2] = 0
        BY <1>1, <3>1, EntryPast
      <4> QED BY <2>2, <2>5, <4>1 DEF Delta!Holds
    <3>3. PICK r \in 0..(S - 1), i \in Nat : i < Delta!Chunks(c, r) /\ o = T[r] + i
      BY <1>1, <3>1, <3>2, ChunkOwned
    <3> DEFINE f == c.cu[r + 1]
               h == c.cu[r + 2]
    <3>4. CHUNK * i <= p - f /\ p - f < CHUNK * i + CHUNK /\ p < h
      BY <1>6, <2>2, <2>5, <3>3
    <3>5. f \in Int /\ h \in Int /\ CHUNK * i \in Nat
      BY <1>3, BoundariesOnward
    <3>6. f <= p
      <4> HIDE DEF f, h
      <4> QED BY <2>2, <3>4, <3>5
    <3>7. ~(r < s)
      <4> SUFFICES ASSUME r < s PROVE FALSE
        OBVIOUS
      <4>1. r + 1 \in 0..S /\ s \in 0..S /\ r + 1 <= s /\ (r + 1) + 1 = r + 2
        BY <1>3
      <4>2. h <= a
        BY <4>1, BoundariesOnward
      <4> HIDE DEF h, a
      <4> QED BY <2>1, <2>2, <3>4, <3>5, <4>2
    <3>8. ~(s < r)
      <4> SUFFICES ASSUME s < r PROVE FALSE
        OBVIOUS
      <4>1. s + 1 \in 0..S /\ r \in 0..S /\ s + 1 <= r /\ (s + 1) + 1 = s + 2
        BY <1>3
      <4>2. e <= f
        BY <4>1, BoundariesOnward
      <4> HIDE DEF e, f
      <4> QED BY <2>1, <2>2, <3>5, <3>6, <4>2
    <3>9. r = s
      BY <1>3, <3>7, <3>8
    <3>10. CHUNK * i <= d /\ d < CHUNK * i + CHUNK
      BY <3>4, <3>9 DEF d
    <3>11. i = j
      BY <1>3, <2>2, <2>3, <3>10, WholesApart
    <3> QED BY <3>3, <3>9, <3>11
  <2>6. n.offsets[s] = T[s] /\ n.offsets[s + 1] = T[s + 1]
    BY <1>5, <2>1
  <2> QED BY <2>4, <2>5, <2>6
<1> QED BY <1>7 DEF Delta!PlanIsWhole, n, S

\* And memory has a place for it still.
LEMMA PlanHasPlace ==
  ASSUME NEW c, Planned(c), NEW m, HasPlan(m)
  PROVE  HasPlan(Delta!PlanKernel(c, m))
<1>1. PICK T : PlanSums(c, T)
  BY PlanSumsExist
<1> QED BY <1>1, PlanLeft

-----------------------------------------------------------------------------
(* The other kernels.                                                       *)

\* n has m's plan.
SamePlan(m, n) == HasPlan(n) /\ n.plan = m.plan /\ n.offsets = m.offsets

\* What is chosen of records with m's plan has it.
LEMMA ChosenKeeps ==
  ASSUME NEW m, NEW S, S # {}, \A n \in S : SamePlan(m, n)
  PROVE  SamePlan(m, CHOOSE r \in S : TRUE)
<1>1. (CHOOSE r \in S : TRUE) \in S
  OBVIOUS
<1> QED BY <1>1

\* The reference's forward pass writes outputs and final states.
LEMMA ForwardKeepsPlan ==
  ASSUME NEW c, NEW m, HasPlan(m), NEW y
  PROVE  SamePlan(m, Delta!ReferenceForward(c, m, y))
<1> DEFINE Outputs(x) == Delta!Tabulated([k \in 0..(x.n - 1) |-> Delta!OutputOf(x.p[k], x.i[k], x.s[k])])
           Written(out, last) ==
             [m EXCEPT !.out  = Delta!Unchunk(c, y, @, out),
                       !.last = [yv \in DOMAIN @ |->
                                   IF yv[1] = y THEN [d \in 0..(DK - 1) |-> last[d][yv[2]]] ELSE @[yv]]]
           X == Delta!WithChunks(c, m, y)
           W(x) == Written(Outputs(x), x.s[x.n])
           S == {W(x) : x \in {X}}
<1>1. Delta!ReferenceForward(c, m, y) = CHOOSE r \in S : TRUE
  BY Zenon DEF Delta!ReferenceForward, Delta!Once
<1>2. ASSUME NEW x PROVE SamePlan(m, W(x))
  BY DEF SamePlan, HasPlan
<1> HIDE DEF W, X
<1>3. S # {}
  OBVIOUS
<1>4. \A n \in S : SamePlan(m, n)
  BY <1>2
<1> HIDE DEF S
<1> QED BY <1>1, <1>3, <1>4, ChosenKeeps

\* Its backward pass writes gradients.
LEMMA BackwardKeepsPlan ==
  ASSUME NEW c, NEW m, HasPlan(m), NEW y
  PROVE  SamePlan(m, Delta!ReferenceBackward(c, m, y))
<1> DEFINE Norms(x) == [r \in DOMAIN x |-> Delta!L2norm(x[r])]
           W(grads, ds) ==
             [Delta!Gradients(c, m, y, grads, Norms(m.q), Norms(m.k)) EXCEPT
                !.dfirst = [yv \in DOMAIN @ |->
                              IF yv[1] = y THEN [d \in 0..(DK - 1) |-> ds[0][d][yv[2]]] ELSE @[yv]]]
           X == Delta!WithChunks(c, m, y)
           Out(x) == Delta!Tabulated([k \in 0..(x.n - 1) |-> Delta!Chunk4(m.dout, Delta!ChunkAt(c, y, k), y % H, DV)])
           Ds(x, dO) == Delta!StateBackward(x.n, x.p, x.i, dO, m.dlast[y])
           Grads(x, dO, ds) == Delta!Tabulated([k \in 0..(x.n - 1) |->
                                 Delta!ChunkGradients(x.p[k], x.i[k], x.s[k], ds[k + 1], dO[k])])
           OfGrads(x, dO, ds) == {W(grads, ds) : grads \in {Grads(x, dO, ds)}}
           OfDs(x, dO) == {CHOOSE r \in OfGrads(x, dO, ds) : TRUE : ds \in {Ds(x, dO)}}
           OfOut(x) == {CHOOSE r \in OfDs(x, dO) : TRUE : dO \in {Out(x)}}
           OfX == {CHOOSE r \in OfOut(x) : TRUE : x \in {X}}
<1>1. Delta!ReferenceBackward(c, m, y) = CHOOSE r \in OfX : TRUE
  BY Zenon DEF Delta!ReferenceBackward, Delta!Once
<1>2. ASSUME NEW grads, NEW ds PROVE SamePlan(m, W(grads, ds))
  BY DEF SamePlan, HasPlan, Delta!Gradients
<1> HIDE DEF W, X, Out, Ds, Grads
<1>3. ASSUME NEW x, NEW dO, NEW ds PROVE SamePlan(m, CHOOSE r \in OfGrads(x, dO, ds) : TRUE)
  <2>1. OfGrads(x, dO, ds) # {} /\ \A n \in OfGrads(x, dO, ds) : SamePlan(m, n)
    BY <1>2
  <2> HIDE DEF OfGrads
  <2> QED BY <2>1, ChosenKeeps
<1> HIDE DEF OfGrads
<1>4. ASSUME NEW x, NEW dO PROVE SamePlan(m, CHOOSE r \in OfDs(x, dO) : TRUE)
  <2>1. OfDs(x, dO) # {} /\ \A n \in OfDs(x, dO) : SamePlan(m, n)
    BY <1>3
  <2> HIDE DEF OfDs
  <2> QED BY <2>1, ChosenKeeps
<1> HIDE DEF OfDs
<1>5. ASSUME NEW x PROVE SamePlan(m, CHOOSE r \in OfOut(x) : TRUE)
  <2>1. OfOut(x) # {} /\ \A n \in OfOut(x) : SamePlan(m, n)
    BY <1>4
  <2> HIDE DEF OfOut
  <2> QED BY <2>1, ChosenKeeps
<1> HIDE DEF OfOut
<1>6. OfX # {} /\ \A n \in OfX : SamePlan(m, n)
  BY <1>5
<1> HIDE DEF OfX
<1> QED BY <1>1, <1>6, ChosenKeeps

\* Its decoding steps write outputs and final states.
LEMMA StepsKeepPlan ==
  ASSUME NEW c, NEW m, HasPlan(m), NEW y
  PROVE  SamePlan(m, Delta!ReferenceSteps(c, m, y))
<1> DEFINE h == y % H
           Tokens(first, count) ==
             LET after[t \in 0..count] ==
                   IF t = 0 THEN [s |-> [d \in 0..(DK - 1) |-> [v \in 0..(DV - 1) |-> m.last[<<y, v>>][d]]],
                                  out |-> Delta!Vector(DV, LAMBDA v : 0)]
                   ELSE Delta!Once(after[t - 1].s, LAMBDA s : Delta!Step(c, m.step, <<first + t - 1, h>>, s))
             IN  Delta!Tabulated(after)
           W(first, after, count) ==
             [m EXCEPT
                !.last = [yv \in DOMAIN @ |->
                            IF yv[1] = y THEN [d \in 0..(DK - 1) |-> after[count].s[d][yv[2]]] ELSE @[yv]],
                !.stepout = [rv \in DOMAIN @ |->
                               IF rv[1][2] = h /\ first <= rv[1][1] /\ rv[1][1] < first + count
                               THEN after[rv[1][1] - first + 1].out[rv[2]] ELSE @[rv]]]
           S(first, count) == {W(first, after, count) : after \in {Tokens(first, count)}}
           Chosen(first, count) == CHOOSE r \in S(first, count) : TRUE
<1>1. Delta!ReferenceSteps(c, m, y) =
        IF c.step.cu = <<>> THEN Chosen(y \div H, 1)
        ELSE Chosen(c.step.cu[y \div H + 1], c.step.cu[y \div H + 2] - c.step.cu[y \div H + 1])
  BY Zenon DEF Delta!ReferenceSteps, Delta!Once
<1>2. ASSUME NEW first, NEW after, NEW count PROVE SamePlan(m, W(first, after, count))
  BY DEF SamePlan, HasPlan
<1> HIDE DEF W, Tokens
<1>3. ASSUME NEW first, NEW count PROVE SamePlan(m, Chosen(first, count))
  <2>1. S(first, count) # {} /\ \A n \in S(first, count) : SamePlan(m, n)
    BY <1>2
  <2> HIDE DEF S
  <2> QED BY <2>1, ChosenKeeps
<1> HIDE DEF Chosen
<1> QED BY <1>1, <1>3

\* The kernels but the plan's, and the host's references.
Quiet == {"prep", "prep_ta", "decay", "state_forward", "output", "dvlocal", "state_backward",
          "dvb", "dstate", "dattn", "dwy", "combine", "tc_prep", "tc_prep_t",
          "tc_wu", "tc_state_forward", "tc_dvlocal", "tc_state_backward", "tc_dqk", "tc_wy",
          "step", "reference", "reference_backward", "reference_steps"}

\* No kernel but the plan's writes the plan.
LEMMA KernelsKeepPlan ==
  ASSUME NEW c, NEW m, HasPlan(m), NEW cube, NEW launch \in Quiet
  PROVE  SamePlan(m, Delta!Effect(c, m, launch, cube))
<1>1. CASE launch = "prep"
  BY <1>1 DEF Delta!Effect, SamePlan, HasPlan, Delta!PrepKernel
<1>2. CASE launch = "prep_ta"
  BY <1>2 DEF Delta!Effect, SamePlan, HasPlan, Delta!PrepKernel
<1>3. CASE launch = "decay"
  BY <1>3 DEF Delta!Effect, SamePlan, HasPlan, Delta!StateDecay
<1>4. CASE launch = "state_forward"
  BY <1>4 DEF Delta!Effect, SamePlan, HasPlan, Delta!StateForwardKernel
<1>5. CASE launch = "output"
  BY <1>5 DEF Delta!Effect, SamePlan, HasPlan, Delta!OutputKernel
<1>6. CASE launch = "dvlocal"
  BY <1>6 DEF Delta!Effect, SamePlan, HasPlan, Delta!DvLocalKernel
<1>7. CASE launch = "state_backward"
  BY <1>7 DEF Delta!Effect, SamePlan, HasPlan, Delta!StateBackwardKernel
<1>8. CASE launch = "dvb"
  BY <1>8 DEF Delta!Effect, SamePlan, HasPlan, Delta!DvbKernel
<1>9. CASE launch = "dstate"
  BY <1>9 DEF Delta!Effect, SamePlan, HasPlan, Delta!DStateKernel
<1>10. CASE launch = "dattn"
  BY <1>10 DEF Delta!Effect, SamePlan, HasPlan, Delta!DAttnKernel
<1>11. CASE launch = "dwy"
  BY <1>11 DEF Delta!Effect, SamePlan, HasPlan, Delta!DWyKernel
<1>12. CASE launch = "combine"
  BY <1>12 DEF Delta!Effect, SamePlan, HasPlan, Delta!CombineKernel
<1>13. CASE launch = "tc_prep"
  BY <1>13 DEF Delta!Effect, SamePlan, HasPlan, Delta!TcPrepKernel, Delta!FromT
<1>14. CASE launch = "tc_prep_t"
  BY <1>14 DEF Delta!Effect, SamePlan, HasPlan, Delta!TcPrepKernel, Delta!FromT
<1>15. CASE launch = "tc_wu"
  BY <1>15 DEF Delta!Effect, SamePlan, HasPlan, Delta!TcWuKernel, Delta!FromT
<1>16. CASE launch = "tc_state_forward"
  BY <1>16 DEF Delta!Effect, SamePlan, HasPlan, Delta!TcStateForwardKernel
<1>17. CASE launch = "tc_dvlocal"
  BY <1>17 DEF Delta!Effect, SamePlan, HasPlan, Delta!TcDvLocalKernel
<1>18. CASE launch = "tc_state_backward"
  BY <1>18 DEF Delta!Effect, SamePlan, HasPlan, Delta!TcStateBackwardKernel
<1>19. CASE launch = "tc_dqk"
  <2>1. Delta!Effect(c, m, launch, cube) = Delta!TcDqkKernel(c, m, cube)
    BY <1>19 DEF Delta!Effect
  <2>2. SamePlan(m, Delta!TcDqkKernel(c, m, cube))
    BY DEF SamePlan, HasPlan, Delta!TcDqkKernel
  <2> QED BY <2>1, <2>2
<1>20. CASE launch = "tc_wy"
  BY <1>20 DEF Delta!Effect, SamePlan, HasPlan, Delta!TcWyKernel
<1>21. CASE launch = "step"
  BY <1>21 DEF Delta!Effect, SamePlan, HasPlan, Delta!StepKernel
<1>22. CASE launch = "reference"
  BY <1>22, ForwardKeepsPlan DEF Delta!Effect
<1>23. CASE launch = "reference_backward"
  BY <1>23, BackwardKeepsPlan DEF Delta!Effect
<1>24. CASE launch = "reference_steps"
  BY <1>24, StepsKeepPlan DEF Delta!Effect
<1> QED BY <1>1, <1>2, <1>3, <1>4, <1>5, <1>6, <1>7, <1>8, <1>9, <1>10, <1>11, <1>12, <1>13,
       <1>14, <1>15, <1>16, <1>17, <1>18, <1>19, <1>20, <1>21, <1>22, <1>23, <1>24 DEF Quiet
\* Buffers nobody has written hold no plan.
LEMMA NoPlanYet ==
  ASSUME NEW c, NEW m
  PROVE  HasPlan(Delta!Over(Delta!Scratch(c), m)) /\ Delta!Over(Delta!Scratch(c), m).plan = Garbage
<1>1. HasPlan(Delta!Scratch(c)) /\ Delta!Scratch(c).plan = Garbage
  BY DEF Delta!Scratch, HasPlan
<1>2. "plan" \in DOMAIN Delta!Scratch(c) /\ "offsets" \in DOMAIN Delta!Scratch(c)
  BY <1>1 DEF HasPlan
<1>3. Delta!Over(Delta!Scratch(c), m)["plan"] = Delta!Scratch(c)["plan"]
  BY <1>2 DEF Delta!Over
<1>4. HasPlan(Delta!Over(Delta!Scratch(c), m))
  BY <1>2 DEF Delta!Over, HasPlan
<1> QED BY <1>1, <1>3, <1>4

\* Nor do the buffers allocated between the passes.
LEMMA FreshHasNoPlan ==
  ASSUME NEW c, NEW m
  PROVE  HasPlan(Delta!Fresh(c, m)) /\ Delta!Fresh(c, m).plan = Garbage
<1> DEFINE g == [m EXCEPT !.tmat = IF c.path = "tc" /\ c.keep THEN @ ELSE Delta!Untouched(Delta!PerChunk(c))]
<1>1. Delta!Fresh(c, m) = Delta!Over(Delta!Scratch(c), g)
  BY DEF Delta!Fresh
<1> HIDE DEF g
<1> QED BY <1>1, NoPlanYet

\* Nor those of a call's beginning.
LEMMA AllocatedHasNoPlan ==
  ASSUME NEW c
  PROVE  HasPlan(Delta!Allocated(c)) /\ Delta!Allocated(c).plan = Garbage
<1> DEFINE a == [h0 |-> Delta!StateInput(c, "h0"), dlast |-> Delta!StateInput(c, "dlast"),
                 out |-> Delta!Untouched(Delta!Rows(c)), last |-> Delta!Untouched(Delta!PerState(c)), tmat |-> Delta!Untouched(Delta!PerChunk(c))]
           b == IF c.kind = "decode"
                THEN [step |-> Delta!Inputs(c, Delta!StepRows(c), 7), stepout |-> Delta!Untouched(Delta!StepRows(c) \X (0..(DV - 1)))]
                ELSE [step |-> <<>>, stepout |-> <<>>]
           g == Delta!Over(Delta!Inputs(c, Delta!Rows(c), 0), Delta!Over(a, b))
<1>1. Delta!Allocated(c) = Delta!Over(Delta!Scratch(c), g)
  BY DEF Delta!Allocated
<1> HIDE DEF g
<1> QED BY <1>1, NoPlanYet

-----------------------------------------------------------------------------
(* The launches of a call.                                                  *)

\* A call's launches are among these, the plan's only of packed sequences.
Launches(c) == Quiet \cup {"fresh"} \cup (IF Delta!Packed(c) THEN {"plan"} ELSE {})

\* The plan, where there is one to make.
LEMMA LayoutLaunches ==
  ASSUME NEW c
  PROVE  Delta!Layout(c) \in Seq(Launches(c))
<1> DEFINE S == Launches(c)
<1>1. ASSUME Delta!Packed(c) PROVE "plan" \in S
  BY <1>1 DEF Launches
<1>2. Delta!Layout(c) = IF Delta!Packed(c) THEN <<"plan">> ELSE <<>>
  BY DEF Delta!Layout
<1> HIDE DEF S
<1>3. CASE Delta!Packed(c)
  <2>1. <<"plan">> \in Seq(S)
    BY <1>1, <1>3
  <2> QED BY <1>2, <1>3, <2>1 DEF S
<1>4. CASE ~Delta!Packed(c)
  <2>1. <<>> \in Seq(S)
    OBVIOUS
  <2> QED BY <1>2, <1>4, <2>1 DEF S
<1> QED BY <1>3, <1>4

\* The launches of the forward pass.
LEMMA ForwardLaunches ==
  ASSUME NEW c, Delta!IsCall(c)
  PROVE  Delta!Forward(c) \in Seq(Launches(c)) /\ Len(Delta!Forward(c)) > 0
<1>1. c.path = "f32" \/ c.path = "tc" \/ c.path = "reference"
  BY DEF Delta!IsCall
<1>2. <<"prep", "decay", "state_forward", "output">> \in Seq(Launches(c))
  BY DEF Launches, Quiet
<1>3. <<"tc_prep", "tc_state_forward", "output">> \in Seq(Launches(c))
  BY DEF Launches, Quiet
<1>4. <<"reference">> \in Seq(Launches(c))
  BY DEF Launches, Quiet
<1> DEFINE S == Launches(c)
<1>5. Delta!Layout(c) \in Seq(S)
  BY LayoutLaunches
<1> HIDE DEF S
<1>6. CASE c.path = "f32"
  <2>1. Delta!Forward(c) = Delta!Layout(c) \o <<"prep", "decay", "state_forward", "output">>
    BY <1>6 DEF Delta!Forward
  <2> QED BY <1>2, <1>5, <2>1 DEF S
<1>7. CASE c.path = "tc"
  <2>1. Delta!Forward(c) = Delta!Layout(c) \o <<"tc_prep", "tc_state_forward", "output">>
    BY <1>7 DEF Delta!Forward
  <2> QED BY <1>3, <1>5, <2>1 DEF S
<1>8. CASE c.path = "reference"
  <2>1. Delta!Forward(c) = <<"reference">>
    BY <1>8 DEF Delta!Forward
  <2> QED BY <1>4, <2>1
<1> QED BY <1>1, <1>6, <1>7, <1>8

\* The launches of the backward pass.
LEMMA BackwardLaunches ==
  ASSUME NEW c, Delta!IsCall(c)
  PROVE  Delta!Backward(c) \in Seq(Launches(c))
<1>1. c.path = "f32" \/ c.path = "tc" \/ c.path = "reference"
  BY DEF Delta!IsCall
<1> DEFINE S == Launches(c)
           f == <<"prep_ta", "decay", "state_forward", "dvlocal", "state_backward", "dvb",
                  "dstate", "dattn", "dwy", "combine">>
           t == <<IF c.keep THEN "tc_wu" ELSE "tc_prep_t", "tc_state_forward", "tc_dvlocal",
                  "tc_state_backward", "tc_dqk", "tc_wy">>
<1>2. f \in Seq(S)
  <2>1. {"prep_ta", "decay", "state_forward", "dvlocal", "state_backward", "dvb",
         "dstate", "dattn", "dwy", "combine"} \subseteq S
    BY DEF Launches, Quiet
  <2> HIDE DEF S
  <2> QED BY <2>1
<1>3. t \in Seq(S)
  <2>1. {"tc_wu", "tc_prep_t", "tc_state_forward", "tc_dvlocal",
         "tc_state_backward", "tc_dqk", "tc_wy"} \subseteq S
    BY DEF Launches, Quiet
  <2> HIDE DEF S
  <2> QED BY <2>1
<1>4. <<"reference_backward">> \in Seq(S)
  BY DEF Launches, Quiet
<1>5. Delta!Layout(c) \in Seq(S)
  BY LayoutLaunches
<1> HIDE DEF S
<1>6. CASE c.path = "f32"
  <2>1. Delta!Backward(c) = Delta!Layout(c) \o f
    BY <1>6 DEF Delta!Backward
  <2> HIDE DEF f
  <2> QED BY <1>2, <1>5, <2>1 DEF S
<1>7. CASE c.path = "tc"
  <2>1. Delta!Backward(c) = Delta!Layout(c) \o t
    BY <1>7 DEF Delta!Backward
  <2> HIDE DEF t
  <2> QED BY <1>3, <1>5, <2>1 DEF S
<1>8. CASE c.path = "reference"
  <2>1. Delta!Backward(c) = <<"reference_backward">>
    BY <1>8 DEF Delta!Backward
  <2> QED BY <1>4, <2>1 DEF S
<1> QED BY <1>1, <1>6, <1>7, <1>8

\* A call launches something, and the plan's kernel only for packed sequences.
LEMMA StreamLaunches ==
  ASSUME NEW c, Delta!IsCall(c)
  PROVE  Delta!Stream(c) \in Seq(Launches(c)) /\ Len(Delta!Stream(c)) > 0
<1> DEFINE S == Launches(c)
           z == <<IF c.path = "reference" THEN "reference_steps" ELSE "step">>
<1>1. Delta!Forward(c) \in Seq(S) /\ Len(Delta!Forward(c)) > 0
  BY ForwardLaunches
<1>2. Delta!Backward(c) \in Seq(S)
  BY BackwardLaunches
<1>3. <<"fresh">> \in Seq(S)
  BY DEF Launches
<1>4. z \in Seq(S)
  <2>1. {"reference_steps", "step"} \subseteq S
    BY DEF Launches, Quiet
  <2> HIDE DEF S
  <2> QED BY <2>1
<1>5. Delta!Stream(c) = IF c.kind = "train" THEN Delta!Forward(c) \o <<"fresh">> \o Delta!Backward(c) ELSE Delta!Forward(c) \o z
  BY DEF Delta!Stream
<1> HIDE DEF S, z
<1>6. /\ Delta!Forward(c) \o z \in Seq(S) /\ Len(Delta!Forward(c) \o z) > 0
  BY <1>1, <1>4
<1>7. /\ Delta!Forward(c) \o <<"fresh">> \o Delta!Backward(c) \in Seq(S)
      /\ Len(Delta!Forward(c) \o <<"fresh">> \o Delta!Backward(c)) > 0
  BY <1>1, <1>2, <1>3
<1> QED BY <1>5, <1>6, <1>7 DEF S

-----------------------------------------------------------------------------
(* Every call.                                                              *)

\* Memory holds no plan, or one that is inside and whole.
PlanHolds(c, m) ==
  /\ HasPlan(m)
  /\ m.plan = Garbage \/ (Delta!PlanIsInside(c, m) /\ Delta!PlanIsWhole(c, m))

\* Each launch of a call, by any of its cubes, leaves memory so.
LEMMA LaunchesHold ==
  ASSUME Delta!DeltaAssumption, NEW c, Delta!IsCall(c), NEW launch \in Launches(c),
         NEW m, PlanHolds(c, m), NEW cube
  PROVE  PlanHolds(c, Delta!Effect(c, m, launch, cube))
<1> DEFINE n == Delta!Effect(c, m, launch, cube)
<1> SUFFICES PlanHolds(c, n)
  OBVIOUS
<1>1. HasPlan(m) /\ (m.plan = Garbage \/ (Delta!PlanIsInside(c, m) /\ Delta!PlanIsWhole(c, m)))
  BY DEF PlanHolds
<1>2. CASE launch \in Quiet
  <2>1. SamePlan(m, n)
    BY <1>1, <1>2, KernelsKeepPlan
  <2> HIDE DEF n
  <2>2. HasPlan(n) /\ n.plan = m.plan /\ n.offsets = m.offsets
    BY <2>1 DEF SamePlan
  <2>3. Delta!PlanIsInside(c, m) => Delta!PlanIsInside(c, n)
    BY <2>2 DEF Delta!PlanIsInside
  <2>4. Delta!PlanIsWhole(c, m) => Delta!PlanIsWhole(c, n)
    BY <2>2 DEF Delta!PlanIsWhole, Delta!Holds
  <2> QED BY <1>1, <2>2, <2>3, <2>4 DEF PlanHolds
<1>3. CASE launch = "fresh"
  <2>1. n = Delta!Fresh(c, m)
    BY <1>3 DEF Delta!Effect
  <2> HIDE DEF n
  <2> QED BY <2>1, FreshHasNoPlan DEF PlanHolds
<1>4. CASE launch = "plan" /\ Delta!Packed(c)
  <2>1. n = Delta!PlanKernel(c, m)
    BY <1>4 DEF Delta!Effect
  <2>2. Planned(c)
    BY <1>4 DEF Planned
  <2> HIDE DEF n
  <2>3. HasPlan(n) /\ Delta!PlanIsInside(c, n) /\ Delta!PlanIsWhole(c, n)
    BY <1>1, <2>1, <2>2, PlanHasPlace, PlanStaysInside, PlanStaysWhole
  <2> QED BY <2>3 DEF PlanHolds
<1> QED BY <1>2, <1>3, <1>4 DEF Launches

\* A call of the gated delta rule is at one of its launches, over memory with
\* no plan or one that is inside and whole: what every step keeps.
PlanInv ==
  /\ call \in Calls
  /\ call.op = "delta" => at \in 1..Len(Delta!Stream(call)) /\ PlanHolds(call, mem)

\* A call of the gated delta rule, its sizes and its launches.
LEMMA DeltaCall ==
  ASSUME call \in Calls, call.op = "delta"
  PROVE  /\ Delta!DeltaAssumption /\ Delta!IsCall(call)
         /\ Stream(call) = Delta!Stream(call) /\ Allocated(call) = Delta!Allocated(call)
         /\ Delta!Stream(call) \in Seq(Launches(call)) /\ Len(Delta!Stream(call)) > 0
         /\ \A m, launch, cube : Effect(call, m, launch, cube) = Delta!Effect(call, m, launch, cube)
<1>1. Delta!IsCall(call)
  BY CallsAssumption
<1>2. Delta!DeltaAssumption
  BY SizesAssumption
<1>3. /\ Delta!Stream(call) \in Seq(Launches(call)) /\ Len(Delta!Stream(call)) > 0
  BY <1>1, StreamLaunches
<1>4. Stream(call) = Delta!Stream(call)
  BY DEF Stream
<1>5. Allocated(call) = Delta!Allocated(call)
  BY DEF Allocated
<1>6. \A m, launch, cube : Effect(call, m, launch, cube) = Delta!Effect(call, m, launch, cube)
  BY DEF Effect
<1> QED BY <1>1, <1>2, <1>3, <1>4, <1>5, <1>6

\* A call begins with no plan.
LEMMA PlanInvHolds ==
  ASSUME Init
  PROVE  PlanInv
<1>1. call \in Calls /\ at = 1 /\ mem = Allocated(call)
  BY DEF Init
<1>2. ASSUME call.op = "delta"
      PROVE  at \in 1..Len(Delta!Stream(call)) /\ PlanHolds(call, mem)
  <2>1. /\ Allocated(call) = Delta!Allocated(call)
        /\ Delta!Stream(call) \in Seq(Launches(call)) /\ Len(Delta!Stream(call)) > 0
    BY <1>1, <1>2, DeltaCall
  <2>2. at \in 1..Len(Delta!Stream(call))
    BY <1>1, <2>1
  <2>3. HasPlan(mem) /\ mem.plan = Garbage
    BY <1>1, <2>1, AllocatedHasNoPlan
  <2> QED BY <2>2, <2>3 DEF PlanHolds
<1> QED BY <1>1, <1>2 DEF PlanInv

\* And every step leaves it with none, or one that is inside and whole.
LEMMA PlanInvStays ==
  ASSUME PlanInv, [Next]_vars
  PROVE  PlanInv'
<1>1. /\ call \in Calls
      /\ call.op = "delta" => at \in 1..Len(Delta!Stream(call)) /\ PlanHolds(call, mem)
  BY DEF PlanInv
<1>2. CASE RunCube
  <2>1. /\ mem' = Effect(call, mem, Stream(call)[at], todo[1])
        /\ call' = call /\ at' = at
    BY <1>2 DEF RunCube
  <2>2. ASSUME call.op = "delta" PROVE PlanHolds(call, mem')
    <3>1. /\ Delta!DeltaAssumption /\ Delta!IsCall(call)
          /\ Stream(call) = Delta!Stream(call) /\ Delta!Stream(call) \in Seq(Launches(call))
          /\ mem' = Delta!Effect(call, mem, Stream(call)[at], todo[1])
      BY <1>1, <2>1, <2>2, DeltaCall
    <3>2. at \in 1..Len(Delta!Stream(call)) /\ PlanHolds(call, mem)
      BY <1>1, <2>2
    <3>3. Stream(call)[at] \in Launches(call)
      BY <3>1, <3>2
    <3> QED BY <3>1, <3>2, <3>3, LaunchesHold
  <2>3. PlanHolds(call, mem)' <=> PlanHolds(call, mem')
    BY <2>1 DEF PlanHolds, HasPlan
  <2> QED BY <1>1, <2>1, <2>2, <2>3 DEF PlanInv
<1>3. CASE NextLaunch
  <2>1. at < Len(Stream(call)) /\ at' = at + 1 /\ call' = call /\ mem' = mem
    BY <1>3 DEF NextLaunch
  <2>2. ASSUME call.op = "delta" PROVE at' \in 1..Len(Delta!Stream(call))
    <3>1. /\ Stream(call) = Delta!Stream(call)
          /\ Delta!Stream(call) \in Seq(Launches(call))
      BY <1>1, <2>2, DeltaCall
    <3>2. at \in 1..Len(Delta!Stream(call))
      BY <1>1, <2>2
    <3> QED BY <2>1, <3>1, <3>2
  <2> QED BY <1>1, <2>1, <2>2 DEF PlanInv, PlanHolds, HasPlan
<1>4. CASE UNCHANGED vars
  BY <1>1, <1>4 DEF PlanInv, PlanHolds, HasPlan, vars
<1> QED BY <1>2, <1>3, <1>4 DEF Next

\* The plan's chunks stay inside the tokens and its offsets inside the plan, and
\* each token of boundaries in order is in one chunk, its own sequence's:
\* whatever the call, its boundaries, and the order of the cubes, no kernel that
\* reads the plan (gated_delta/chunk/cube.rs) leaves its tensors, misses a token
\* or takes one twice.
THEOREM PlanStays == Spec => []PlanExact
<1>1. Init => PlanInv
  BY PlanInvHolds
<1>2. PlanInv /\ [Next]_vars => PlanInv'
  BY PlanInvStays
<1>3. PlanInv => PlanExact
  BY DEF PlanInv, PlanHolds, PlanExact
<1> QED BY <1>1, <1>2, <1>3, PTL DEF Spec
==============================================================================
