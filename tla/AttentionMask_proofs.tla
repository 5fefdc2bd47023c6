------------------------ MODULE AttentionMask_proofs ------------------------
(***************************************************************************)
(* The interval arithmetic of the kernels against the reference's pairs,    *)
(* for every call: any number of queries, keys, sequences, any reach.       *)
(* At the end, what proofs of other kernels share with these: induction,    *)
(* rounding up, sums, and scans by windows that double.                     *)
(***************************************************************************)
EXTENDS AttentionMask, WellFoundedInduction, TLAPS

\* A set of naturals with an element has a least one.
LEMMA LeastElement ==
  ASSUME NEW S, S \subseteq Nat, S # {}
  PROVE  \E n \in S : \A k \in S : n <= k
<1> DEFINE Below == OpToRel(<, Nat)
<1>1. IsWellFoundedOn(Below, Nat)
  BY NatLessThanWellFounded
<1>2. \A x, y \in Nat : x < y => <<x, y>> \in Below
  BY DEF OpToRel
<1> HIDE DEF Below
<1>3. PICK n \in S : \A k \in S : ~ (<<k, n>> \in Below)
  BY <1>1, WFMin
<1>4. \A k \in S : n <= k
  <2> TAKE k \in S
  <2>1. k \in Nat /\ n \in Nat
    OBVIOUS
  <2>2. ~ (k < n)
    BY <1>2, <1>3, <2>1
  <2> QED BY <2>1, <2>2
<1> QED BY <1>4

\* Products keep their order.
LEMMA TimesOnward ==
  ASSUME NEW a \in Int, NEW b \in Int, NEW n \in Nat, a <= b
  PROVE  a * n <= b * n
<1>1. (b - a) * n >= 0
  OBVIOUS
<1>2. (b - a) * n = b * n - a * n
  OBVIOUS
<1> QED BY <1>1, <1>2

\* What a quotient and a remainder are.
LEMMA Divided ==
  ASSUME NEW a \in Nat, NEW n \in Nat \ {0}
  PROVE  /\ a \div n \in Nat /\ a % n \in 0 .. n - 1
         /\ a = (a \div n) * n + (a % n)
<1>1. a % n \in 0 .. n - 1
  OBVIOUS
<1>2. a \div n \in Nat
  OBVIOUS
<1>3. a = (a \div n) * n + (a % n)
  OBVIOUS
<1> QED BY <1>1, <1>2, <1>3

\* A quotient by what the divisor is multiplied with.
LEMMA DividedBelow ==
  ASSUME NEW a \in Nat, NEW n \in Nat \ {0}, NEW k \in Nat, a < k * n
  PROVE  a \div n < k
BY Divided, TimesOnward

\* Rounding up reaches past the number.
LEMMA RoundedUp ==
  ASSUME NEW a \in Nat, NEW n \in Nat \ {0}
  PROVE  (a + n - 1) \div n \in Nat /\ a <= ((a + n - 1) \div n) * n
<1>1. a + n - 1 \in Nat
  OBVIOUS
<1>2. /\ (a + n - 1) \div n \in Nat /\ (a + n - 1) % n \in 0 .. n - 1
      /\ a + n - 1 = ((a + n - 1) \div n) * n + ((a + n - 1) % n)
  BY <1>1, Divided
<1> DEFINE q == (a + n - 1) \div n
<1>3. q * n \in Nat
  BY <1>2
<1> QED BY <1>2, <1>3

\* A set of naturals with an element and a bound has a greatest one.
LEMMA GreatestElement ==
  ASSUME NEW S, S \subseteq Nat, S # {}, NEW n \in Nat, \A k \in S : k <= n
  PROVE  \E g \in S : \A k \in S : k <= g
<1> DEFINE T == {n - k : k \in S}
<1>1. T \subseteq Nat /\ T # {}
  <2>1. PICK s \in S : TRUE
    OBVIOUS
  <2>2. n - s \in T
    BY <2>1
  <2>3. \A k \in S : n - k \in Nat
    OBVIOUS
  <2> QED BY <2>2, <2>3
<1>2. PICK t \in T : \A k \in T : t <= k
  BY <1>1, LeastElement
<1>3. PICK g \in S : t = n - g
  BY <1>2
<1>4. \A k \in S : n - g <= n - k
  BY <1>2, <1>3
<1> QED BY <1>3, <1>4

\* What IsCall says of each number, apart from the rest.
LEMMA CallNumbers ==
  ASSUME NEW m, IsCall(m)
  PROVE  /\ m.tq \in Nat /\ m.tk \in Nat /\ m.seqs \in Nat
         /\ m.left \in Nat /\ m.right \in Nat
         /\ m.cuq \in [0 .. m.seqs -> Int] /\ m.cuk \in [0 .. m.seqs -> Int]
         /\ Left(m) \in 0 .. m.tq + m.tk + 1
         /\ Right(m) \in 0 .. m.tq + m.tk + 1
<1>1. /\ m.tq \in Nat /\ m.tk \in Nat /\ m.seqs \in Nat
      /\ m.left \in Nat /\ m.right \in Nat
      /\ m.cuq \in [0 .. m.seqs -> Int] /\ m.cuk \in [0 .. m.seqs -> Int]
  BY DEF IsCall
<1> QED BY <1>1 DEF Left, Right, Least, Unbounded

-----------------------------------------------------------------------------
(* The sequence of a position. *)

\* At most one number splits the offsets at a position: the one that does is
\* what SequenceOf chooses.
LEMMA SequenceIs ==
  ASSUME NEW cu, NEW n \in Nat, NEW pos, NEW s \in -1 .. n,
         \A t \in 0 .. n : cu[t] <= pos <=> t <= s
  PROVE  SequenceOf(cu, n, pos) = s
<1> DEFINE Splits(x) == \A t \in 0 .. n : cu[t] <= pos <=> t <= x
<1>1. ASSUME NEW x \in -1 .. n, Splits(x) PROVE x = s
  <2>1. CASE x < s
    BY <1>1, <2>1
  <2>2. CASE s < x
    BY <1>1, <2>2
  <2> QED BY <2>1, <2>2
<1> QED BY <1>1 DEF SequenceOf

\* Offsets that do not decrease are split by some number at every position.
LEMMA SequenceSplits ==
  ASSUME NEW n \in Nat, NEW top \in Nat, NEW cu, IsOffsets(cu, n, top), NEW pos \in Int
  PROVE  /\ SequenceOf(cu, n, pos) \in -1 .. n
         /\ \A t \in 0 .. n : cu[t] <= pos <=> t <= SequenceOf(cu, n, pos)
<1> DEFINE Past == {t \in 0 .. n : pos < cu[t]}
<1>1. cu \in [0 .. n -> 0 .. top] /\ \A s, t \in 0 .. n : s <= t => cu[s] <= cu[t]
  BY DEF IsOffsets
<1>2. \E s \in -1 .. n : \A t \in 0 .. n : cu[t] <= pos <=> t <= s
  <2>1. CASE Past = {}
    <3>1. \A t \in 0 .. n : cu[t] <= pos
      BY <1>1, <2>1
    <3> QED BY <3>1
  <2>2. CASE Past # {}
    <3>0. Past \subseteq Nat
      OBVIOUS
    <3> HIDE DEF Past
    <3>1. PICK first \in Past : \A t \in Past : first <= t
      BY <2>2, <3>0, LeastElement
    <3> USE DEF Past
    <3>2. \A t \in 0 .. n : cu[t] <= pos <=> t <= first - 1
      <4> TAKE t \in 0 .. n
      <4>1. t < first => cu[t] <= pos
        BY <1>1, <3>1
      <4>2. first <= t => pos < cu[t]
        BY <1>1, <3>1
      <4> QED BY <1>1, <3>1, <4>1, <4>2
    <3>3. first - 1 \in -1 .. n
      BY <3>1
    <3> HIDE DEF Past
    <3> QED BY <3>2, <3>3
  <2> QED BY <2>1, <2>2
<1>3. PICK s \in -1 .. n : \A t \in 0 .. n : cu[t] <= pos <=> t <= s
  BY <1>2
<1>4. SequenceOf(cu, n, pos) = s
  BY <1>3, SequenceIs
<1> QED BY <1>3, <1>4

\* A sequence that holds a position is the one SequenceOf gives, and a position
\* between the first offset and the last has one.
LEMMA HeldBy ==
  ASSUME NEW n \in Nat, NEW top \in Nat, NEW cu, IsOffsets(cu, n, top), NEW pos \in Nat
  PROVE  \A s \in 0 .. n - 1 : Holds(cu, s, pos) <=> s = SequenceOf(cu, n, pos)
<1>1. /\ SequenceOf(cu, n, pos) \in -1 .. n
      /\ \A t \in 0 .. n : cu[t] <= pos <=> t <= SequenceOf(cu, n, pos)
  BY SequenceSplits
<1>2. cu \in [0 .. n -> 0 .. top]
  BY DEF IsOffsets
<1> TAKE s \in 0 .. n - 1
<1>3. s \in 0 .. n /\ s + 1 \in 0 .. n
  OBVIOUS
<1>4. cu[s] \in Int /\ cu[s + 1] \in Int
  BY <1>2, <1>3
<1> QED BY <1>1, <1>3, <1>4 DEF Holds

-----------------------------------------------------------------------------
(* The window. *)

\* A key's place is in the window exactly when it lies within the cut reaches
\* of the place its query is aligned with: cutting them loses nothing, since a
\* reach that is cut is past every key.
LEMMA WindowIs ==
  ASSUME NEW m, IsCall(m), NEW pos \in Int, NEW rel \in 0 .. m.tk - 1,
         - m.tq <= pos, pos <= m.tk
  PROVE  ~OutsideWindow(m, pos, rel) <=> pos - Left(m) <= rel /\ rel <= pos + Right(m)
<1>1. /\ m.tq \in Nat /\ m.tk \in Nat /\ m.left \in Nat /\ m.right \in Nat
  BY DEF IsCall
<1>2. (Binds(m.right, m) /\ rel > pos + m.right) <=> ~ (rel <= pos + Right(m))
  BY <1>1 DEF Binds, Right, Least, Unbounded
<1>3. (Binds(m.left, m) /\ rel < pos - m.left) <=> ~ (pos - Left(m) <= rel)
  BY <1>1 DEF Binds, Left, Least, Unbounded
<1> QED BY <1>2, <1>3 DEF OutsideWindow

\* Where the kernels' arithmetic on a call that is not packed is right: the
\* interval of a query is what the reference lets it see, padding aside.
LEMMA AlignedIsReference ==
  ASSUME NEW m, IsCall(m), ~Packed(m), NEW r \in Nat, r < m.tq
  PROVE  {j \in Int : AlignedBounds(m, r)[1] <= j /\ j < AlignedBounds(m, r)[2]} \ m.pad
           = Sees(m, r)
<1> DEFINE pos == r + m.tk - m.tq
           first == Greatest(0, pos - Left(m))
           end == Least(m.tk, pos + Right(m) + 1)
<1>1. pos \in Int /\ - m.tq <= pos /\ pos <= m.tk
  BY CallNumbers
<1>2. \A j \in 0 .. m.tk - 1 : j \in Sees(m, r) <=> j \notin m.pad /\ ~OutsideWindow(m, pos, j)
  BY DEF Sees, Hidden
<1>3. \A j \in 0 .. m.tk - 1 :
        j \in Sees(m, r) <=> j \notin m.pad /\ pos - Left(m) <= j /\ j <= pos + Right(m)
  BY <1>1, <1>2, WindowIs
<1>4. \A j \in Int : first <= j /\ j < end
                      <=> j \in 0 .. m.tk - 1 /\ pos - Left(m) <= j /\ j <= pos + Right(m)
  <2>1. m.tk \in Nat /\ Left(m) \in Nat /\ Right(m) \in Nat
    BY CallNumbers
  <2> HIDE DEF pos
  <2> TAKE j \in Int
  <2>2. first <= j <=> 0 <= j /\ pos - Left(m) <= j
    BY <1>1, <2>1 DEF Greatest
  <2>3. j < end <=> j < m.tk /\ j <= pos + Right(m)
    BY <1>1, <2>1 DEF Least
  <2> QED BY <2>1, <2>2, <2>3
<1>5. \A j \in Int : AlignedBounds(m, r)[1] <= j /\ j < AlignedBounds(m, r)[2]
                      <=> first <= j /\ j < end
  <2>1. first \in Int /\ end \in Int
    BY <1>1, CallNumbers DEF Greatest, Least
  <2>2. AlignedBounds(m, r) = IF end <= first THEN NoKeys(m) ELSE <<first, end>>
    BY CallNumbers DEF AlignedBounds
  <2> HIDE DEF first, end
  <2> QED BY <2>1, <2>2, CallNumbers DEF NoKeys
<1>6. Sees(m, r) \subseteq 0 .. m.tk - 1
  BY DEF Sees
<1> HIDE DEF pos, first, end
<1> QED BY <1>3, <1>4, <1>5, <1>6, CallNumbers

-----------------------------------------------------------------------------
(* Packed sequences. *)

\* What the contract says of the two offsets of one sequence.
LEMMA SequenceNumbers ==
  ASSUME NEW m, IsMask(m), Packed(m), NEW s \in 0 .. m.seqs - 1
  PROVE  /\ m.cuq[s] \in 0 .. m.tq /\ m.cuq[s + 1] \in 0 .. m.tq /\ m.cuq[s] <= m.cuq[s + 1]
         /\ m.cuk[s] \in 0 .. m.tk /\ m.cuk[s + 1] \in 0 .. m.tk /\ m.cuk[s] <= m.cuk[s + 1]
<1>1. IsOffsets(m.cuq, m.seqs, m.tq) /\ IsOffsets(m.cuk, m.seqs, m.tk) /\ m.seqs \in Nat
  BY DEF IsMask, IsCall
<1>2. s \in 0 .. m.seqs /\ s + 1 \in 0 .. m.seqs
  BY <1>1
<1> QED BY <1>1, <1>2 DEF IsOffsets

\* The packed interval is what the reference lets the query see.
LEMMA PackedIsReference ==
  ASSUME NEW m, IsMask(m), Packed(m), NEW r \in Nat, r < m.tq,
         NEW s, s = SequenceOf(m.cuq, m.seqs, r)
  PROVE  {j \in Int : BoundsInSequence(m, r, s)[1] <= j /\ j < BoundsInSequence(m, r, s)[2]} \ m.pad
           = Sees(m, r)
<1> DEFINE B == BoundsInSequence(m, r, s)
<1>0. /\ IsCall(m) /\ m.pad = {}
      /\ IsOffsets(m.cuq, m.seqs, m.tq) /\ IsOffsets(m.cuk, m.seqs, m.tk)
  BY DEF IsMask, IsCall, Packed, Padded
<1>1. m.tq \in Nat /\ m.tk \in Nat /\ m.seqs \in Nat /\ Left(m) \in Nat /\ Right(m) \in Nat
  BY <1>0, CallNumbers
<1>2. s \in -1 .. m.seqs
  BY <1>0, <1>1, SequenceSplits
<1>3. \A x \in 0 .. m.seqs - 1 : Holds(m.cuq, x, r) <=> x = s
  BY <1>0, <1>1, HeldBy
<1>4. \A j \in 0 .. m.tk - 1 : j \in Sees(m, r) <=> ~PackedHidden(m, r, j)
  BY <1>0 DEF Sees, Hidden
<1>5. Sees(m, r) \subseteq 0 .. m.tk - 1
  BY DEF Sees
<1>6. CASE s \notin 0 .. m.seqs - 1
  <2>1. \A j \in 0 .. m.tk - 1 : PackedHidden(m, r, j)
    BY <1>3, <1>6 DEF PackedHidden
  <2>2. B = NoKeys(m)
    BY <1>6 DEF BoundsInSequence
  <2>3. {j \in Int : B[1] <= j /\ j < B[2]} = {}
    BY <1>1, <2>2 DEF NoKeys
  <2> QED BY <1>4, <1>5, <2>1, <2>3
<1>7. CASE s \in 0 .. m.seqs - 1
  <2> DEFINE qLen == m.cuq[s + 1] - m.cuq[s]
             kLen == m.cuk[s + 1] - m.cuk[s]
             pos == r - m.cuq[s] + kLen - qLen
             first == Greatest(m.cuk[s] + Greatest(0, pos - Left(m)), 0)
             end == Least(m.cuk[s] + Least(kLen, pos + Right(m) + 1), m.tk)
  <2>1. /\ m.cuq[s] \in 0 .. m.tq /\ m.cuq[s + 1] \in 0 .. m.tq /\ m.cuq[s] <= m.cuq[s + 1]
        /\ m.cuk[s] \in 0 .. m.tk /\ m.cuk[s + 1] \in 0 .. m.tk /\ m.cuk[s] <= m.cuk[s + 1]
    BY <1>7, SequenceNumbers
  <2>2. m.cuq[s] <= r /\ r < m.cuq[s + 1]
    BY <1>3, <1>7 DEF Holds
  <2>3. pos \in Int /\ - m.tq <= pos /\ pos <= m.tk
    BY <1>1, <2>1, <2>2
  <2>4. \A j \in 0 .. m.tk - 1 :
          j \in Sees(m, r) <=> Holds(m.cuk, s, j) /\ ~OutsideWindow(m, pos, j - m.cuk[s])
    BY <1>3, <1>4, <1>7 DEF PackedHidden
  <2>5. \A j \in 0 .. m.tk - 1 :
          j \in Sees(m, r) <=> /\ m.cuk[s] <= j /\ j < m.cuk[s + 1]
                              /\ pos - Left(m) <= j - m.cuk[s] /\ j - m.cuk[s] <= pos + Right(m)
    <3> HIDE DEF pos
    <3> TAKE j \in 0 .. m.tk - 1
    <3>1. CASE ~Holds(m.cuk, s, j)
      BY <2>4, <3>1 DEF Holds
    <3>2. CASE Holds(m.cuk, s, j)
      <4>1. j - m.cuk[s] \in 0 .. m.tk - 1
        BY <1>1, <2>1, <3>2 DEF Holds
      <4>2. ~OutsideWindow(m, pos, j - m.cuk[s])
              <=> pos - Left(m) <= j - m.cuk[s] /\ j - m.cuk[s] <= pos + Right(m)
        BY <1>0, <2>3, <4>1, WindowIs
      <4> QED BY <2>4, <3>2, <4>2 DEF Holds
    <3> QED BY <3>1, <3>2
  <2>6. \A j \in Int :
          first <= j /\ j < end
            <=> /\ j \in 0 .. m.tk - 1
                /\ m.cuk[s] <= j /\ j < m.cuk[s + 1]
                /\ pos - Left(m) <= j - m.cuk[s] /\ j - m.cuk[s] <= pos + Right(m)
    <3> HIDE DEF pos
    <3> TAKE j \in Int
    <3>1. first <= j <=> 0 <= j /\ m.cuk[s] <= j /\ pos - Left(m) <= j - m.cuk[s]
      BY <1>1, <2>1, <2>3 DEF Greatest
    <3>2. j < end <=> j < m.tk /\ j < m.cuk[s + 1] /\ j - m.cuk[s] <= pos + Right(m)
      BY <1>1, <2>1, <2>3 DEF Least
    <3> QED BY <1>1, <3>1, <3>2
  <2>7. first \in Int /\ end \in Int
    <3> HIDE DEF pos
    <3> QED BY <1>1, <2>1, <2>3 DEF Greatest, Least
  <2>8. B = IF end <= first THEN NoKeys(m) ELSE <<first, end>>
    BY <1>7 DEF BoundsInSequence
  <2> HIDE DEF pos, first, end, B
  <2>9. \A j \in Int : B[1] <= j /\ j < B[2] <=> first <= j /\ j < end
    BY <1>1, <2>7, <2>8 DEF NoKeys
  <2> QED BY <1>0, <1>1, <1>5, <2>5, <2>6, <2>9 DEF B
<1> QED BY <1>6, <1>7

\* The whole of row_bounds against the whole of the reference: for every call that
\* keeps the contract and every row, padding aside.
THEOREM RowBoundsIsReference ==
  ASSUME NEW m, IsMask(m), NEW r \in Nat
  PROVE  {j \in Int : InBounds(m, r, j)} \ m.pad = IF r < m.tq THEN Sees(m, r) ELSE {}
<1>1. IsCall(m) /\ m.tq \in Nat /\ m.tk \in Nat
  BY CallNumbers DEF IsMask
<1>2. CASE r < m.tq /\ ~Packed(m)
  BY <1>1, <1>2, AlignedIsReference DEF InBounds, RowBounds
<1>3. CASE r < m.tq /\ Packed(m)
  <2>1. RowBounds(m, r) = BoundsInSequence(m, r, SequenceOf(m.cuq, m.seqs, r))
    BY <1>1, <1>3 DEF RowBounds
  <2> QED BY <1>3, <2>1, PackedIsReference DEF InBounds
<1>4. CASE ~ (r < m.tq)
  <2>1. RowBounds(m, r) = NoKeys(m)
    BY <1>1, <1>4 DEF RowBounds, AlignedBounds
  <2> QED BY <1>1, <1>4, <2>1 DEF InBounds, NoKeys
<1> QED BY <1>2, <1>3, <1>4

\* An interval lies in the numbers from 0 to tk.
LEMMA BoundsInKeys ==
  ASSUME NEW m, IsMask(m), NEW r \in Nat
  PROVE  /\ RowBounds(m, r) \in Nat \X Nat
         /\ RowBounds(m, r)[1] <= m.tk /\ RowBounds(m, r)[2] <= m.tk
<1>0. IsCall(m)
  BY DEF IsMask
<1>1. m.tq \in Nat /\ m.tk \in Nat /\ m.seqs \in Nat /\ Left(m) \in Nat /\ Right(m) \in Nat
  BY <1>0, CallNumbers
<1>2. CASE ~Packed(m)
  <2>1. RowBounds(m, r) = AlignedBounds(m, r)
    BY <1>2 DEF RowBounds
  <2> QED BY <1>1, <2>1 DEF AlignedBounds, NoKeys, Greatest, Least
<1>3. CASE Packed(m) /\ r >= m.tq
  BY <1>1, <1>3 DEF RowBounds, NoKeys
<1>4. CASE Packed(m) /\ r < m.tq
  <2> DEFINE s == SequenceOf(m.cuq, m.seqs, r)
  <2>1. RowBounds(m, r) = BoundsInSequence(m, r, s)
    BY <1>1, <1>4 DEF RowBounds
  <2>2. CASE s \notin 0 .. m.seqs - 1
    BY <1>1, <2>1, <2>2 DEF BoundsInSequence, NoKeys
  <2>3. CASE s \in 0 .. m.seqs - 1
    <3>1. /\ m.cuq[s] \in 0 .. m.tq /\ m.cuq[s + 1] \in 0 .. m.tq
          /\ m.cuk[s] \in 0 .. m.tk /\ m.cuk[s + 1] \in 0 .. m.tk
      BY <1>4, <2>3, SequenceNumbers
    <3> HIDE DEF s
    <3> QED BY <1>1, <2>1, <3>1 DEF BoundsInSequence, NoKeys, Greatest, Least
  <2> QED BY <2>2, <2>3
<1> QED BY <1>1, <1>2, <1>3, <1>4

\* A query's keys are those in its interval but for the padding.
LEMMA SeenIsInBounds ==
  ASSUME NEW m, IsMask(m), NEW r \in Nat, r < m.tq
  PROVE  /\ Sees(m, r) \subseteq 0 .. m.tk - 1
         /\ \A c \in Int : c \in Sees(m, r) <=> InBounds(m, r, c) /\ c \notin m.pad
<1>1. {j \in Int : InBounds(m, r, j)} \ m.pad = Sees(m, r)
  BY RowBoundsIsReference
<1> QED BY <1>1 DEF Sees

-----------------------------------------------------------------------------
(* From one query to the next. *)

\* The two ends of a packed interval before the cuts: under the contract the cuts
\* to 0 and to tk change nothing.
FirstSeen(m, r, s) ==
  LET pos == r - m.cuq[s] + (m.cuk[s + 1] - m.cuk[s]) - (m.cuq[s + 1] - m.cuq[s])
  IN Greatest(m.cuk[s], m.cuk[s] + pos - Left(m))
EndSeen(m, r, s) ==
  LET pos == r - m.cuq[s] + (m.cuk[s + 1] - m.cuk[s]) - (m.cuq[s + 1] - m.cuq[s])
  IN Least(m.cuk[s + 1], m.cuk[s] + pos + Right(m) + 1)

\* A packed interval that is not empty lies within the keys of the sequence that
\* holds the row.
LEMMA PackedInterval ==
  ASSUME NEW m, IsMask(m), Packed(m), NEW r \in Nat, r < m.tq
  PROVE  LET s == SequenceOf(m.cuq, m.seqs, r) IN
         /\ s \notin 0 .. m.seqs - 1 => RowBounds(m, r) = NoKeys(m)
         /\ s \in 0 .. m.seqs - 1 =>
              /\ FirstSeen(m, r, s) \in Int /\ EndSeen(m, r, s) \in Int
              /\ m.cuq[s] <= r /\ r < m.cuq[s + 1]
              /\ RowBounds(m, r) = IF EndSeen(m, r, s) <= FirstSeen(m, r, s) THEN NoKeys(m)
                                   ELSE <<FirstSeen(m, r, s), EndSeen(m, r, s)>>
<1> DEFINE s == SequenceOf(m.cuq, m.seqs, r)
<1>0. IsCall(m) /\ IsOffsets(m.cuq, m.seqs, m.tq)
  BY DEF IsMask
<1>1. m.tq \in Nat /\ m.tk \in Nat /\ m.seqs \in Nat /\ Left(m) \in Nat /\ Right(m) \in Nat
  BY <1>0, CallNumbers
<1>2. RowBounds(m, r) = BoundsInSequence(m, r, s)
  BY <1>1 DEF RowBounds
<1>3. \A x \in 0 .. m.seqs - 1 : Holds(m.cuq, x, r) <=> x = s
  BY <1>0, <1>1, HeldBy
<1> HIDE DEF s
<1>4. s \notin 0 .. m.seqs - 1 => RowBounds(m, r) = NoKeys(m)
  BY <1>2 DEF BoundsInSequence
<1>5. ASSUME s \in 0 .. m.seqs - 1
      PROVE  /\ FirstSeen(m, r, s) \in Int /\ EndSeen(m, r, s) \in Int
             /\ m.cuq[s] <= r /\ r < m.cuq[s + 1]
             /\ RowBounds(m, r) = IF EndSeen(m, r, s) <= FirstSeen(m, r, s) THEN NoKeys(m)
                                  ELSE <<FirstSeen(m, r, s), EndSeen(m, r, s)>>
  <2> DEFINE qLen == m.cuq[s + 1] - m.cuq[s]
             kLen == m.cuk[s + 1] - m.cuk[s]
             pos == r - m.cuq[s] + kLen - qLen
             first == Greatest(m.cuk[s] + Greatest(0, pos - Left(m)), 0)
             end == Least(m.cuk[s] + Least(kLen, pos + Right(m) + 1), m.tk)
  <2>1. /\ m.cuq[s] \in 0 .. m.tq /\ m.cuq[s + 1] \in 0 .. m.tq /\ m.cuq[s] <= m.cuq[s + 1]
        /\ m.cuk[s] \in 0 .. m.tk /\ m.cuk[s + 1] \in 0 .. m.tk /\ m.cuk[s] <= m.cuk[s + 1]
    BY <1>5, SequenceNumbers
  <2>2. m.cuq[s] <= r /\ r < m.cuq[s + 1]
    BY <1>3, <1>5 DEF Holds
  <2>3. pos \in Int
    BY <2>1
  <2>4. FirstSeen(m, r, s) = Greatest(m.cuk[s], m.cuk[s] + pos - Left(m))
    BY DEF FirstSeen
  <2>5. EndSeen(m, r, s) = Least(m.cuk[s + 1], m.cuk[s] + pos + Right(m) + 1)
    BY DEF EndSeen
  <2>6. BoundsInSequence(m, r, s) = IF end <= first THEN NoKeys(m) ELSE <<first, end>>
    BY <1>5 DEF BoundsInSequence
  <2> HIDE DEF pos
  <2>7. first = FirstSeen(m, r, s) /\ FirstSeen(m, r, s) \in Int
    BY <1>1, <2>1, <2>3, <2>4 DEF Greatest
  <2>8. end = EndSeen(m, r, s) /\ EndSeen(m, r, s) \in Int
    BY <1>1, <2>1, <2>3, <2>5 DEF Least
  <2> QED BY <1>2, <2>2, <2>6, <2>7, <2>8
<1> QED BY <1>4, <1>5 DEF s

\* A later offset is no smaller.
LEMMA OffsetsOnward ==
  ASSUME NEW m, IsMask(m), Packed(m), NEW s \in 0 .. m.seqs, NEW t \in 0 .. m.seqs, s <= t
  PROVE  /\ m.cuq[s] <= m.cuq[t] /\ m.cuk[s] <= m.cuk[t]
         /\ m.cuq[s] \in 0 .. m.tq /\ m.cuk[s] \in 0 .. m.tk
         /\ m.cuq[t] \in 0 .. m.tq /\ m.cuk[t] \in 0 .. m.tk
BY DEF IsMask, IsOffsets

\* A later query is in the same sequence or in a later one.
LEMMA SequencesOnward ==
  ASSUME NEW m, IsMask(m), Packed(m), NEW q \in Nat, NEW r \in Nat, q <= r
  PROVE  SequenceOf(m.cuq, m.seqs, q) <= SequenceOf(m.cuq, m.seqs, r)
<1>1. IsOffsets(m.cuq, m.seqs, m.tq) /\ m.tq \in Nat /\ m.seqs \in Nat
  BY DEF IsMask, IsCall
<1>2. /\ SequenceOf(m.cuq, m.seqs, q) \in -1 .. m.seqs
      /\ \A t \in 0 .. m.seqs : m.cuq[t] <= q <=> t <= SequenceOf(m.cuq, m.seqs, q)
  BY <1>1, SequenceSplits
<1>3. /\ SequenceOf(m.cuq, m.seqs, r) \in -1 .. m.seqs
      /\ \A t \in 0 .. m.seqs : m.cuq[t] <= r <=> t <= SequenceOf(m.cuq, m.seqs, r)
  BY <1>1, SequenceSplits
<1> DEFINE s == SequenceOf(m.cuq, m.seqs, q)
<1>4. CASE s = -1
  BY <1>3, <1>4
<1>5. CASE s \in 0 .. m.seqs
  <2>1. m.cuq[s] \in Int /\ m.cuq[s] <= q
    BY <1>1, <1>2, <1>5 DEF IsOffsets
  <2> HIDE DEF s
  <2>2. m.cuq[s] <= r
    BY <2>1
  <2>3. s <= SequenceOf(m.cuq, m.seqs, r)
    BY <1>3, <1>5, <2>2
  <2> QED BY <2>3 DEF s
<1> QED BY <1>1, <1>2, <1>4, <1>5

\* Intervals that are not empty never move back from one query to a later one,
\* in one sequence, across sequences or without any.
THEOREM RowsOnward ==
  ASSUME NEW m, IsMask(m), NEW q \in Nat, NEW r \in Nat, q <= r,
         RowBounds(m, q) # NoKeys(m), RowBounds(m, r) # NoKeys(m)
  PROVE  RowBounds(m, q)[1] <= RowBounds(m, r)[1] /\ RowBounds(m, q)[2] <= RowBounds(m, r)[2]
<1>0. IsCall(m)
  BY DEF IsMask
<1>1. m.tq \in Nat /\ m.tk \in Nat /\ m.seqs \in Nat /\ Left(m) \in Nat /\ Right(m) \in Nat
  BY <1>0, CallNumbers
<1>2. r < m.tq
  BY <1>1 DEF RowBounds, AlignedBounds
<1>3. CASE ~Packed(m)
  <2> DEFINE First(x) == Greatest(0, x + m.tk - m.tq - Left(m))
             End(x) == Least(m.tk, x + m.tk - m.tq + Right(m) + 1)
  <2>1. /\ RowBounds(m, q) = <<First(q), End(q)>>
        /\ RowBounds(m, r) = <<First(r), End(r)>>
    <3>1. \A x \in Nat : RowBounds(m, x) = NoKeys(m) \/ RowBounds(m, x) = <<First(x), End(x)>>
      <4> TAKE x \in Nat
      <4>1. RowBounds(m, x) = IF x >= m.tq \/ End(x) <= First(x) THEN NoKeys(m)
                                                               ELSE <<First(x), End(x)>>
        <5>1. RowBounds(m, x) = AlignedBounds(m, x)
          BY <1>3 DEF RowBounds
        <5> QED BY <1>1, <5>1 DEF AlignedBounds
      <4> QED BY <4>1
    <3> HIDE DEF First, End
    <3> QED BY <3>1
  <2>2. First(q) <= First(r) /\ End(q) <= End(r)
    BY <1>1 DEF Greatest, Least
  <2> HIDE DEF First, End
  <2> QED BY <2>1, <2>2
<1>4. CASE Packed(m)
  <2> DEFINE s == SequenceOf(m.cuq, m.seqs, q)
             t == SequenceOf(m.cuq, m.seqs, r)
  <2>1. /\ s \in 0 .. m.seqs - 1
        /\ RowBounds(m, q) = <<FirstSeen(m, q, s), EndSeen(m, q, s)>>
        /\ FirstSeen(m, q, s) < EndSeen(m, q, s)
        /\ FirstSeen(m, q, s) \in Int /\ EndSeen(m, q, s) \in Int
    BY <1>1, <1>2, <1>4, PackedInterval
  <2>2. /\ t \in 0 .. m.seqs - 1
        /\ RowBounds(m, r) = <<FirstSeen(m, r, t), EndSeen(m, r, t)>>
        /\ FirstSeen(m, r, t) < EndSeen(m, r, t)
        /\ FirstSeen(m, r, t) \in Int /\ EndSeen(m, r, t) \in Int
    BY <1>2, <1>4, PackedInterval
  <2>3. s <= t
    BY <1>4, SequencesOnward
  <2> HIDE DEF s, t
  <2>4. /\ m.cuq[s] \in Int /\ m.cuq[s + 1] \in Int /\ m.cuk[s] \in Int /\ m.cuk[s + 1] \in Int
        /\ m.cuq[t] \in Int /\ m.cuq[t + 1] \in Int /\ m.cuk[t] \in Int /\ m.cuk[t + 1] \in Int
    BY <1>4, <2>1, <2>2, SequenceNumbers
  <2>5. CASE s = t
    BY <1>1, <2>1, <2>2, <2>4, <2>5 DEF FirstSeen, EndSeen, Greatest, Least
  <2>6. CASE s < t
    <3>1. m.cuk[s + 1] <= m.cuk[t]
      BY <1>1, <1>4, <2>1, <2>2, <2>6, OffsetsOnward
    <3>2. EndSeen(m, q, s) <= m.cuk[s + 1]
      BY <1>1, <2>4 DEF EndSeen, Least
    <3>3. m.cuk[t] <= FirstSeen(m, r, t)
      BY <1>1, <2>4 DEF FirstSeen, Greatest
    <3> QED BY <2>1, <2>2, <2>4, <3>1, <3>2, <3>3
  <2> QED BY <1>1, <2>1, <2>2, <2>3, <2>5, <2>6
<1> QED BY <1>3, <1>4

-----------------------------------------------------------------------------
(* From a block of keys back to the queries. *)

\* The packed range holds every query that sees a key of the block.
LEMMA PackedRangeHolds ==
  ASSUME NEW m, IsMask(m), Packed(m), NEW r \in Nat, r < m.tq,
         NEW k0 \in Nat, NEW k1 \in Nat, k0 < k1, k1 <= m.tk,
         RowBounds(m, r) # NoKeys(m), RowBounds(m, r)[1] < k1, k0 < RowBounds(m, r)[2]
  PROVE  /\ PackedRange(m, k0, k1)[1] \in Int /\ PackedRange(m, k0, k1)[2] \in Int
         /\ PackedRange(m, k0, k1)[1] <= r /\ r < PackedRange(m, k0, k1)[2]
<1> DEFINE s == SequenceOf(m.cuq, m.seqs, r)
           sa == SequenceOf(m.cuk, m.seqs, k0)
           sb == SequenceOf(m.cuk, m.seqs, k1 - 1)
           n == m.seqs
<1>0. IsCall(m) /\ IsOffsets(m.cuk, m.seqs, m.tk)
  BY DEF IsMask
<1>1. m.tq \in Nat /\ m.tk \in Nat /\ n \in Nat /\ Left(m) \in Nat /\ Right(m) \in Nat
  BY <1>0, CallNumbers
<1>2. /\ s \in 0 .. n - 1
      /\ m.cuq[s] <= r /\ r < m.cuq[s + 1]
      /\ RowBounds(m, r) = <<FirstSeen(m, r, s), EndSeen(m, r, s)>>
      /\ FirstSeen(m, r, s) \in Int /\ EndSeen(m, r, s) \in Int
  BY PackedInterval
<1>3. /\ sa \in -1 .. n /\ \A t \in 0 .. n : m.cuk[t] <= k0 <=> t <= sa
      /\ sb \in -1 .. n /\ \A t \in 0 .. n : m.cuk[t] <= k1 - 1 <=> t <= sb
  BY <1>0, <1>1, SequenceSplits
<1>4. PackedRange(m, k0, k1) =
        IF sa >= n THEN <<0, 0>>
        ELSE <<IF sa >= 0 THEN FirstIn(m, sa, k0) ELSE 0,
               IF sb >= n THEN m.cuq[n] ELSE IF sb >= 0 THEN EndIn(m, sb, k1) ELSE 0>>
  BY DEF PackedRange
<1> HIDE DEF s, sa, sb, n
<1>5. FirstSeen(m, r, s) < k1 /\ k0 < EndSeen(m, r, s)
  BY <1>2
<1>6. /\ m.cuq[s] \in Nat /\ m.cuq[s + 1] \in Nat
      /\ m.cuk[s] \in Nat /\ m.cuk[s + 1] \in Nat
      /\ s \in 0 .. n /\ s + 1 \in 0 .. n
  <2>1. m.cuq[s] \in 0 .. m.tq /\ m.cuq[s + 1] \in 0 .. m.tq /\ m.cuk[s] \in 0 .. m.tk /\ m.cuk[s + 1] \in 0 .. m.tk
    BY <1>2, SequenceNumbers DEF n
  <2> QED BY <1>1, <1>2, <2>1
<1>7. sa <= s
  <2>1. k0 < m.cuk[s + 1]
    BY <1>1, <1>2, <1>5, <1>6 DEF EndSeen, Least
  <2>2. ~ (s + 1 <= sa)
    BY <1>3, <1>6, <2>1
  <2> QED BY <1>2, <1>3, <2>2
<1>8. s <= sb
  <2>1. m.cuk[s] <= k1 - 1
    BY <1>1, <1>2, <1>5, <1>6 DEF FirstSeen, Greatest
  <2> QED BY <1>3, <1>6, <2>1
<1>9. sa >= 0 => FirstIn(m, sa, k0) \in Int /\ FirstIn(m, sa, k0) <= r
  <2> SUFFICES ASSUME sa >= 0 PROVE FirstIn(m, sa, k0) \in Int /\ FirstIn(m, sa, k0) <= r
    OBVIOUS
  <2>1. /\ m.cuq[sa] \in 0 .. m.tq /\ m.cuq[sa + 1] \in 0 .. m.tq /\ m.cuq[sa] <= m.cuq[sa + 1]
        /\ m.cuk[sa] \in 0 .. m.tk /\ m.cuk[sa + 1] \in 0 .. m.tk
    <3>1. sa \in 0 .. m.seqs - 1
      BY <1>1, <1>2, <1>3, <1>7 DEF n
    <3> QED BY <3>1, SequenceNumbers
  <2>a. FirstIn(m, sa, k0) \in Int
    BY <1>1, <2>1 DEF FirstIn, Greatest, Least
  <2>2. CASE sa = s
    <3>1. k0 - m.cuk[s] - ((m.cuk[s + 1] - m.cuk[s]) - (m.cuq[s + 1] - m.cuq[s])) - Right(m)
            <= r - m.cuq[s]
      BY <1>1, <1>2, <1>5, <1>6 DEF EndSeen, Least
    <3> QED BY <1>1, <1>2, <1>6, <2>2, <2>a, <3>1 DEF FirstIn, Greatest, Least
  <2>3. CASE sa < s
    <3>1. FirstIn(m, sa, k0) <= m.cuq[sa + 1]
      BY <1>1, <2>1 DEF FirstIn, Greatest, Least
    <3>2. m.cuq[sa + 1] <= m.cuq[s]
      <4>1. sa + 1 \in 0 .. m.seqs /\ s \in 0 .. m.seqs /\ sa + 1 <= s
        BY <1>1, <1>2, <1>3, <2>3 DEF n
      <4> QED BY <4>1, OffsetsOnward
    <3> QED BY <1>2, <1>6, <2>1, <2>a, <3>1, <3>2
  <2> QED BY <1>2, <1>3, <1>7, <2>2, <2>3
<1>10. sb \in 0 .. n - 1 => EndIn(m, sb, k1) \in Int /\ r < EndIn(m, sb, k1)
  <2> SUFFICES ASSUME sb \in 0 .. n - 1 PROVE EndIn(m, sb, k1) \in Int /\ r < EndIn(m, sb, k1)
    OBVIOUS
  <2>1. /\ m.cuq[sb] \in 0 .. m.tq /\ m.cuq[sb + 1] \in 0 .. m.tq /\ m.cuq[sb] <= m.cuq[sb + 1]
        /\ m.cuk[sb] \in 0 .. m.tk /\ m.cuk[sb + 1] \in 0 .. m.tk
    BY SequenceNumbers DEF n
  <2>a. EndIn(m, sb, k1) \in Int
    BY <1>1, <2>1 DEF EndIn, Greatest, Least
  <2>2. CASE sb = s
    <3>1. r - m.cuq[s]
            < k1 - m.cuk[s] - ((m.cuk[s + 1] - m.cuk[s]) - (m.cuq[s + 1] - m.cuq[s])) + Left(m)
      BY <1>1, <1>2, <1>5, <1>6 DEF FirstSeen, Greatest
    <3> QED BY <1>1, <1>2, <1>6, <2>2, <2>a, <3>1 DEF EndIn, Greatest, Least
  <2>3. CASE s < sb
    <3>1. m.cuq[sb] <= EndIn(m, sb, k1)
      BY <1>1, <2>1 DEF EndIn, Greatest, Least
    <3>2. m.cuq[s + 1] <= m.cuq[sb]
      <4>1. s + 1 \in 0 .. m.seqs /\ sb \in 0 .. m.seqs /\ s + 1 <= sb
        BY <1>1, <1>2, <1>3, <2>3 DEF n
      <4> QED BY <4>1, OffsetsOnward
    <3> QED BY <1>2, <1>6, <2>1, <2>a, <3>1, <3>2
  <2> QED BY <1>2, <1>8, <2>2, <2>3
<1>11. m.cuq[n] \in Int /\ r < m.cuq[n]
  <2>1. m.cuq[s + 1] <= m.cuq[n] /\ m.cuq[n] \in Int
    <3>1. s + 1 \in 0 .. m.seqs /\ m.seqs \in 0 .. m.seqs /\ s + 1 <= m.seqs
      BY <1>1, <1>2 DEF n
    <3>2. m.cuq[s + 1] <= m.cuq[m.seqs] /\ m.cuq[m.seqs] \in 0 .. m.tq
      BY <3>1, OffsetsOnward
    <3> QED BY <3>2 DEF n
  <2> QED BY <1>2, <1>6, <2>1
<1>12. ~ (sa >= n)
  BY <1>1, <1>2, <1>3, <1>7
<1>13. sb >= 0
  BY <1>2, <1>3, <1>8
<1>14. PackedRange(m, k0, k1)[1] = IF sa >= 0 THEN FirstIn(m, sa, k0) ELSE 0
  BY <1>4, <1>12
<1>15. PackedRange(m, k0, k1)[2] = IF sb >= n THEN m.cuq[n] ELSE EndIn(m, sb, k1)
  BY <1>4, <1>12, <1>13
<1> QED BY <1>1, <1>3, <1>9, <1>10, <1>11, <1>13, <1>14, <1>15

\* No gradient is missed: the queries a block of keys is swept by are all that
\* see one of its keys (query_range, the loop of the backward).
THEOREM RangeIsWide ==
  ASSUME NEW m, IsMask(m), NEW r \in Nat, r < m.tq,
         NEW k0 \in Nat, NEW k1 \in Nat, k0 < k1, k1 <= m.tk,
         RowBounds(m, r) # NoKeys(m), RowBounds(m, r)[1] < k1, k0 < RowBounds(m, r)[2]
  PROVE  QueryRange(m, k0, k1)[1] <= r /\ r < QueryRange(m, k0, k1)[2]
<1>0. IsCall(m)
  BY DEF IsMask
<1>1. m.tq \in Nat /\ m.tk \in Nat /\ Left(m) \in Nat /\ Right(m) \in Nat
  BY <1>0, CallNumbers
<1> DEFINE R == IF Packed(m) THEN PackedRange(m, k0, k1) ELSE AlignedRange(m, k0, k1)
<1>2. R[1] \in Int /\ R[2] \in Int /\ R[1] <= r /\ r < R[2]
  <2>1. CASE Packed(m)
    BY <2>1, PackedRangeHolds
  <2>2. CASE ~Packed(m)
    <3>1. RowBounds(m, r) = AlignedBounds(m, r)
      BY <2>2 DEF RowBounds
    <3>2. RowBounds(m, r) = <<Greatest(0, r + m.tk - m.tq - Left(m)),
                             Least(m.tk, r + m.tk - m.tq + Right(m) + 1)>>
      BY <1>1, <3>1 DEF AlignedBounds
    <3>3. /\ Greatest(0, r + m.tk - m.tq - Left(m)) < k1
          /\ k0 < Least(m.tk, r + m.tk - m.tq + Right(m) + 1)
      BY <3>2
    <3>4. k0 - (m.tk - m.tq) - Right(m) <= r /\ r < k1 - (m.tk - m.tq) + Left(m)
      BY <1>1, <3>3 DEF Greatest, Least
    <3> QED BY <1>1, <2>2, <3>4 DEF AlignedRange
  <2> QED BY <2>1, <2>2
<1>3. QueryRange(m, k0, k1) = <<Greatest(0, Least(R[1], m.tq)), Greatest(0, Least(R[2], m.tq))>>
  BY DEF QueryRange
<1> HIDE DEF R
<1> QED BY <1>1, <1>2, <1>3 DEF Greatest, Least

-----------------------------------------------------------------------------
(* A step or a tile that is not masked. *)

\* The aligned arithmetic both tests share: a query no earlier than q and no later
\* than q + n - 1 sees all of [k0, k0 + keys) once the first reaches its end and the
\* last its start.
LEMMA AlignedSeesAll ==
  ASSUME NEW m, IsCall(m), ~Packed(m), NEW q \in Nat, NEW n \in Nat \ {0},
         NEW k0 \in Nat, NEW keys \in Nat \ {0},
         NEW r \in Nat, q <= r, r <= q + n - 1, r < m.tq,
         q + m.tk - m.tq + n - 1 - Left(m) <= k0,
         k0 + keys - 1 <= q + m.tk - m.tq + Right(m),
         k0 + keys <= m.tk
  PROVE  RowBounds(m, r)[1] <= k0 /\ k0 + keys <= RowBounds(m, r)[2]
<1>1. m.tq \in Nat /\ m.tk \in Nat /\ Left(m) \in Nat /\ Right(m) \in Nat
  BY CallNumbers
<1> DEFINE first == Greatest(0, r + m.tk - m.tq - Left(m))
           end == Least(m.tk, r + m.tk - m.tq + Right(m) + 1)
<1>2. RowBounds(m, r) = IF r >= m.tq \/ end <= first THEN NoKeys(m) ELSE <<first, end>>
  <2>1. RowBounds(m, r) = AlignedBounds(m, r)
    BY DEF RowBounds
  <2> QED BY <1>1, <2>1 DEF AlignedBounds
<1>3. first \in Int /\ end \in Int /\ first <= k0 /\ k0 + keys <= end
  BY <1>1 DEF Greatest, Least
<1> HIDE DEF first, end
<1> QED BY <1>1, <1>2, <1>3

\* A step of the backward that is not masked element by element hides nothing
\* from any of its queries, though only the first and the last were asked.
THEOREM UnmaskedStep ==
  ASSUME NEW m, IsMask(m), NEW q \in Nat, NEW n \in Nat \ {0}, NEW k0 \in Nat, k0 < m.tk,
         NEW r \in Nat, q <= r, r <= q + n - 1, r < m.tq,
         ~StepMasked(m, q, k0, n, RowBounds(m, q), RowBounds(m, q + n - 1))
  PROVE  RowBounds(m, r)[1] <= k0 /\ k0 + n <= RowBounds(m, r)[2]
<1>0. IsCall(m)
  BY DEF IsMask
<1>1. m.tq \in Nat /\ m.tk \in Nat /\ m.seqs \in Nat /\ Left(m) \in Nat /\ Right(m) \in Nat
  BY <1>0, CallNumbers
<1>2. CASE ~Packed(m)
  <2>1. /\ k0 + n <= m.tk
        /\ q + m.tk - m.tq + n - 1 - Left(m) <= k0
        /\ k0 + n - 1 <= q + m.tk - m.tq + Right(m)
    BY <1>2 DEF StepMasked
  <2> QED BY <1>0, <1>2, <2>1, AlignedSeesAll
<1>3. CASE Packed(m)
  <2> DEFINE l == q + n - 1
             s == SequenceOf(m.cuq, m.seqs, q)
             t == SequenceOf(m.cuq, m.seqs, l)
             u == SequenceOf(m.cuq, m.seqs, r)
  <2>1. RowBounds(m, l)[1] <= k0 /\ k0 + n <= RowBounds(m, q)[2]
    BY <1>3 DEF StepMasked
  <2>2. RowBounds(m, l) # NoKeys(m) /\ RowBounds(m, q) # NoKeys(m)
    BY <1>1, <2>1 DEF NoKeys
  <2>3. l \in Nat /\ l < m.tq /\ q < m.tq
    BY <1>1, <1>3, <2>2 DEF RowBounds
  <2>4. /\ s \in 0 .. m.seqs - 1 /\ RowBounds(m, q) = <<FirstSeen(m, q, s), EndSeen(m, q, s)>>
        /\ FirstSeen(m, q, s) \in Int /\ EndSeen(m, q, s) \in Int
    BY <1>3, <2>2, <2>3, PackedInterval
  <2>5. /\ t \in 0 .. m.seqs - 1 /\ RowBounds(m, l) = <<FirstSeen(m, l, t), EndSeen(m, l, t)>>
        /\ FirstSeen(m, l, t) \in Int /\ EndSeen(m, l, t) \in Int
    BY <1>3, <2>2, <2>3, PackedInterval
  <2>6. s <= u /\ u <= t
    BY <1>3, <2>3, SequencesOnward
  <2>7. /\ u \in 0 .. m.seqs - 1 =>
             /\ FirstSeen(m, r, u) \in Int /\ EndSeen(m, r, u) \in Int
             /\ RowBounds(m, r) = IF EndSeen(m, r, u) <= FirstSeen(m, r, u) THEN NoKeys(m)
                                  ELSE <<FirstSeen(m, r, u), EndSeen(m, r, u)>>
    BY <1>3, PackedInterval
  <2>u. u \in Int
    <3>1. IsOffsets(m.cuq, m.seqs, m.tq)
      BY <1>3 DEF IsMask
    <3>2. u \in -1 .. m.seqs
      BY <1>1, <3>1, SequenceSplits
    <3> HIDE DEF u
    <3> QED BY <1>1, <3>2
  <2> HIDE DEF l, s, t, u
  <2>8. FirstSeen(m, l, t) <= k0 /\ k0 + n <= EndSeen(m, q, s)
    BY <2>1, <2>4, <2>5
  <2>9. /\ m.cuq[s] \in 0 .. m.tq /\ m.cuq[s + 1] \in 0 .. m.tq
        /\ m.cuk[s] \in 0 .. m.tk /\ m.cuk[s + 1] \in 0 .. m.tk
        /\ m.cuq[t] \in 0 .. m.tq /\ m.cuq[t + 1] \in 0 .. m.tq
        /\ m.cuk[t] \in 0 .. m.tk /\ m.cuk[t + 1] \in 0 .. m.tk
    BY <1>3, <2>4, <2>5, SequenceNumbers
  <2>10. s = t
    <3>1. EndSeen(m, q, s) <= m.cuk[s + 1]
      BY <1>1, <2>9 DEF EndSeen, Least
    <3>2. m.cuk[t] <= FirstSeen(m, l, t)
      BY <1>1, <2>3, <2>9 DEF FirstSeen, Greatest
    <3>3. ~ (s < t)
      <4> SUFFICES ASSUME s < t PROVE FALSE
        OBVIOUS
      <4>1. s + 1 \in 0 .. m.seqs /\ t \in 0 .. m.seqs /\ s + 1 <= t
        BY <1>1, <2>4, <2>5
      <4>2. m.cuk[s + 1] <= m.cuk[t]
        BY <1>3, <4>1, OffsetsOnward
      <4> QED BY <1>1, <2>4, <2>5, <2>8, <2>9, <3>1, <3>2, <4>2
    <3> QED BY <1>1, <2>4, <2>5, <2>6, <2>u, <3>3
  <2>11. u = s
    BY <1>1, <2>4, <2>6, <2>10, <2>u
  <2>12. FirstSeen(m, r, s) <= FirstSeen(m, l, s)
    BY <1>1, <2>3, <2>9 DEF FirstSeen, Greatest, l
  <2>13. EndSeen(m, q, s) <= EndSeen(m, r, s)
    BY <1>1, <2>9 DEF EndSeen, Least
  <2>14. FirstSeen(m, r, s) <= k0 /\ k0 + n <= EndSeen(m, r, s)
    BY <2>4, <2>5, <2>7, <2>8, <2>10, <2>11, <2>12, <2>13
  <2> QED BY <2>4, <2>7, <2>11, <2>14
<1> QED BY <1>2, <1>3

\* The same of a tile of the forward, where every row of the warp was asked.
THEOREM UnmaskedTile ==
  ASSUME NEW m, IsMask(m), NEW q \in Nat, NEW n \in Nat \ {0},
         NEW k0 \in Nat, NEW keys \in Nat \ {0},
         NEW r \in Nat, q <= r, r <= q + n - 1, r < m.tq,
         NEW b, \A x \in q .. q + n - 1 : b[x] = RowBounds(m, x),
         ~TileMasked(m, q, n, k0, keys, b)
  PROVE  RowBounds(m, r)[1] <= k0 /\ k0 + keys <= RowBounds(m, r)[2]
<1>0. IsCall(m)
  BY DEF IsMask
<1>1. CASE ~Packed(m)
  <2>1. /\ k0 + keys <= m.tk
        /\ q + m.tk - m.tq + n - 1 - Left(m) <= k0
        /\ k0 + keys - 1 <= q + m.tk - m.tq + Right(m)
    BY <1>1 DEF TileMasked
  <2> QED BY <1>0, <1>1, <2>1, AlignedSeesAll
<1>2. CASE Packed(m)
  BY <1>2 DEF TileMasked, AllRowsSee
<1> QED BY <1>1, <1>2
-----------------------------------------------------------------------------
(* The key tiles a block of queries sweeps. *)

\* The span of a block of rows holds every row's interval.
LEMMA SpanOfRows ==
  ASSUME NEW m, IsMask(m), NEW S, S \subseteq Nat,
         NEW b, b = [r \in S |-> RowBounds(m, r)]
  PROVE  /\ SpanLo(m, b) \in Nat /\ SpanHi(m, b) \in Nat
         /\ \A r \in S : SpanLo(m, b) <= RowBounds(m, r)[1] /\ RowBounds(m, r)[2] <= SpanHi(m, b)
<1> DEFINE Los == {m.tk} \cup {b[r][1] : r \in DOMAIN b}
           His == {0} \cup {b[r][2] : r \in DOMAIN b}
<1>1. m.tk \in Nat /\ DOMAIN b = S
  BY CallNumbers DEF IsMask
<1>2. \A r \in S : /\ b[r] = RowBounds(m, r)
                   /\ b[r][1] \in Nat /\ b[r][2] \in Nat
                   /\ b[r][1] <= m.tk /\ b[r][2] <= m.tk
  BY BoundsInKeys
<1>3. Los \subseteq Nat /\ Los # {} /\ m.tk \in Los
  BY <1>1, <1>2
<1>4. His \subseteq Nat /\ His # {} /\ 0 \in His /\ \A h \in His : h <= m.tk
  <2>1. \A r \in DOMAIN b : b[r][2] \in 0 .. m.tk
    BY <1>1, <1>2
  <2>2. His \subseteq 0 .. m.tk
    BY <1>1, <2>1
  <2> QED BY <1>1, <2>2
<1>5. \E lo \in Los : lo <= m.tk /\ \A r \in DOMAIN b : lo <= b[r][1]
  <2> HIDE DEF Los
  <2>1. PICK lo \in Los : \A k \in Los : lo <= k
    BY <1>3, LeastElement
  <2>2. \A r \in DOMAIN b : b[r][1] \in Los
    BY DEF Los
  <2> QED BY <1>3, <2>1, <2>2
<1>6. \E hi \in His : 0 <= hi /\ \A r \in DOMAIN b : b[r][2] <= hi
  <2> HIDE DEF His
  <2>1. PICK hi \in His : \A k \in His : k <= hi
    BY <1>1, <1>4, GreatestElement
  <2>2. \A r \in DOMAIN b : b[r][2] \in His
    BY DEF His
  <2> QED BY <1>4, <2>1, <2>2
<1>7. SpanLo(m, b) \in Los /\ \A r \in DOMAIN b : SpanLo(m, b) <= b[r][1]
  BY <1>5 DEF SpanLo
<1>8. SpanHi(m, b) \in His /\ \A r \in DOMAIN b : b[r][2] <= SpanHi(m, b)
  BY <1>6 DEF SpanHi
<1> QED BY <1>1, <1>2, <1>3, <1>4, <1>7, <1>8

\* The tiles swept for a block of rows hold every key of every row's interval.
THEOREM TilesHoldRows ==
  ASSUME NEW m, IsMask(m), NEW S, S \subseteq Nat,
         NEW b, b = [r \in S |-> RowBounds(m, r)], NEW tile \in Nat \ {0},
         NEW s, s = Tiles(SpanLo(m, b), SpanHi(m, b), tile)
  PROVE  /\ s \in Nat \X Nat
         /\ \A r \in S, c \in Int : InBounds(m, r, c) =>
              s[1] * tile <= c /\ c < (s[1] + s[2]) * tile
<1> DEFINE lo == SpanLo(m, b)
           hi == SpanHi(m, b)
           a == lo \div tile
           z == (hi + tile - 1) \div tile
<1>1. /\ lo \in Nat /\ hi \in Nat
      /\ \A r \in S : lo <= RowBounds(m, r)[1] /\ RowBounds(m, r)[2] <= hi
      /\ \A r \in S : RowBounds(m, r)[1] \in Nat /\ RowBounds(m, r)[2] \in Nat
  BY SpanOfRows, BoundsInKeys
<1>2. s = <<a, IF hi > lo THEN z - a ELSE 0>>
  BY DEF Tiles
<1> HIDE DEF lo, hi
<1>3. /\ a \in Nat /\ a * tile <= lo
      /\ z \in Nat /\ hi <= z * tile
  <2>1. a \in Nat /\ lo % tile \in 0 .. tile - 1 /\ lo = a * tile + (lo % tile)
    BY <1>1, Divided
  <2>2. a * tile \in Nat
    BY <2>1
  <2>3. z \in Nat /\ hi <= z * tile
    BY <1>1, RoundedUp
  <2> QED BY <1>1, <2>1, <2>2, <2>3
<1> HIDE DEF a, z
<1>4. hi > lo => a <= z
  <2>1. z < a => z * tile <= a * tile
    BY <1>3, TimesOnward
  <2>2. z * tile \in Nat /\ a * tile \in Nat
    BY <1>3
  <2> QED BY <1>1, <1>3, <2>1, <2>2
<1>5. s \in Nat \X Nat
  BY <1>2, <1>3, <1>4
<1>6. ASSUME NEW r \in S, NEW c \in Int, InBounds(m, r, c)
      PROVE  s[1] * tile <= c /\ c < (s[1] + s[2]) * tile
  <2>1. lo <= c /\ c < hi
    BY <1>1, <1>6 DEF InBounds
  <2>2. s[1] = a /\ s[1] + s[2] = z
    BY <1>1, <1>2, <1>3, <1>4, <2>1
  <2>3. a * tile \in Nat /\ z * tile \in Nat
    BY <1>3
  <2> QED BY <1>1, <1>3, <2>1, <2>2, <2>3
<1> QED BY <1>5, <1>6

-----------------------------------------------------------------------------
(* Numbers rounded up, and sums of a function's first values.               *)

\* A set that has 0, and with a number the next, has every natural.
LEMMA EveryNatural ==
  ASSUME NEW S, 0 \in S, \A n \in Nat : n \in S => n + 1 \in S
  PROVE  Nat \subseteq S
<1> SUFFICES ASSUME Nat \ S # {} PROVE FALSE
  OBVIOUS
<1>1. PICK n \in Nat \ S : \A k \in Nat \ S : n <= k
  BY LeastElement
<1>2. n # 0 /\ n - 1 \in Nat /\ ~(n <= n - 1)
  BY <1>1
<1>3. n - 1 \in S
  BY <1>1, <1>2
<1> QED BY <1>1, <1>2, <1>3

\* The times n that k takes, rounded up.
RoundUp(n, k) == (n + k - 1) \div k

\* A whole below it starts within the number.
LEMMA RoundUpStarts ==
  ASSUME NEW l \in Nat, NEW k \in Nat \ {0}
  PROVE  /\ RoundUp(l, k) \in Nat
         /\ \A j \in Nat : j < RoundUp(l, k) => k * j \in Nat /\ k * j < l
<1> DEFINE q == RoundUp(l, k)
           a == l + k - 1
<1>1. a \in Nat
  OBVIOUS
<1>2. q \in Nat /\ a % k \in 0..(k - 1) /\ a = q * k + (a % k)
  BY <1>1, Divided DEF RoundUp
<1> DEFINE r == a % k
<1> HIDE DEF q, r
<1>3. l + k - 1 = q * k + r /\ r \in 0..(k - 1) /\ q * k \in Nat
  BY <1>2 DEF r
<1>4. ASSUME NEW j \in Nat, j < q PROVE k * j \in Nat /\ k * j < l
  <2>1. (j + 1) * k <= q * k
    BY <1>2, <1>4, TimesOnward
  <2>2. (j + 1) * k = k * j + k /\ k * j \in Nat
    OBVIOUS
  <2> QED BY <1>3, <2>1, <2>2
<1> QED BY <1>2, <1>4 DEF q

\* Cut in two, a number takes at most one whole more.
LEMMA RoundUpOfSum ==
  ASSUME NEW k \in Nat \ {0}, NEW a \in Nat, NEW l \in Nat
  PROVE  RoundUp(a, k) + RoundUp(l, k) <= RoundUp(a + l, k) + 1
<1> DEFINE q == RoundUp(a, k)
           r == RoundUp(l, k)
           z == RoundUp(a + l, k)
<1>1. /\ q \in Nat /\ \A j \in Nat : j < q => k * j \in Nat /\ k * j < a
  BY RoundUpStarts
<1>2. /\ r \in Nat /\ \A j \in Nat : j < r => k * j \in Nat /\ k * j < l
  BY RoundUpStarts
<1>3. z \in Nat /\ a + l <= z * k
  BY RoundedUp DEF RoundUp
<1> SUFFICES ASSUME ~(q + r <= z + 1) PROVE FALSE
  OBVIOUS
<1> HIDE DEF q, r, z
<1>4. CASE q = 0
  <2>1. r - 1 \in Nat /\ r - 1 < r /\ z <= r - 1
    BY <1>2, <1>3, <1>4
  <2>2. z * k <= (r - 1) * k
    BY <1>3, <2>1, TimesOnward
  <2>3. k * (r - 1) < l /\ k * (r - 1) = (r - 1) * k
    BY <1>2, <2>1
  <2> QED BY <1>3, <2>1, <2>2, <2>3
<1>5. CASE r = 0
  <2>1. q - 1 \in Nat /\ q - 1 < q /\ z <= q - 1
    BY <1>1, <1>3, <1>5
  <2>2. z * k <= (q - 1) * k
    BY <1>3, <2>1, TimesOnward
  <2>3. k * (q - 1) < a /\ k * (q - 1) = (q - 1) * k
    BY <1>1, <2>1
  <2> QED BY <1>3, <2>1, <2>2, <2>3
<1>6. CASE q # 0 /\ r # 0
  <2>1. q - 1 \in Nat /\ q - 1 < q /\ r - 1 \in Nat /\ r - 1 < r
    BY <1>1, <1>2, <1>6
  <2>2. k * (q - 1) < a /\ k * (r - 1) < l
    BY <1>1, <1>2, <2>1
  <2>3. (q - 1) + (r - 1) \in Nat /\ z <= (q - 1) + (r - 1)
    BY <1>1, <1>2, <1>3, <2>1
  <2>4. z * k <= ((q - 1) + (r - 1)) * k
    BY <1>3, <2>3, TimesOnward
  <2>5. ((q - 1) + (r - 1)) * k = k * (q - 1) + k * (r - 1)
    BY <2>1
  <2>6. k * (q - 1) \in Int /\ k * (r - 1) \in Int
    BY <2>1
  <2> QED BY <1>3, <2>2, <2>4, <2>5, <2>6
<1> QED BY <1>4, <1>5, <1>6

\* The wholes of a number cut at the places b take at most one more for each cut.
LEMMA RoundUpOfCuts ==
  ASSUME NEW k \in Nat \ {0}, NEW S \in Nat, NEW b, NEW T, b[0] = 0, T[0] = 0,
         \A j \in 0..(S - 1) : /\ b[j] \in Nat /\ b[j + 1] \in Nat /\ b[j + 1] - b[j] \in Nat
                               /\ T[j] \in Int /\ T[j + 1] = T[j] + RoundUp(b[j + 1] - b[j], k)
  PROVE  \A j \in 0..(S - 1) : T[j + 1] <= RoundUp(b[j + 1], k) + j
<1> DEFINE Good(j) == T[j + 1] <= RoundUp(b[j + 1], k) + j
           G == {j \in Nat : j <= S - 1 => Good(j)}
<1>1. 0 \in G
  <2> SUFFICES ASSUME 0 <= S - 1 PROVE Good(0)
    OBVIOUS
  <2>1. b[1] \in Nat /\ b[1] - b[0] = b[1] /\ T[1] = T[0] + RoundUp(b[1] - b[0], k)
    OBVIOUS
  <2>2. RoundUp(b[1], k) \in Nat
    BY <2>1, RoundUpStarts
  <2> QED BY <2>1, <2>2
<1>2. ASSUME NEW j \in Nat, j \in G PROVE j + 1 \in G
  <2> SUFFICES ASSUME j + 1 <= S - 1 PROVE Good(j + 1)
    OBVIOUS
  <2> DEFINE a == b[j + 1]
             e == b[(j + 1) + 1]
  <2>1. j \in 0..(S - 1) /\ j + 1 \in 0..(S - 1)
    OBVIOUS
  <2>2. T[j + 1] <= RoundUp(a, k) + j
    BY <1>2, <2>1
  <2>3. /\ T[j + 1] \in Int /\ T[(j + 1) + 1] = T[j + 1] + RoundUp(e - a, k)
        /\ a \in Nat /\ e - a \in Nat /\ e \in Nat
    BY <2>1
  <2> HIDE DEF a
  <2>4. a + (e - a) = e
    BY <2>3
  <2>5. RoundUp(a, k) + RoundUp(e - a, k) <= RoundUp(e, k) + 1
    BY <2>3, <2>4, RoundUpOfSum
  <2>6. RoundUp(a, k) \in Nat /\ RoundUp(e - a, k) \in Nat /\ RoundUp(e, k) \in Nat
    BY <2>3, RoundUpStarts
  <2> QED BY <2>2, <2>3, <2>5, <2>6
<1> HIDE DEF Good
<1>3. Nat \subseteq G
  <2> HIDE DEF G
  <2> QED BY <1>1, <1>2, EveryNatural
<1> QED BY <1>3 DEF Good

\* Two wholes have no number in common.
LEMMA WholesApart ==
  ASSUME NEW k \in Nat \ {0}, NEW i \in Nat, NEW j \in Nat, NEW d \in Int,
         k * i <= d, d < k * i + k, k * j <= d, d < k * j + k
  PROVE  i = j
<1>1. /\ i * k = k * i /\ j * k = k * j /\ k * i \in Nat /\ k * j \in Nat
      /\ (i + 1) * k = k * i + k /\ (j + 1) * k = k * j + k
  OBVIOUS
<1>2. ~(i < j)
  <2> SUFFICES ASSUME i < j PROVE FALSE
    OBVIOUS
  <2>1. (i + 1) * k <= j * k
    BY TimesOnward
  <2> QED BY <1>1, <2>1
<1>3. ~(j < i)
  <2> SUFFICES ASSUME j < i PROVE FALSE
    OBVIOUS
  <2>1. (j + 1) * k <= i * k
    BY TimesOnward
  <2> QED BY <1>1, <2>1
<1> QED BY <1>2, <1>3

\* T[i] is the sum of the values of n before i, below M.
Sums(T, n, M) ==
  /\ T \in [0..M -> Int] /\ T[0] = 0
  /\ \A i \in 0..(M - 1) : n[i] \in Nat /\ T[i + 1] = T[i] + n[i]

\* There are such sums.
LEMMA SumsExist ==
  ASSUME NEW M \in Nat, NEW n, \A i \in 0..(M - 1) : n[i] \in Nat
  PROVE  \E T : Sums(T, n, M)
<1> DEFINE S == {k \in Nat : k <= M => \E T : Sums(T, n, k)}
<1>1. 0 \in S
  <2> DEFINE T == [i \in 0..0 |-> 0]
  <2>1. Sums(T, n, 0)
    BY DEF Sums
  <2> QED BY <2>1
<1>2. ASSUME NEW k \in Nat, k \in S PROVE k + 1 \in S
  <2> SUFFICES ASSUME k + 1 <= M PROVE \E T : Sums(T, n, k + 1)
    OBVIOUS
  <2>1. PICK T : Sums(T, n, k)
    BY <1>2
  <2>2. k \in 0..(M - 1) /\ n[k] \in Nat
    OBVIOUS
  <2> DEFINE U == [i \in 0..(k + 1) |-> IF i = k + 1 THEN T[k] + n[k] ELSE T[i]]
  <2>3. U \in [0..(k + 1) -> Int] /\ U[0] = 0
    BY <2>1, <2>2 DEF Sums
  <2>4. ASSUME NEW i \in 0..((k + 1) - 1) PROVE n[i] \in Nat /\ U[i + 1] = U[i] + n[i]
    <3>1. CASE i = k
      BY <2>2, <3>1
    <3>2. CASE i # k
      <4>1. /\ i \in 0..(k - 1) /\ i + 1 # k + 1 /\ i # k + 1
            /\ i \in 0..(k + 1) /\ i + 1 \in 0..(k + 1)
        BY <3>2
      <4>2. U[i + 1] = T[i + 1] /\ U[i] = T[i]
        BY <4>1
      <4> QED BY <2>1, <4>1, <4>2 DEF Sums
    <3> QED BY <3>1, <3>2
  <2> HIDE DEF U
  <2>5. Sums(U, n, k + 1)
    BY <2>3, <2>4 DEF Sums
  <2> QED BY <2>5
<1>3. M \in S
  <2> HIDE DEF S
  <2> QED BY <1>1, <1>2, EveryNatural
<1> QED BY <1>3

\* They do not fall below 0, and a number below the last is in some step's reach.
LEMMA SumsReach ==
  ASSUME NEW M \in Nat, NEW n, NEW T, Sums(T, n, M)
  PROVE  \A k \in 0..M :
           T[k] >= 0 /\ \A x \in Nat : x < T[k] => \E i \in 0..(k - 1) : T[i] <= x /\ x < T[i] + n[i]
<1> DEFINE Good(k) == T[k] >= 0 /\ \A x \in Nat : x < T[k] => \E i \in 0..(k - 1) : T[i] <= x /\ x < T[i] + n[i]
           S == {k \in Nat : k <= M => Good(k)}
<1>1. 0 \in S
  BY DEF Sums
<1>2. ASSUME NEW k \in Nat, k \in S PROVE k + 1 \in S
  <2> SUFFICES ASSUME k + 1 <= M PROVE Good(k + 1)
    OBVIOUS
  <2>1. Good(k)
    BY <1>2
  <2>2. k \in 0..(M - 1) /\ n[k] \in Nat /\ T[k] \in Int /\ T[k + 1] = T[k] + n[k]
    BY DEF Sums
  <2>3. T[k + 1] >= 0
    BY <2>1, <2>2
  <2>4. ASSUME NEW x \in Nat, x < T[k + 1]
        PROVE  \E i \in 0..((k + 1) - 1) : T[i] <= x /\ x < T[i] + n[i]
    <3>1. CASE x < T[k]
      <4>1. PICK i \in 0..(k - 1) : T[i] <= x /\ x < T[i] + n[i]
        BY <2>1, <3>1
      <4>2. i \in 0..((k + 1) - 1)
        OBVIOUS
      <4> QED BY <4>1, <4>2
    <3>2. CASE x >= T[k]
      <4>1. k \in 0..((k + 1) - 1) /\ x < T[k] + n[k]
        BY <2>2, <2>4
      <4> QED BY <3>2, <4>1
    <3> QED BY <2>2, <3>1, <3>2
  <2> QED BY <2>3, <2>4
<1>3. Nat \subseteq S
  <2> HIDE DEF S
  <2> QED BY <1>1, <1>2, EveryNatural
<1> QED BY <1>3

\* The sums do not decrease.
LEMMA SumsOnward ==
  ASSUME NEW M \in Nat, NEW n, NEW T, Sums(T, n, M), NEW i \in 0..M, NEW j \in 0..M, i <= j
  PROVE  T[i] <= T[j]
<1> DEFINE S == {k \in Nat : i + k <= M => T[i] <= T[i + k]}
<1>1. 0 \in S
  BY DEF Sums
<1>2. ASSUME NEW k \in Nat, k \in S PROVE k + 1 \in S
  <2> SUFFICES ASSUME i + (k + 1) <= M PROVE T[i] <= T[i + (k + 1)]
    OBVIOUS
  <2>1. i + k \in 0..(M - 1) /\ i + (k + 1) = (i + k) + 1
    OBVIOUS
  <2>2. n[i + k] \in Nat /\ T[(i + k) + 1] = T[i + k] + n[i + k] /\ T[i + k] \in Int /\ T[i] \in Int
    BY <2>1 DEF Sums
  <2> QED BY <1>2, <2>1, <2>2
<1>3. j - i \in S /\ i + (j - i) = j
  <2> HIDE DEF S
  <2> QED BY <1>1, <1>2, EveryNatural
<1> QED BY <1>3

\* The sums from a place on are those of the values from there on.
LEMMA SumsFrom ==
  ASSUME NEW M \in Nat, NEW n, NEW T, Sums(T, n, M), NEW b \in 0..M, NEW G \in Nat, b + G <= M
  PROVE  Sums([i \in 0..G |-> T[b + i] - T[b]], [i \in 0..(G - 1) |-> n[b + i]], G)
<1> DEFINE U == [i \in 0..G |-> T[b + i] - T[b]]
           v == [i \in 0..(G - 1) |-> n[b + i]]
<1> SUFFICES Sums(U, v, G)
  OBVIOUS
<1>1. ASSUME NEW i \in 0..G PROVE T[b] \in Int /\ T[b + i] \in Int
  <2>1. b + i \in 0..M
    OBVIOUS
  <2> QED BY <2>1 DEF Sums
<1>2. U \in [0..G -> Int] /\ U[0] = 0
  <2>1. U \in [0..G -> Int]
    BY <1>1
  <2>2. 0 \in 0..G /\ b + 0 = b
    OBVIOUS
  <2> QED BY <1>1, <2>1, <2>2
<1>3. ASSUME NEW i \in 0..(G - 1) PROVE v[i] \in Nat /\ U[i + 1] = U[i] + v[i]
  <2>1. i \in 0..G /\ i + 1 \in 0..G /\ b + (i + 1) = (b + i) + 1 /\ b + i \in 0..(M - 1)
    OBVIOUS
  <2>2. n[b + i] \in Nat /\ T[(b + i) + 1] = T[b + i] + n[b + i]
    BY <2>1 DEF Sums
  <2>3. v[i] = n[b + i] /\ U[i] = T[b + i] - T[b] /\ U[i + 1] = T[(b + i) + 1] - T[b]
    BY <2>1
  <2>4. T[b] \in Int /\ T[b + i] \in Int
    BY <1>1, <2>1
  <2> HIDE DEF v, U
  <2> QED BY <2>2, <2>3, <2>4
<1> HIDE DEF U, v
<1> QED BY <1>2, <1>3 DEF Sums

\* A number is in the reach of one step alone.
LEMMA SumsApart ==
  ASSUME NEW M \in Nat, NEW n, NEW T, Sums(T, n, M), NEW i \in 0..(M - 1), NEW j \in 0..(M - 1), NEW x \in Int,
         T[i] <= x, x < T[i] + n[i], T[j] <= x, x < T[j] + n[j]
  PROVE  i = j
<1>1. ASSUME NEW a \in 0..(M - 1), NEW b \in 0..(M - 1), a < b PROVE T[a] + n[a] <= T[b] /\ T[b] \in Int /\ T[a] + n[a] \in Int
  <2>1. a + 1 \in 0..M /\ b \in 0..M /\ a \in 0..M /\ a + 1 <= b
    BY <1>1
  <2>2. T[a + 1] <= T[b]
    BY <2>1, SumsOnward
  <2>3. T[a] \in Int /\ T[b] \in Int /\ n[a] \in Nat /\ T[a + 1] = T[a] + n[a]
    BY <2>1 DEF Sums
  <2> QED BY <2>2, <2>3
<1>2. ~(i < j)
  BY <1>1
<1>3. ~(j < i)
  BY <1>1
<1> QED BY <1>2, <1>3

\* Values of 0 add nothing.
LEMMA SumsStop ==
  ASSUME NEW M \in Nat, NEW n, NEW T, Sums(T, n, M), NEW k \in 0..M, \A i \in k..(M - 1) : n[i] = 0
  PROVE  T[M] = T[k]
<1> DEFINE S == {d \in Nat : k + d <= M => T[k + d] = T[k]}
<1>1. 0 \in S
  OBVIOUS
<1>2. ASSUME NEW d \in Nat, d \in S PROVE d + 1 \in S
  <2> SUFFICES ASSUME k + (d + 1) <= M PROVE T[k + (d + 1)] = T[k]
    OBVIOUS
  <2>1. k + d \in k..(M - 1) /\ k + d \in 0..(M - 1) /\ k + d \in 0..M /\ k + (d + 1) = (k + d) + 1
    OBVIOUS
  <2>2. T[(k + d) + 1] = T[k + d] + n[k + d] /\ n[k + d] = 0 /\ T[k + d] \in Int
    BY <2>1 DEF Sums
  <2> QED BY <1>2, <2>1, <2>2
<1>3. M - k \in S /\ k + (M - k) = M
  <2> HIDE DEF S
  <2> QED BY <1>1, <1>2, EveryNatural
<1> QED BY <1>3

\* What does not fall at a step does not fall at all.
LEMMA StepsOnward ==
  ASSUME NEW S \in Nat, NEW f, \A i \in 0..S : f[i] \in Int,
         \A i \in 0..(S - 1) : f[i] <= f[i + 1], NEW i \in 0..S, NEW j \in 0..S, i <= j
  PROVE  f[i] <= f[j]
<1> DEFINE R == {k \in Nat : i + k <= S => f[i] <= f[i + k]}
<1>1. 0 \in R
  OBVIOUS
<1>2. ASSUME NEW k \in Nat, k \in R PROVE k + 1 \in R
  <2> SUFFICES ASSUME i + (k + 1) <= S PROVE f[i] <= f[i + (k + 1)]
    OBVIOUS
  <2>1. /\ i + k \in 0..(S - 1) /\ i + k \in 0..S /\ (i + k) + 1 \in 0..S
        /\ i + (k + 1) = (i + k) + 1
    OBVIOUS
  <2>2. f[i] \in Int /\ f[i + k] \in Int /\ f[(i + k) + 1] \in Int /\ f[i + k] <= f[(i + k) + 1]
    BY <2>1
  <2> QED BY <1>2, <2>1, <2>2
<1>3. j - i \in R /\ i + (j - i) = j
  <2> HIDE DEF R
  <2> QED BY <1>1, <1>2, EveryNatural
<1> QED BY <1>3

\* Two functions that begin alike, and go on alike, end alike.
LEMMA StepsAlike ==
  ASSUME NEW k \in Nat, NEW f, NEW w, f[0] = w[0],
         \A g \in 1..k : f[g - 1] = w[g - 1] => f[g] = w[g]
  PROVE  f[k] = w[k]
<1> DEFINE S == {g \in Nat : g <= k => f[g] = w[g]}
<1>1. 0 \in S
  OBVIOUS
<1>2. ASSUME NEW g \in Nat, g \in S PROVE g + 1 \in S
  <2>1. (g + 1) - 1 = g /\ (g + 1 <= k => g + 1 \in 1..k /\ g <= k)
    OBVIOUS
  <2> QED BY <1>2, <2>1
<1>3. k \in S
  <2> HIDE DEF S
  <2> QED BY <1>1, <1>2, EveryNatural
<1> QED BY <1>3

-----------------------------------------------------------------------------
(* A scan by windows that double.                                           *)

\* One turn of it, of n values: the values x and the step after it.
Doubled(x, st) == [i \in DOMAIN x |-> x[i] + IF i >= st THEN x[i - st] ELSE 0]
Turned(x, n)   == IF x[2] < n THEN <<Doubled(x[1], x[2]), 2 * x[2]>> ELSE x

Doublings(counts, n) == CHOOSE turn : turn = [k \in 0..n |-> IF k = 0 THEN <<counts, 1>> ELSE Turned(turn[k - 1], n)]

\* Its turns are one after the other.
LEMMA ScanTurns ==
  ASSUME NEW counts, NEW n \in Nat
  PROVE  /\ Doublings(counts, n)[0] = <<counts, 1>>
         /\ \A k \in 1..n : Doublings(counts, n)[k] = Turned(Doublings(counts, n)[k - 1], n)
<1> DEFINE E == <<counts, 1>>
           R(x) == Turned(x, n)
           F(g, k) == IF k = 0 THEN E ELSE R(g[k - 1])
           S == {i \in Nat : \E g : g = [k \in 0..i |-> F(g, k)]}
           turn == CHOOSE g : g = [k \in 0..n |-> F(g, k)]
<1>1. Doublings(counts, n) = turn
  BY Zenon DEF Doublings
<1> HIDE DEF E, R
<1>2. 0 \in S
  <2> DEFINE g == [j \in 0..0 |-> E]
  <2>1. g = [j \in 0..0 |-> F(g, j)]
    OBVIOUS
  <2> QED BY <2>1
<1>3. ASSUME NEW i \in Nat, i \in S PROVE i + 1 \in S
  <2>1. PICK g : g = [j \in 0..i |-> F(g, j)]
    BY <1>3
  <2> DEFINE h == [j \in 0..(i + 1) |-> IF j = i + 1 THEN R(g[j - 1]) ELSE g[j]]
  <2>2. ASSUME NEW j \in 0..(i + 1) PROVE h[j] = F(h, j)
    <3>1. CASE j = i + 1
      <4>1. j - 1 \in 0..i /\ j - 1 # i + 1 /\ j # 0
        BY <3>1
      <4> QED BY <3>1, <4>1
    <3>2. CASE j # i + 1
      <4>1. j \in 0..i
        BY <3>2
      <4>2. h[j] = F(g, j)
        BY <2>1, <3>2, <4>1
      <4>3. j # 0 => j - 1 \in 0..i /\ h[j - 1] = g[j - 1]
        BY <4>1
      <4> QED BY <4>2, <4>3
    <3> QED BY <3>1, <3>2
  <2>3. h = [j \in 0..(i + 1) |-> F(h, j)]
    BY <2>2
  <2> HIDE DEF h, F
  <2>4. \E x : x = [j \in 0..(i + 1) |-> F(x, j)]
    BY <2>3
  <2> QED BY <2>4
<1>4. n \in S
  <2> HIDE DEF S
  <2> QED BY <1>2, <1>3, EveryNatural
<1>5. \E g : g = [k \in 0..n |-> F(g, k)]
  BY <1>4
<1>6. turn = [k \in 0..n |-> F(turn, k)]
  BY <1>5
<1> HIDE DEF turn
<1>7. turn[0] = E /\ \A k \in 1..n : turn[k] = R(turn[k - 1])
  BY <1>6
<1> QED BY <1>1, <1>7 DEF E, R

\* A value's window: the sum of the st counts up to its own.
Windows(x, T, n, st) ==
  /\ st \in Nat \ {0}
  /\ x = [i \in 0..(n - 1) |-> T[i + 1] - IF i + 1 >= st THEN T[i + 1 - st] ELSE 0]

\* A turn doubles the windows.
LEMMA WindowsDouble ==
  ASSUME NEW n \in Nat \ {0}, NEW T \in [0..n -> Int], T[0] = 0, NEW x, NEW st, Windows(x, T, n, st)
  PROVE  Windows(Doubled(x, st), T, n, 2 * st)
<1>1. st \in Nat \ {0} /\ 2 * st \in Nat \ {0} /\ DOMAIN x = 0..(n - 1)
  BY DEF Windows
<1>2. ASSUME NEW i \in 0..(n - 1)
      PROVE  x[i] + (IF i >= st THEN x[i - st] ELSE 0)
               = T[i + 1] - IF i + 1 >= 2 * st THEN T[i + 1 - 2 * st] ELSE 0
  <2>1. x[i] = T[i + 1] - IF i + 1 >= st THEN T[i + 1 - st] ELSE 0
    BY DEF Windows
  <2>2. T[i + 1] \in Int /\ (i + 1 >= st => T[i + 1 - st] \in Int)
    BY <1>1
  <2>3. CASE i >= st
    <3>1. i - st \in 0..(n - 1)
      BY <1>1, <2>3
    <3>2. x[i - st] = T[(i - st) + 1] - IF (i - st) + 1 >= st THEN T[(i - st) + 1 - st] ELSE 0
      BY <3>1 DEF Windows
    <3>3. (i - st) + 1 = i + 1 - st /\ (i - st) + 1 - st = i + 1 - 2 * st
      BY <1>1
    <3>4. i + 1 >= 2 * st => T[i + 1 - 2 * st] \in Int
      <4>1. i + 1 >= 2 * st => i + 1 - 2 * st \in 0..n
        BY <1>1
      <4> QED BY <4>1
    <3>5. ((i - st) + 1 >= st) <=> (i + 1 >= 2 * st)
      BY <1>1
    <3>6. x[i - st] = T[i + 1 - st] - IF i + 1 >= 2 * st THEN T[i + 1 - 2 * st] ELSE 0
      BY <3>2, <3>3, <3>5
    <3>7. i + 1 >= st
      BY <1>1, <2>3
    <3>8. x[i] = T[i + 1] - T[i + 1 - st]
      BY <2>1, <3>7
    <3> HIDE DEF Windows
    <3>9. CASE i + 1 >= 2 * st
      <4>1. x[i - st] = T[i + 1 - st] - T[i + 1 - 2 * st]
        BY <3>6, <3>9
      <4> QED BY <2>2, <2>3, <3>4, <3>7, <3>8, <3>9, <4>1
    <3>10. CASE ~(i + 1 >= 2 * st)
      <4>1. x[i - st] = T[i + 1 - st]
        BY <2>2, <3>6, <3>7, <3>10
      <4> QED BY <2>2, <2>3, <3>7, <3>8, <3>10, <4>1
    <3> QED BY <3>9, <3>10
  <2>4. CASE ~(i >= st)
    <3>1. ~(i + 1 >= 2 * st) \/ (i + 1 = st /\ st = 1)
      BY <1>1, <2>4
    <3>2. i + 1 >= st => i + 1 - st = 0
      BY <1>1, <2>4
    <3>3. x[i] = T[i + 1]
      BY <2>1, <2>2, <3>2
    <3>4. ~(i + 1 >= 2 * st)
      BY <1>1, <2>4
    <3> QED BY <2>2, <2>4, <3>3, <3>4
  <2> QED BY <2>3, <2>4
<1>3. Doubled(x, st) = [i \in 0..(n - 1) |-> x[i] + IF i >= st THEN x[i - st] ELSE 0]
  BY <1>1 DEF Doubled
<1> QED BY <1>1, <1>2, <1>3 DEF Windows

\* Each value ends as the sum of the counts up to its own.
LEMMA SumsOfScan ==
  ASSUME NEW n \in Nat \ {0}, NEW counts, DOMAIN counts = 0..(n - 1), counts = [i \in DOMAIN counts |-> counts[i]],
         NEW T, Sums(T, counts, n)
  PROVE  Doublings(counts, n)[n][1] = [i \in 0..(n - 1) |-> T[i + 1]]
<1> DEFINE turn == Doublings(counts, n)
<1>1. turn[0] = <<counts, 1>> /\ \A k \in 1..n : turn[k] = Turned(turn[k - 1], n)
  BY ScanTurns
<1> HIDE DEF turn
<1>2. T \in [0..n -> Int] /\ T[0] = 0
  BY DEF Sums
<1> DEFINE Good(k) == Windows(turn[k][1], T, n, turn[k][2]) /\ (turn[k][2] > k \/ turn[k][2] >= n)
           S == {k \in Nat : k <= n => Good(k)}
<1>3. 0 \in S
  <2>1. ASSUME NEW i \in 0..(n - 1)
        PROVE  counts[i] = T[i + 1] - IF i + 1 >= 1 THEN T[i + 1 - 1] ELSE 0
    <3>1. counts[i] \in Nat /\ T[i + 1] = T[i] + counts[i] /\ T[i] \in Int
      BY <1>2 DEF Sums
    <3>2. i + 1 >= 1 /\ i + 1 - 1 = i
      OBVIOUS
    <3> QED BY <3>1, <3>2
  <2>2. Windows(counts, T, n, 1)
    BY <2>1 DEF Windows
  <2>3. turn[0][1] = counts /\ turn[0][2] = 1
    BY <1>1
  <2> QED BY <2>2, <2>3
<1>4. ASSUME NEW k \in Nat, k \in S PROVE k + 1 \in S
  <2> SUFFICES ASSUME k + 1 <= n PROVE Good(k + 1)
    OBVIOUS
  <2>1. Good(k)
    BY <1>4
  <2>2. turn[k + 1] = Turned(turn[k], n)
    <3>1. k + 1 \in 1..n /\ (k + 1) - 1 = k
      OBVIOUS
    <3> QED BY <1>1, <3>1
  <2>3. turn[k][2] \in Nat \ {0}
    BY <2>1 DEF Windows
  <2>4. CASE turn[k][2] < n
    <3>1. turn[k + 1][1] = Doubled(turn[k][1], turn[k][2]) /\ turn[k + 1][2] = 2 * turn[k][2]
      BY <2>2, <2>4 DEF Turned
    <3>2. Windows(turn[k + 1][1], T, n, turn[k + 1][2])
      BY <1>2, <2>1, <3>1, WindowsDouble
    <3>3. turn[k + 1][2] > k + 1
      BY <2>1, <2>3, <2>4, <3>1
    <3> QED BY <3>2, <3>3
  <2>5. CASE ~(turn[k][2] < n)
    <3>1. turn[k + 1] = turn[k]
      BY <2>2, <2>5 DEF Turned
    <3>2. turn[k + 1][2] >= n
      BY <2>3, <2>5, <3>1
    <3> QED BY <2>1, <3>1, <3>2
  <2> QED BY <2>4, <2>5
<1>5. Good(n)
  <2>1. n \in S
    <3> HIDE DEF S
    <3> QED BY <1>3, <1>4, EveryNatural
  <2> QED BY <2>1
<1> DEFINE st == turn[n][2]
<1>6. Windows(turn[n][1], T, n, st) /\ st >= n
  BY <1>1, <1>5 DEF Windows
<1> HIDE DEF st
<1>7. ASSUME NEW i \in 0..(n - 1)
      PROVE  T[i + 1] - (IF i + 1 >= st THEN T[i + 1 - st] ELSE 0) = T[i + 1]
  <2>1. st \in Nat \ {0}
    BY <1>6 DEF Windows
  <2>2. i + 1 >= st => i + 1 - st = 0
    BY <1>6, <2>1
  <2>3. T[i + 1] \in Int
    BY <1>2
  <2> QED BY <1>2, <2>2, <2>3
<1> QED BY <1>6, <1>7 DEF Windows, turn
=============================================================================
