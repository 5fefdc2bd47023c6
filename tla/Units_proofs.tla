---------------------------- MODULE Units_proofs ----------------------------
(***************************************************************************)
(* What the units of a kernel do, alone and together.                       *)
(*                                                                         *)
(* First a unit by itself, of the attention kernels, which finds the keys   *)
(* its row sees (RowBoundsSearch): for every call, however many queries,    *)
(* keys and sequences it has.                                               *)
(*                                                                         *)
(* Then the units of a cube (CubeMemory): they read what the kernel's text  *)
(* says, for a cube of any number of units in rows of any length.  That its *)
(* barriers keep two accesses apart is a fact of a program alone; it is     *)
(* shown piece by piece, of what a piece does to the buffers read and put   *)
(* since the last barrier.                                                  *)
(***************************************************************************)
EXTENDS RowBoundsSearch, CubeMemory, AttentionMask_proofs, SequenceTheorems

\* What every step keeps of the call and of the two ends of the search.
Searching ==
  /\ mask \in Masks
  /\ row < mask.tq + Overhang
  /\ lo <= hi
  /\ ~Searches => lo = 0

\* The two steps that end the search keep an interval that is not empty within
\* the keys: the two cuts, to 0 and to tk, are the last thing done to it.
LEMMA CutInSequence ==
  ASSUME NEW m, IsCall(m), NEW r \in Nat, NEW s \in Int
  PROVE  /\ BoundsInSequence(m, r, s) \in Int \X Int
         /\ \/ BoundsInSequence(m, r, s) = NoKeys(m)
            \/ /\ 0 <= BoundsInSequence(m, r, s)[1]
               /\ BoundsInSequence(m, r, s)[1] < BoundsInSequence(m, r, s)[2]
               /\ BoundsInSequence(m, r, s)[2] <= m.tk
<1> DEFINE qLen == m.cuq[s + 1] - m.cuq[s]
           kLen == m.cuk[s + 1] - m.cuk[s]
           pos == r - m.cuq[s] + kLen - qLen
           first == Greatest(m.cuk[s] + Greatest(0, pos - Left(m)), 0)
           end == Least(m.cuk[s] + Least(kLen, pos + Right(m) + 1), m.tk)
<1>0. /\ m.tq \in Nat /\ m.tk \in Nat /\ m.seqs \in Nat
      /\ m.cuq \in [0 .. m.seqs -> Int] /\ m.cuk \in [0 .. m.seqs -> Int]
  BY DEF IsCall
<1>1. NoKeys(m) \in Int \X Int
  BY <1>0 DEF NoKeys
<1>2. CASE s \notin 0 .. m.seqs - 1
  BY <1>1, <1>2 DEF BoundsInSequence
<1>3. CASE s \in 0 .. m.seqs - 1
  <2>1. /\ m.cuq[s] \in Int /\ m.cuq[s + 1] \in Int
        /\ m.cuk[s] \in Int /\ m.cuk[s + 1] \in Int
    <3>1. s \in 0 .. m.seqs /\ s + 1 \in 0 .. m.seqs
      BY <1>3, <1>0
    <3> QED BY <1>0, <3>1
  <2>2. Left(m) \in Int /\ Right(m) \in Int
    BY DEF Left, Right, Least, Unbounded, IsCall
  <2>3. first \in Int /\ 0 <= first
    BY <2>1, <2>2 DEF Greatest
  <2>4. end \in Int /\ end <= m.tk
    <3>1. Least(kLen, pos + Right(m) + 1) \in Int
      BY <2>1, <2>2 DEF Least
    <3> HIDE DEF pos, kLen, qLen
    <3> QED BY <1>0, <2>1, <3>1 DEF Least
  <2>5. BoundsInSequence(m, r, s) = IF end <= first THEN NoKeys(m) ELSE <<first, end>>
    BY <1>3 DEF BoundsInSequence
  <2> HIDE DEF first, end
  <2>6. CASE end <= first
    BY <1>1, <2>5, <2>6
  <2>7. CASE ~ (end <= first)
    BY <2>3, <2>4, <2>5, <2>7
  <2> QED BY <2>6, <2>7
<1> QED BY <1>2, <1>3

\* The same of a call that is not packed.
LEMMA CutAligned ==
  ASSUME NEW m, IsCall(m), NEW r \in Nat
  PROVE  /\ AlignedBounds(m, r) \in Int \X Int
         /\ \/ AlignedBounds(m, r) = NoKeys(m)
            \/ /\ 0 <= AlignedBounds(m, r)[1]
               /\ AlignedBounds(m, r)[1] < AlignedBounds(m, r)[2]
               /\ AlignedBounds(m, r)[2] <= m.tk
<1> DEFINE pos == r + m.tk - m.tq
           first == Greatest(0, pos - Left(m))
           end == Least(m.tk, pos + Right(m) + 1)
<1>1. m.tq \in Nat /\ m.tk \in Nat
  BY DEF IsCall
<1>2. Left(m) \in Int /\ Right(m) \in Int
  BY DEF Left, Right, Least, Unbounded, IsCall
<1>3. first \in Int /\ 0 <= first /\ end \in Int /\ end <= m.tk
  BY <1>1, <1>2 DEF Greatest, Least
<1>4. AlignedBounds(m, r) = IF r >= m.tq \/ end <= first THEN NoKeys(m) ELSE <<first, end>>
  BY DEF AlignedBounds
<1> HIDE DEF first, end
<1>5. CASE r >= m.tq \/ end <= first
  BY <1>1, <1>4, <1>5 DEF NoKeys
<1>6. CASE ~ (r >= m.tq \/ end <= first)
  BY <1>1, <1>3, <1>4, <1>6
<1> QED BY <1>5, <1>6

-----------------------------------------------------------------------------

\* A search starts with every offset between its two ends.
LEMMA InitSearching == Init => TypeOK /\ Searching
BY MasksAssumption, SizesAssumption DEF Init, TypeOK, Searching, IsCall

\* Each of the three steps keeps the types and the order of the two ends.
LEMMA NextSearching == TypeOK /\ Searching /\ [Next]_vars => TypeOK' /\ Searching'
<1> SUFFICES ASSUME TypeOK, Searching, [Next]_vars PROVE TypeOK' /\ Searching'
  OBVIOUS
<1> USE DEF TypeOK, Searching
<1>0. mask.seqs \in Nat
  BY DEF IsCall
<1>1. CASE Probe
  <2>1. Mid \in lo .. hi - 1
    BY <1>0, <1>1 DEF Probe, Mid
  <2> QED BY <1>0, <1>1, <2>1 DEF Probe, Searches
<1>2. CASE Found
  <2>1. lo - 1 \in Int
    BY <1>0
  <2>2. bounds' \in Int \X Int
    BY <1>2, <2>1, CutInSequence DEF Found
  <2> QED BY <1>2, <2>2 DEF Found, Searches
<1>3. CASE Unsearched
  <2>1. NoKeys(mask) \in Int \X Int
    BY DEF NoKeys, IsCall
  <2>2. bounds' \in Int \X Int
    BY <1>3, <2>1, CutAligned DEF Unsearched
  <2> QED BY <1>3, <2>2 DEF Unsearched
<1>4. CASE UNCHANGED vars
  BY <1>4 DEF vars, Searches
<1> QED BY <1>1, <1>2, <1>3, <1>4 DEF Next

\* Type correctness of the search (kernels.rs, row_bounds): it never leaves the
\* table of offsets, of any length.
THEOREM TypeCorrect == Spec => []TypeOK
<1>1. Init => TypeOK /\ Searching
  BY InitSearching
<1>2. TypeOK /\ Searching /\ [Next]_vars => TypeOK' /\ Searching'
  BY NextSearching
<1> QED BY <1>1, <1>2, PTL DEF Spec

\* The step that finds the interval cuts it to the keys; the others leave it alone.
LEMMA NextInRange ==
  TypeOK /\ Searching /\ InRange /\ [Next]_vars => InRange'
<1> SUFFICES ASSUME TypeOK, Searching, InRange, [Next]_vars PROVE InRange'
  OBVIOUS
<1> USE DEF TypeOK, Searching
<1>0. (TypeOK /\ Searching)'
  BY NextSearching
<1>a. (lo <= hi /\ hi <= mask.seqs + 1)'
  BY <1>0 DEF IsCall
<1>1. CASE Probe
  BY <1>a, <1>1 DEF Probe, InRange
<1>2. CASE Found
  <2>1. lo - 1 \in Int
    BY DEF IsCall
  <2> QED BY <1>a, <1>2, <2>1, CutInSequence DEF Found, InRange, NoKeys
<1>3. CASE Unsearched
  <2>1. row < mask.tq => ~Packed(mask)
    BY <1>3 DEF Unsearched, Searches
  <2> QED BY <1>a, <1>3, <2>1, CutAligned DEF Unsearched, InRange, NoKeys
<1>4. CASE UNCHANGED vars
  BY <1>4 DEF vars, InRange, NoKeys
<1> QED BY <1>1, <1>2, <1>3, <1>4 DEF Next

\* Whatever a caller's offsets hold, the kernel forms no index outside the keys:
\* "the kernel bounds every index it forms" (attention/cube.rs).
THEOREM AlwaysInRange == Spec => []InRange
<1>1. Init => TypeOK /\ Searching /\ InRange
  <2>1. Init => lo <= hi /\ hi <= mask.seqs + 1 /\ bounds = <<>>
    BY MasksAssumption DEF Init, IsCall
  <2> QED BY <2>1, InitSearching DEF InRange
<1>2. TypeOK /\ Searching /\ InRange /\ [Next]_vars => (TypeOK /\ Searching /\ InRange)'
  BY NextSearching, NextInRange
<1> QED BY <1>1, <1>2, PTL DEF Spec

-----------------------------------------------------------------------------
(* The search finds the row's sequence. *)

\* The halves the search has put aside, while the offsets keep the contract.
Halves ==
  IsMask(mask) /\ Searches =>
    /\ \A s \in 0 .. lo - 1 : mask.cuq[s] <= row
    /\ \A s \in hi .. mask.seqs : row < mask.cuq[s]
    /\ bounds # <<>> => lo = hi

\* A probe puts aside a half it has compared one offset of: the others follow
\* since offsets do not decrease.
LEMMA NextHalves == TypeOK /\ Searching /\ Halves /\ [Next]_vars => Halves'
<1> SUFFICES ASSUME TypeOK, Searching, Halves, [Next]_vars, IsMask(mask)', Searches'
             PROVE  /\ \A s \in 0 .. lo' - 1 : mask'.cuq[s] <= row'
                    /\ \A s \in hi' .. mask'.seqs : row' < mask'.cuq[s]
                    /\ bounds' # <<>> => lo' = hi'
  BY DEF Halves
<1>0. mask' = mask /\ row' = row
  BY DEF Next, Probe, Found, Unsearched, vars
<1>1. IsMask(mask) /\ Searches
  BY <1>0 DEF Searches
<1>2. /\ mask.seqs \in Nat /\ row \in Nat /\ lo \in Nat /\ hi \in 0 .. mask.seqs + 1 /\ lo <= hi
      /\ mask.cuq \in [0 .. mask.seqs -> Int]
  BY DEF TypeOK, Searching, IsCall
<1>3. /\ \A s \in 0 .. lo - 1 : mask.cuq[s] <= row
      /\ \A s \in hi .. mask.seqs : row < mask.cuq[s]
      /\ bounds # <<>> => lo = hi
  BY <1>1 DEF Halves
<1>4. CASE Probe
  <2>1. Mid \in lo .. hi - 1 /\ Mid \in 0 .. mask.seqs /\ mask.cuq[Mid] \in Int
    BY <1>2, <1>4 DEF Probe, Mid
  <2>2. \A s, t \in 0 .. mask.seqs : s <= t => mask.cuq[s] <= mask.cuq[t]
    BY <1>1 DEF IsMask, IsOffsets, Searches
  <2>3. bounds' = <<>>
    BY <1>4 DEF Probe
  <2>4. CASE mask.cuq[Mid] <= row
    <3>1. lo' = Mid + 1 /\ hi' = hi
      BY <1>4, <2>4 DEF Probe
    <3>2. \A s \in 0 .. Mid : mask.cuq[s] <= row
      BY <1>2, <2>1, <2>2, <2>4
    <3> QED BY <1>0, <1>3, <2>1, <2>3, <3>1, <3>2
  <2>5. CASE ~ (mask.cuq[Mid] <= row)
    <3>1. hi' = Mid /\ lo' = lo
      BY <1>4, <2>5 DEF Probe
    <3>2. \A s \in Mid .. mask.seqs : row < mask.cuq[s]
      <4> TAKE s \in Mid .. mask.seqs
      <4>1. s \in 0 .. mask.seqs /\ Mid <= s
        BY <1>2, <2>1
      <4>2. mask.cuq[s] \in Int /\ mask.cuq[Mid] <= mask.cuq[s]
        BY <1>2, <2>1, <2>2, <4>1
      <4> QED BY <1>2, <2>1, <2>5, <4>2
    <3> QED BY <1>0, <1>3, <2>3, <3>1, <3>2
  <2> QED BY <2>4, <2>5
<1>5. CASE Found
  BY <1>0, <1>2, <1>3, <1>5 DEF Found
<1>6. CASE Unsearched
  BY <1>1, <1>6 DEF Unsearched
<1>7. CASE UNCHANGED vars
  BY <1>3, <1>7 DEF vars
<1> QED BY <1>4, <1>5, <1>6, <1>7 DEF Next

\* Once the two ends have met, the number before them is the row's sequence.
LEMMA HalvesMeet ==
  ASSUME TypeOK, Searching, Halves, IsMask(mask), Searches, lo = hi
  PROVE  lo - 1 = SequenceOf(mask.cuq, mask.seqs, row)
<1>1. /\ mask.seqs \in Nat /\ row \in Nat /\ lo \in 0 .. mask.seqs + 1
      /\ mask.cuq \in [0 .. mask.seqs -> Int]
  BY DEF TypeOK, IsCall
<1>2. /\ \A s \in 0 .. lo - 1 : mask.cuq[s] <= row
      /\ \A s \in lo .. mask.seqs : row < mask.cuq[s]
  BY DEF Halves
<1>3. \A t \in 0 .. mask.seqs : mask.cuq[t] <= row <=> t <= lo - 1
  BY <1>1, <1>2
<1>4. lo - 1 \in -1 .. mask.seqs
  BY <1>1
<1> QED BY <1>1, <1>3, <1>4, SequenceIs

\* At first nothing is set aside on either side.
LEMMA InitHalves == Init => Halves
<1> SUFFICES ASSUME Init, IsMask(mask), Searches
             PROVE  /\ \A s \in 0 .. lo - 1 : mask.cuq[s] <= row
                    /\ \A s \in hi .. mask.seqs : row < mask.cuq[s]
                    /\ bounds # <<>> => lo = hi
  BY DEF Halves
<1>1. mask.seqs \in Nat /\ lo = 0 /\ hi = mask.seqs + 1 /\ bounds = <<>>
  BY MasksAssumption DEF Init, IsCall
<1> QED BY <1>1

\* The binary search (sequence_of) is right for a table of offsets of any length.
THEOREM SearchFinds == Spec => []SearchSplits
<1> DEFINE Inv == TypeOK /\ Searching /\ Halves
<1>1. Init => Inv
  BY InitSearching, InitHalves
<1>2. Inv /\ [Next]_vars => Inv'
  BY NextSearching, NextHalves
<1>3. Inv => SearchSplits
  BY HalvesMeet DEF SearchSplits, Halves
<1> QED BY <1>1, <1>2, <1>3, PTL DEF Spec

-----------------------------------------------------------------------------
(* The interval it ends with. *)

\* What the three steps leave in bounds: row_bounds of the row.
BoundsOfRow == IsMask(mask) /\ bounds # <<>> => bounds = RowBounds(mask, row)

\* The interval found is the one the mask arithmetic defines for the row.
LEMMA NextBoundsOfRow ==
  TypeOK /\ Searching /\ Halves /\ BoundsOfRow /\ [Next]_vars => BoundsOfRow'
<1> SUFFICES ASSUME TypeOK, Searching, Halves, BoundsOfRow, [Next]_vars PROVE BoundsOfRow'
  OBVIOUS
<1>1. CASE Probe
  BY <1>1 DEF Probe, BoundsOfRow
<1>2. CASE Found
  <2>1. ASSUME IsMask(mask) PROVE bounds' = RowBounds(mask, row)
    <3>1. Searches /\ lo = hi
      BY <1>2 DEF Found, Searching, TypeOK, IsCall
    <3>2. lo - 1 = SequenceOf(mask.cuq, mask.seqs, row)
      BY <2>1, <3>1, HalvesMeet
    <3>3. ~ (row >= mask.tq)
      BY <3>1 DEF Searches, TypeOK, IsCall
    <3> QED BY <1>2, <3>1, <3>2, <3>3 DEF Found, RowBounds, Searches
  <2> QED BY <1>2, <2>1 DEF Found, BoundsOfRow
<1>3. CASE Unsearched
  <2>1. Packed(mask) => row >= mask.tq
    BY <1>3 DEF Unsearched, Searches, TypeOK, IsCall
  <2> QED BY <1>3, <2>1 DEF Unsearched, BoundsOfRow, RowBounds
<1>4. CASE UNCHANGED vars
  BY <1>4 DEF vars, BoundsOfRow
<1> QED BY <1>1, <1>2, <1>3, <1>4 DEF Next

\* The inductive invariant: the search halves the offsets correctly, and once it is
\* over the interval is the row's.
LEMMA InvariantBounds == Spec => [](TypeOK /\ Searching /\ Halves /\ BoundsOfRow)
<1>1. Init => TypeOK /\ Searching /\ Halves /\ BoundsOfRow
  BY InitSearching, InitHalves DEF Init, BoundsOfRow
<1>2. TypeOK /\ Searching /\ Halves /\ BoundsOfRow /\ [Next]_vars
        => (TypeOK /\ Searching /\ Halves /\ BoundsOfRow)'
  BY NextSearching, NextHalves, NextBoundsOfRow
<1> QED BY <1>1, <1>2, PTL DEF Spec

\* The intervals the kernels attend over are the reference's mask: for every
\* call that keeps the contract, and every row.
THEOREM BoundsImplementReference == Spec => []BoundsAreReference
<1>1. TypeOK /\ BoundsOfRow => BoundsAreReference
  <2> SUFFICES ASSUME TypeOK, BoundsOfRow, IsMask(mask), bounds # <<>>
               PROVE  (bounds[1] .. bounds[2] - 1) \ mask.pad
                        = IF row < mask.tq THEN Sees(mask, row) ELSE {}
    BY DEF BoundsAreReference
  <2>1. bounds = RowBounds(mask, row) /\ row \in Nat /\ bounds \in Int \X Int
    BY DEF BoundsOfRow, TypeOK
  <2>2. bounds[1] .. bounds[2] - 1 = {j \in Int : InBounds(mask, row, j)}
    BY <2>1 DEF InBounds
  <2> QED BY <2>1, <2>2, RowBoundsIsReference
<1> QED BY <1>1, InvariantBounds, PTL

\* No number row_bounds forms leaves its integers, at the sizes the kernels take
\* (attention/cube.rs, tq + tk < 1 << 29).
THEOREM AlwaysFits == Spec => []FitsWidth
<1>1. TypeOK /\ Searching /\ Halves => FitsWidth
  <2> SUFFICES ASSUME TypeOK, Searching, Halves, IsMask(mask) PROVE FitsWidth
    BY DEF FitsWidth
  <2> DEFINE at == row + mask.tk - mask.tq
             s == lo - 1
             start == mask.cuk[s]
             pos == row - mask.cuq[s] + (mask.cuk[s + 1] - start) - (mask.cuq[s + 1] - mask.cuq[s])
  <2>1. /\ mask.tq \in Nat /\ mask.tk \in Nat /\ mask.seqs \in Nat
        /\ Left(mask) \in 0 .. mask.tq + mask.tk + 1
        /\ Right(mask) \in 0 .. mask.tq + mask.tk + 1
    BY CallNumbers DEF TypeOK
  <2>2. /\ row \in Nat /\ row < mask.tq + Overhang
        /\ Overhang \in Nat /\ HalfRange \in Nat
        /\ 4 * Overhang < HalfRange /\ 4 * (mask.tq + mask.tk) < HalfRange
    BY SizesAssumption, TakenAssumption DEF TypeOK, Searching
  <2>3. Fits(at - Left(mask)) /\ Fits(at + Right(mask) + 1)
    BY <2>1, <2>2 DEF Fits
  <2>4. ASSUME Packed(mask), s \in 0 .. mask.seqs - 1
        PROVE  /\ Fits(pos - Left(mask)) /\ Fits(pos + Right(mask) + 1)
               /\ Fits(start + Greatest(0, pos - Left(mask)))
               /\ Fits(start + Least(mask.cuk[s + 1] - start, pos + Right(mask) + 1))
    <3>1. /\ mask.cuq[s] \in 0 .. mask.tq /\ mask.cuq[s + 1] \in 0 .. mask.tq
          /\ start \in 0 .. mask.tk /\ mask.cuk[s + 1] \in 0 .. mask.tk
          /\ mask.cuq[s] <= mask.cuq[s + 1] /\ start <= mask.cuk[s + 1]
      BY <2>4, SequenceNumbers
    <3>2. pos \in Int /\ - mask.tq - mask.tk <= pos /\ pos <= row + mask.tk
      BY <2>1, <2>2, <3>1
    <3>3. Searches
      BY <2>1, <2>2, <2>4 DEF Searching
    <3> HIDE DEF pos, start, s
    <3>4. row < mask.tq
      BY <3>3 DEF Searches
    <3> QED BY <2>1, <2>2, <3>1, <3>2, <3>4 DEF Fits, Greatest, Least
  <2> QED BY <2>3, <2>4 DEF FitsWidth
<1> QED BY <1>1, InvariantBounds, PTL

-----------------------------------------------------------------------------
(* What the kernels' skipping and sharing of work rests on. *)

\* Intervals never move back from a query to a later one, for every call.
THEOREM IntervalsOnward == Spec => []NeverMovesBack
<1>1. TypeOK /\ BoundsOfRow => NeverMovesBack
  <2> SUFFICES ASSUME TypeOK, BoundsOfRow, IsMask(mask), bounds # <<>>, bounds # NoKeys(mask),
                      NEW r \in 0 .. row - 1, RowBounds(mask, r) # NoKeys(mask)
               PROVE  RowBounds(mask, r)[1] <= bounds[1] /\ RowBounds(mask, r)[2] <= bounds[2]
    BY DEF NeverMovesBack
  <2>1. bounds = RowBounds(mask, row)
    BY DEF BoundsOfRow
  <2>2. row \in Nat /\ r \in Nat /\ r <= row
    BY DEF TypeOK
  <2> QED BY <2>1, <2>2, RowsOnward
<1> QED BY <1>1, InvariantBounds, PTL

\* The queries a cube of the backward sweeps for its keys are all that see one.
THEOREM RangesHoldRows == Spec => []RangeHoldsRow
<1>1. TypeOK /\ BoundsOfRow => RangeHoldsRow
  <2> SUFFICES ASSUME TypeOK, BoundsOfRow, IsMask(mask), bounds # <<>>, row < mask.tq,
                      NEW k0 \in KeyBlocks,
                      bounds[1] < Least(k0 + Block, mask.tk), k0 < bounds[2]
               PROVE  /\ QueryRange(mask, k0, Least(k0 + Block, mask.tk))[1] <= row
                      /\ row < QueryRange(mask, k0, Least(k0 + Block, mask.tk))[2]
    BY DEF RangeHoldsRow
  <2>1. bounds = RowBounds(mask, row) /\ row \in Nat /\ mask.tk \in Nat
    BY DEF BoundsOfRow, TypeOK, IsCall
  <2>2. k0 \in Nat /\ k0 < mask.tk
    BY <2>1 DEF KeyBlocks
  <2> DEFINE k1 == Least(k0 + Block, mask.tk)
  <2>3. k1 \in Nat /\ k0 < k1 /\ k1 <= mask.tk
    BY <2>1, <2>2, SizesAssumption DEF Least
  <2>4. RowBounds(mask, row) # NoKeys(mask)
    BY <2>1, <2>2 DEF NoKeys
  <2> HIDE DEF k1
  <2>5. QueryRange(mask, k0, k1)[1] <= row /\ row < QueryRange(mask, k0, k1)[2]
    BY <2>1, <2>2, <2>3, <2>4, RangeIsWide DEF k1
  <2> QED BY <2>5 DEF k1
<1> QED BY <1>1, InvariantBounds, PTL

\* A step or a tile the kernels do not mask hides nothing, padding aside, from any
\* row in it.
THEOREM UnmaskedHidesNothing == Spec => []UnmaskedSeesAll
<1>1. TypeOK /\ BoundsOfRow => UnmaskedSeesAll
  <2> DEFINE q == row - (row % Block)
             b == [r \in q .. q + Block - 1 |-> RowBounds(mask, r)]
  <2> SUFFICES ASSUME TypeOK, BoundsOfRow, IsMask(mask), bounds # <<>>, row < mask.tq,
                      NEW k0 \in KeyBlocks,
                      \/ ~StepMasked(mask, q, k0, Block, b[q], b[q + Block - 1])
                      \/ ~TileMasked(mask, q, Block, k0, Block, b)
               PROVE  bounds[1] <= k0 /\ k0 + Block <= bounds[2]
    BY DEF UnmaskedSeesAll
  <2>1. bounds = RowBounds(mask, row) /\ row \in Nat /\ mask.tk \in Nat
    BY DEF BoundsOfRow, TypeOK, IsCall
  <2>2. k0 \in Nat /\ k0 < mask.tk
    BY <2>1 DEF KeyBlocks
  <2>3. q \in Nat /\ q <= row /\ row <= q + Block - 1 /\ Block \in Nat \ {0}
    BY <2>1, SizesAssumption
  <2> HIDE DEF q
  <2>4. /\ \A x \in q .. q + Block - 1 : b[x] = RowBounds(mask, x)
        /\ q \in q .. q + Block - 1 /\ q + Block - 1 \in q .. q + Block - 1
    BY <2>3
  <2> HIDE DEF b
  <2>5. CASE ~StepMasked(mask, q, k0, Block, b[q], b[q + Block - 1])
    <3>1. ~StepMasked(mask, q, k0, Block, RowBounds(mask, q), RowBounds(mask, q + Block - 1))
      BY <2>4, <2>5
    <3> QED BY <2>1, <2>2, <2>3, <3>1, UnmaskedStep
  <2>6. CASE ~TileMasked(mask, q, Block, k0, Block, b)
    BY <2>1, <2>2, <2>3, <2>4, <2>6, UnmaskedTile
  <2> QED BY <2>5, <2>6
<1> QED BY <1>1, InvariantBounds, PTL

-----------------------------------------------------------------------------
(* The units of a cube.                                                    *)

-----------------------------------------------------------------------------
(* Programs.                                                               *)

Accesses(names) ==
  [do : {"put", "get", "column"}, bufs : SUBSET names, by : {CubeUnits, RowUnits, Lead}]
  \cup {[do |-> "sync"]}
IsPiece(p) == \E names : p \in Seq(Accesses(names))

Reads(x) == x.do \in {"get", "column"}
Puts(x)  == x.do = "put"
Syncs(x) == x.do = "sync"

\* Accesses of two units that may touch one share: units of the first row read
\* each a column of its own, in which no other of them has a share.
ByColumn(x, y) == x.do = "column" /\ x.by = RowUnits /\ y.by = RowUnits
Meets(x, y) == Reads(x) /\ Puts(y) /\ x.bufs \cap y.bufs # {} /\ ~ByColumn(x, y)

Before(p, i) == \E k \in 1 .. (i - 1) : Syncs(p[k])
After(p, i) == \E k \in (i + 1) .. Len(p) : Syncs(p[k])
Between(p, i, j) == \E k \in 1 .. Len(p) : Syncs(p[k]) /\ ((i < k /\ k < j) \/ (j < k /\ k < i))
IsPut(p, i, buf) == \E j \in 1 .. (i - 1) : Puts(p[j]) /\ buf \in p[j].bufs

\* A barrier stands between a read of a buffer and a put of it, and what is
\* read was put.
Apart(p) == \A i, j \in 1 .. Len(p) : Meets(p[i], p[j]) => Between(p, i, j)
Filled(p) == \A i \in 1 .. Len(p) : Reads(p[i]) => \A buf \in p[i].bufs : IsPut(p, i, buf)
Synced(p) == IsPiece(p) /\ Apart(p) /\ Filled(p)

-----------------------------------------------------------------------------
(* The units at their own paces.                                           *)

CubeTypeOK ==
  /\ kernel \in Programs
  /\ pc \in [CubeUnits -> 1 .. (Len(Program) + 1)]
  /\ slots \in [Buffers(Program) -> [CubeUnits -> Nat]]

\* No barrier lies between two units.
Together == \A u, v \in CubeUnits : \A k \in 1 .. Len(Program) : pc[u] <= k /\ k < pc[v] => ~Syncs(Program[k])

\* The puts of a share before a place in a program, and the last of them.
Placed(p, i, buf, v) == {j \in 1 .. (i - 1) : Puts(p[j]) /\ buf \in p[j].bufs /\ v \in p[j].by}
LastPut(p, i, buf, v) ==
  IF Placed(p, i, buf, v) = {} THEN 0 ELSE CHOOSE j \in Placed(p, i, buf, v) : \A k \in Placed(p, i, buf, v) : k <= j

\* A share is as the unit it is of left it.
OwnIsLatest == \A buf \in DOMAIN slots : \A v \in CubeUnits : slots[buf][v] = LastPut(Program, pc[v], buf, v)

IInv == CubeTypeOK /\ Together /\ OwnIsLatest

(* A set of naturals below a bound has a greatest.                         *)
LEMMA GreatestOf ==
  ASSUME NEW n \in Nat, NEW S, S \subseteq 1 .. n, S # {}
  PROVE  \E j \in S : \A k \in S : k <= j
<1> DEFINE Below == OpToRel(<, Nat)
<1>1. IsWellFoundedOn(Below, Nat)
  BY NatLessThanWellFounded
<1>2. \A x, y \in Nat : x < y => <<x, y>> \in Below
  BY DEF OpToRel
<1> HIDE DEF Below
<1> DEFINE T == {n - j : j \in S}
<1>3. T \subseteq Nat /\ T # {}
  <2>1. \A j \in S : n - j \in Nat
    OBVIOUS
  <2> QED BY <2>1
<1>4. PICK x \in T : \A y \in T : ~ (<<y, x>> \in Below)
  <2> HIDE DEF T
  <2> QED BY <1>1, <1>3, WFMin
<1>5. PICK j \in S : x = n - j
  BY <1>4
<1>6. \A y \in T : x <= y
  <2>1. ASSUME NEW y \in T, y < x PROVE FALSE
    <3>1. <<y, x>> \in Below
      <4> HIDE DEF T
      <4> QED BY <1>2, <1>3, <1>4, <2>1
    <3> HIDE DEF T
    <3> QED BY <1>4, <2>1, <3>1
  <2> HIDE DEF T
  <2> QED BY <1>3, <1>4, <2>1
<1>7. ASSUME NEW k \in S PROVE k <= j
  <2>1. n - k \in T
    OBVIOUS
  <2>2. n - j <= n - k
    <3> HIDE DEF T
    <3> QED BY <1>5, <1>6, <2>1
  <2> QED BY <2>2
<1> QED BY <1>7

(* The latest of the puts of a share before a place is one of them, if      *)
(* there is any, and none is later.                                        *)
LEMMA LatestOf ==
  ASSUME NEW p, NEW i \in Nat, NEW buf, NEW v
  PROVE  /\ Placed(p, i, buf, v) = {} => LastPut(p, i, buf, v) = 0
         /\ Placed(p, i, buf, v) # {} => /\ LastPut(p, i, buf, v) \in Placed(p, i, buf, v)
                                      /\ \A k \in Placed(p, i, buf, v) : k <= LastPut(p, i, buf, v)
<1> DEFINE S == Placed(p, i, buf, v)
<1>1. LastPut(p, i, buf, v) = IF S = {} THEN 0 ELSE CHOOSE j \in S : \A k \in S : k <= j
  BY DEF LastPut
<1>2. ASSUME S # {} PROVE \E j \in S : \A k \in S : k <= j
  <2>1. CASE i = 0
    BY <1>2, <2>1 DEF Placed
  <2>2. CASE i # 0
    <3>1. i - 1 \in Nat /\ S \subseteq 1 .. (i - 1)
      BY <2>2 DEF Placed
    <3> HIDE DEF S
    <3> QED BY <1>2, <3>1, GreatestOf
  <2> QED BY <2>1, <2>2
<1> HIDE DEF S
<1>3. S = {} => LastPut(p, i, buf, v) = 0
  BY <1>1
<1>4. ASSUME S # {} PROVE LastPut(p, i, buf, v) \in S /\ \A k \in S : k <= LastPut(p, i, buf, v)
  BY <1>1, <1>2, <1>4
<1> QED BY <1>3, <1>4 DEF S

(* Places with the same puts of a share before them have the same latest.  *)
LEMMA SameLatest ==
  ASSUME NEW p, NEW i \in Nat, NEW j \in Nat, NEW buf, NEW v, Placed(p, i, buf, v) = Placed(p, j, buf, v)
  PROVE  LastPut(p, i, buf, v) = LastPut(p, j, buf, v)
<1>1. \A k \in Placed(p, i, buf, v) : k \in Nat
  BY DEF Placed
<1> QED BY <1>1, LatestOf

(* Past an access, the latest put of a share is the access, if it is one of *)
(* the share, and else what it was.                                        *)
LEMMA NextLatest ==
  ASSUME NEW p, NEW i \in Nat \ {0}, NEW buf, NEW v
  PROVE  LastPut(p, i + 1, buf, v) =
           IF Puts(p[i]) /\ buf \in p[i].bufs /\ v \in p[i].by
             THEN i ELSE LastPut(p, i, buf, v)
<1>1. CASE Puts(p[i]) /\ buf \in p[i].bufs /\ v \in p[i].by
  <2>1. i \in Placed(p, i + 1, buf, v) /\ \A k \in Placed(p, i + 1, buf, v) : k <= i /\ k \in Nat
    BY <1>1 DEF Placed
  <2>2. /\ LastPut(p, i + 1, buf, v) \in Placed(p, i + 1, buf, v)
        /\ \A k \in Placed(p, i + 1, buf, v) : k <= LastPut(p, i + 1, buf, v)
    <3>1. i + 1 \in Nat /\ Placed(p, i + 1, buf, v) # {}
      BY <2>1
    <3> QED BY <3>1, LatestOf
  <2>3. LastPut(p, i + 1, buf, v) = i
    BY <2>1, <2>2
  <2> QED BY <1>1, <2>3
<1>2. CASE ~(Puts(p[i]) /\ buf \in p[i].bufs /\ v \in p[i].by)
  <2>1. Placed(p, i + 1, buf, v) = Placed(p, i, buf, v)
    BY <1>2 DEF Placed
  <2>2. LastPut(p, i + 1, buf, v) = LastPut(p, i, buf, v)
    BY <2>1, SameLatest
  <2> QED BY <1>2, <2>2
<1> QED BY <1>1, <1>2

-----------------------------------------------------------------------------
(* The steps.                                                              *)

(* A place of a piece of a program is a put, a read or a barrier.           *)
LEMMA PlaceOf ==
  ASSUME NEW p, IsPiece(p), NEW i \in 1 .. Len(p)
  PROVE  /\ Puts(p[i]) => p[i].by \in {CubeUnits, RowUnits, Lead}
         /\ Syncs(p[i]) \/ Puts(p[i]) \/ Reads(p[i])
         /\ ~(Syncs(p[i]) /\ Puts(p[i])) /\ ~(Syncs(p[i]) /\ Reads(p[i])) /\ ~(Puts(p[i]) /\ Reads(p[i]))
<1>1. PICK names : p \in Seq(Accesses(names))
  BY DEF IsPiece
<1>2. p[i] \in Accesses(names)
  BY <1>1, ElementOfSeq
<1> QED BY <1>2 DEF Accesses, Syncs, Puts, Reads

(* A piece has a length.                                                   *)
LEMMA LengthOf ==
  ASSUME NEW p, IsPiece(p) PROVE Len(p) \in Nat /\ DOMAIN p = 1 .. Len(p)
<1>1. PICK names : p \in Seq(Accesses(names))
  BY DEF IsPiece
<1> QED BY <1>1, LenProperties

(* Nobody has started.                                                     *)
LEMMA InitHolds ==
  ASSUME CubeInit, Synced(kernel.program) PROVE IInv
<1>1. Len(Program) \in Nat
  BY LengthOf DEF Synced, Program
<1>2. CubeTypeOK
  BY <1>1 DEF CubeInit, CubeTypeOK, Program
<1>3. Together
  BY DEF CubeInit, Together
<1>4. OwnIsLatest
  <2>1. ASSUME NEW buf \in DOMAIN slots, NEW v \in CubeUnits PROVE slots[buf][v] = LastPut(Program, pc[v], buf, v)
    <3>1. slots[buf][v] = 0 /\ pc[v] = 1
      BY <2>1 DEF CubeInit
    <3>2. Placed(Program, 1, buf, v) = {}
      BY DEF Placed
    <3> QED BY <3>1, <3>2, LatestOf
  <2> QED BY <2>1 DEF OwnIsLatest
<1> QED BY <1>2, <1>3, <1>4 DEF IInv

(* A unit whose next is an access goes past it and leaves nobody behind a    *)
(* barrier.                                                                *)
LEMMA AdvanceKeeps ==
  ASSUME IInv, Synced(Program), NEW u \in CubeUnits, At(u), ~Syncs(Program[pc[u]]), Advance(u), UNCHANGED kernel
  PROVE  /\ pc' \in [CubeUnits -> 1 .. (Len(Program) + 1)] /\ Together'
         /\ pc'[u] = pc[u] + 1 /\ \A v \in CubeUnits \ {u} : pc'[v] = pc[v]
<1>1. Len(Program) \in Nat /\ pc \in [CubeUnits -> 1 .. (Len(Program) + 1)]
  BY LengthOf DEF IInv, CubeTypeOK, Synced
<1>2. pc'[u] = pc[u] + 1 /\ \A v \in CubeUnits \ {u} : pc'[v] = pc[v]
  BY <1>1 DEF Advance
<1>3. pc' \in [CubeUnits -> 1 .. (Len(Program) + 1)]
  BY <1>1, <1>2 DEF Advance, At
<1>4. Program' = Program
  BY DEF Program
<1>5. ASSUME NEW x \in CubeUnits, NEW y \in CubeUnits, NEW k \in 1 .. Len(Program), pc'[x] <= k, k < pc'[y]
      PROVE  ~Syncs(Program[k])
  <2>1. pc[x] <= k
    BY <1>1, <1>2, <1>5
  <2>2. CASE k < pc[y]
    BY <1>5, <2>1, <2>2 DEF IInv, Together
  <2>3. CASE ~(k < pc[y])
    <3>1. y = u /\ k = pc[u]
      BY <1>1, <1>2, <1>5, <2>3
    <3> QED BY <3>1
  <2> QED BY <2>2, <2>3
<1>6. Together'
  BY <1>4, <1>5 DEF Together
<1> QED BY <1>2, <1>3, <1>6

LEMMA PutKeeps ==
  ASSUME IInv, Synced(Program), NEW u \in CubeUnits, PutShare(u)
  PROVE  IInv'
<1> DEFINE s == Program[pc[u]]
<1>1. At(u) /\ Puts(s) /\ Advance(u) /\ UNCHANGED kernel
  BY DEF PutShare, Does, Puts
<1>2. Len(Program) \in Nat /\ pc[u] \in 1 .. Len(Program)
  BY <1>1, LengthOf DEF IInv, CubeTypeOK, Synced, At
<1>3. ~Syncs(s)
  BY <1>1, <1>2, PlaceOf DEF Synced
<1>4. /\ pc' \in [CubeUnits -> 1 .. (Len(Program) + 1)] /\ Together'
      /\ pc'[u] = pc[u] + 1 /\ \A v \in CubeUnits \ {u} : pc'[v] = pc[v]
  BY <1>1, <1>3, AdvanceKeeps
<1>5. Program' = Program /\ kernel' = kernel
  BY <1>1 DEF Program
<1>6. slots' = [buf \in DOMAIN slots |->
                  IF buf \in s.bufs /\ u \in s.by THEN [slots[buf] EXCEPT ![u] = pc[u]] ELSE slots[buf]]
  BY DEF PutShare
<1>7. DOMAIN slots = Buffers(Program) /\ \A buf \in DOMAIN slots : slots[buf] \in [CubeUnits -> Nat]
  BY DEF IInv, CubeTypeOK
<1>8. \A buf \in DOMAIN slots : \A v \in CubeUnits :
        slots'[buf][v] = IF buf \in s.bufs /\ u \in s.by /\ v = u THEN pc[u] ELSE slots[buf][v]
  <2> HIDE DEF s
  <2> QED BY <1>6, <1>7
<1>9. slots' \in [Buffers(Program) -> [CubeUnits -> Nat]]
  <2> HIDE DEF s
  <2>1. ASSUME NEW buf \in DOMAIN slots
        PROVE  (IF buf \in s.bufs /\ u \in s.by THEN [slots[buf] EXCEPT ![u] = pc[u]] ELSE slots[buf]) \in [CubeUnits -> Nat]
    BY <1>2, <1>7, <2>1
  <2> QED BY <1>6, <1>7, <2>1
<1>10. CubeTypeOK'
  BY <1>4, <1>5, <1>9 DEF IInv, CubeTypeOK, Program
<1>11. ASSUME NEW buf \in DOMAIN slots, NEW v \in CubeUnits PROVE slots'[buf][v] = LastPut(Program, pc'[v], buf, v)
  <2>1. slots[buf][v] = LastPut(Program, pc[v], buf, v)
    BY <1>11 DEF IInv, OwnIsLatest
  <2>2. CASE v = u
    <3>1. LastPut(Program, pc[u] + 1, buf, u) = IF buf \in s.bufs /\ u \in s.by THEN pc[u] ELSE LastPut(Program, pc[u], buf, u)
      <4>1. pc[u] \in Nat \ {0}
        BY <1>2
      <4> QED BY <1>1, <4>1, NextLatest
    <3> HIDE DEF s
    <3> QED BY <1>4, <1>8, <1>11, <2>1, <2>2, <3>1
  <2>3. CASE v # u
    <3> HIDE DEF s
    <3> QED BY <1>4, <1>8, <1>11, <2>1, <2>3
  <2> QED BY <2>2, <2>3
<1>12. OwnIsLatest'
  <2>1. DOMAIN slots' = DOMAIN slots
    BY <1>6
  <2> QED BY <1>5, <1>11, <2>1 DEF OwnIsLatest
<1> QED BY <1>4, <1>10, <1>12 DEF IInv

(* A unit that reads, or leaves an access to others, changes no share.      *)
LEMMA GetKeeps ==
  ASSUME IInv, Synced(Program), NEW u \in CubeUnits, GetShares(u)
  PROVE  IInv'
<1>1. At(u) /\ Reads(Program[pc[u]]) /\ Advance(u) /\ UNCHANGED <<kernel, slots>>
  BY DEF GetShares, Does, Reads
<1>2. Len(Program) \in Nat /\ pc[u] \in 1 .. Len(Program)
  BY <1>1, LengthOf DEF IInv, CubeTypeOK, Synced, At
<1>3. ~Syncs(Program[pc[u]]) /\ ~Puts(Program[pc[u]])
  BY <1>1, <1>2, PlaceOf DEF Synced
<1>4. /\ pc' \in [CubeUnits -> 1 .. (Len(Program) + 1)] /\ Together'
      /\ pc'[u] = pc[u] + 1 /\ \A v \in CubeUnits \ {u} : pc'[v] = pc[v]
  BY <1>1, <1>3, AdvanceKeeps
<1>5. Program' = Program
  BY <1>1 DEF Program
<1>6. CubeTypeOK'
  BY <1>1, <1>4, <1>5 DEF IInv, CubeTypeOK
<1>7. ASSUME NEW buf \in DOMAIN slots, NEW v \in CubeUnits
      PROVE  slots[buf][v] = LastPut(Program, pc'[v], buf, v)
  <2>1. slots[buf][v] = LastPut(Program, pc[v], buf, v)
    BY <1>7 DEF IInv, OwnIsLatest
  <2>2. LastPut(Program, pc[u] + 1, buf, u) = LastPut(Program, pc[u], buf, u)
    <3>1. pc[u] \in Nat \ {0}
      BY <1>2
    <3> QED BY <1>3, <3>1, NextLatest
  <2> QED BY <1>4, <1>7, <2>1, <2>2
<1>8. OwnIsLatest'
  BY <1>1, <1>5, <1>7 DEF OwnIsLatest
<1> QED BY <1>4, <1>6, <1>8 DEF IInv

(* The units that leave a barrier have all been at the same one.            *)
LEMMA BarrierKeeps ==
  ASSUME IInv, Synced(Program), Barrier
  PROVE  IInv'
<1>1. /\ Len(Program) \in Nat /\ pc \in [CubeUnits -> 1 .. (Len(Program) + 1)]
      /\ \A u \in CubeUnits : pc[u] \in 1 .. Len(Program) /\ Syncs(Program[pc[u]])
  BY LengthOf DEF IInv, CubeTypeOK, Synced, Barrier, Does, At, Syncs
<1>2. \A u, v \in CubeUnits : pc[u] = pc[v]
  <2>1. ASSUME NEW u \in CubeUnits, NEW v \in CubeUnits, pc[u] < pc[v] PROVE FALSE
    BY <1>1, <2>1 DEF IInv, Together
  <2> QED BY <1>1, <2>1
<1>3. /\ pc' = [u \in CubeUnits |-> pc[u] + 1] /\ kernel' = kernel /\ slots' = slots /\ Program' = Program
  BY DEF Barrier, Program
<1>4. CubeTypeOK'
  <2>1. pc' \in [CubeUnits -> 1 .. (Len(Program) + 1)]
    BY <1>1, <1>3
  <2> QED BY <1>3, <2>1 DEF IInv, CubeTypeOK
<1>5. Together'
  BY <1>1, <1>2, <1>3 DEF Together
<1>6. ASSUME NEW buf \in DOMAIN slots, NEW v \in CubeUnits
      PROVE  slots[buf][v] = LastPut(Program, pc'[v], buf, v)
  <2>1. pc[v] \in Nat \ {0} /\ ~Puts(Program[pc[v]]) /\ pc'[v] = pc[v] + 1
    BY <1>1, <1>3, PlaceOf DEF Synced
  <2>2. LastPut(Program, pc[v] + 1, buf, v) = LastPut(Program, pc[v], buf, v)
    BY <2>1, NextLatest
  <2> QED BY <2>1, <2>2 DEF IInv, OwnIsLatest
<1>7. OwnIsLatest'
  BY <1>3, <1>6 DEF OwnIsLatest
<1> QED BY <1>4, <1>5, <1>7 DEF IInv

LEMMA StepKeeps ==
  ASSUME IInv, Synced(Program), [CubeNext]_cubeVars
  PROVE  IInv'
<1>1. CASE Barrier
  BY <1>1, BarrierKeeps
<1>2. ASSUME NEW u \in CubeUnits, PutShare(u) PROVE IInv'
  BY <1>2, PutKeeps
<1>3. ASSUME NEW u \in CubeUnits, GetShares(u) PROVE IInv'
  BY <1>3, GetKeeps
<1>4. CASE UNCHANGED cubeVars
  BY <1>4 DEF cubeVars, IInv, CubeTypeOK, Together, OwnIsLatest, Program
<1> QED BY <1>1, <1>2, <1>3, <1>4 DEF CubeNext

(* The model's Latest is of the kernel's program.                          *)
LEMMA LatestIs ==
  ASSUME NEW i, NEW buf, NEW v PROVE Latest(i, buf, v) = LastPut(Program, i, buf, v)
BY DEF Latest, LastPut, Placed, Puts

(* Two units of which one reads another's share are at places between which *)
(* that share is not put.                                                  *)
LEMMA NoPutBetween ==
  ASSUME CubeAssumption, IInv, Synced(Program), NEW u \in CubeUnits, At(u), Reads(Program[pc[u]]),
         NEW buf \in Program[pc[u]].bufs, NEW v \in Shares(u), v # u
  PROVE  Placed(Program, pc[v], buf, v) = Placed(Program, pc[u], buf, v)
<1> DEFINE x == Program[pc[u]]
<1>1. /\ Len(Program) \in Nat /\ pc \in [CubeUnits -> 1 .. (Len(Program) + 1)]
      /\ pc[u] \in 1 .. Len(Program)
  BY LengthOf DEF IInv, CubeTypeOK, Synced, At
<1>2. u \in x.by /\ v \in CubeUnits /\ (x.do = "column" => v % COLS = u % COLS)
  BY DEF Shares, Reads
<1>3. ASSUME NEW j \in 1 .. Len(Program), Puts(Program[j]), buf \in Program[j].bufs, v \in Program[j].by
      PROVE  Between(Program, pc[u], j)
  <2>1. ~ByColumn(x, Program[j])
    <3> SUFFICES ASSUME ByColumn(x, Program[j]) PROVE FALSE
      OBVIOUS
    <3>1. u \in 0 .. (COLS - 1) /\ v \in 0 .. (COLS - 1) /\ v % COLS = u % COLS
      BY <1>2, <1>3 DEF ByColumn, RowUnits
    <3>2. COLS \in Nat /\ COLS > 0
      BY DEF CubeAssumption
    <3>3. u % COLS = u /\ v % COLS = v
      BY <3>1, <3>2
    <3> QED BY <3>1, <3>3
  <2>2. Meets(x, Program[j])
    BY <1>3, <2>1 DEF Meets
  <2> QED BY <1>1, <2>2 DEF Synced, Apart
<1>4. ASSUME NEW j \in 1 .. Len(Program), Puts(Program[j]), buf \in Program[j].bufs, v \in Program[j].by
      PROVE  j < pc[u] <=> j < pc[v]
  <2>1. PICK k \in 1 .. Len(Program) : Syncs(Program[k]) /\ ((pc[u] < k /\ k < j) \/ (j < k /\ k < pc[u]))
    BY <1>3, <1>4 DEF Between
  <2>2. (pc[u] <= k /\ k < pc[v] => FALSE) /\ (pc[v] <= k /\ k < pc[u] => FALSE)
    BY <1>2, <2>1 DEF IInv, Together
  <2> QED BY <1>1, <1>2, <2>1, <2>2
<1>5. \A i \in 1 .. (Len(Program) + 1) : \A j : j \in Placed(Program, i, buf, v) <=>
        j \in 1 .. Len(Program) /\ j < i /\ Puts(Program[j]) /\ buf \in Program[j].bufs /\ v \in Program[j].by
  BY <1>1 DEF Placed
<1>6. pc[u] \in 1 .. (Len(Program) + 1) /\ pc[v] \in 1 .. (Len(Program) + 1)
  BY <1>1, <1>2
<1>7. \A j : j \in Placed(Program, pc[v], buf, v) <=> j \in Placed(Program, pc[u], buf, v)
  BY <1>4, <1>5, <1>6
<1>8. \A i : Placed(Program, i, buf, v) \subseteq Int
  BY DEF Placed
<1> QED BY <1>7

LEMMA InvReads ==
  ASSUME CubeAssumption, IInv, Synced(Program)
  PROVE  ReadsExact
<1> SUFFICES ASSUME NEW u \in CubeUnits, Does(u, "get") \/ Does(u, "column"), NEW buf \in Program[pc[u]].bufs
             PROVE  /\ \A v \in Shares(u) : slots[buf][v] = Latest(pc[u], buf, v)
                    /\ \E v \in CubeUnits : Latest(pc[u], buf, v) # 0
  BY DEF ReadsExact
<1>1. /\ At(u) /\ Reads(Program[pc[u]]) /\ pc[u] \in 1 .. Len(Program) /\ Len(Program) \in Nat
      /\ pc \in [CubeUnits -> 1 .. (Len(Program) + 1)]
  BY LengthOf DEF Does, At, Reads, IInv, CubeTypeOK, Synced
<1>2. buf \in DOMAIN slots
  <2>1. buf \in Buffers(Program)
    <3>1. Program[pc[u]].do # "sync" /\ pc[u] \in DOMAIN Program
      BY <1>1, LengthOf DEF Reads, Synced
    <3> QED BY <3>1 DEF Buffers
  <2> QED BY <2>1 DEF IInv, CubeTypeOK
<1>3. ASSUME NEW v \in Shares(u) PROVE slots[buf][v] = Latest(pc[u], buf, v)
  <2>1. v \in CubeUnits
    BY DEF Shares
  <2>2. slots[buf][v] = LastPut(Program, pc[v], buf, v)
    BY <1>2, <2>1 DEF IInv, OwnIsLatest
  <2>3. LastPut(Program, pc[v], buf, v) = LastPut(Program, pc[u], buf, v)
    <3>1. CASE v = u
      BY <3>1
    <3>2. CASE v # u
      <4>1. Placed(Program, pc[v], buf, v) = Placed(Program, pc[u], buf, v)
        BY <1>1, <3>2, NoPutBetween
      <4>2. pc[u] \in Nat /\ pc[v] \in Nat
        BY <1>1, <2>1
      <4> QED BY <4>1, <4>2, SameLatest
    <3> QED BY <3>1, <3>2
  <2> QED BY <2>2, <2>3, LatestIs
<1>4. \E v \in CubeUnits : Latest(pc[u], buf, v) # 0
  <2>1. PICK j \in 1 .. (pc[u] - 1) : Puts(Program[j]) /\ buf \in Program[j].bufs
    BY <1>1 DEF Synced, Filled, IsPut
  <2>2. Program[j].by \in {CubeUnits, RowUnits, Lead}
    BY <1>1, <2>1, PlaceOf DEF Synced
  <2>3. 0 \in Program[j].by /\ 0 \in CubeUnits
    BY <2>2 DEF CubeAssumption, RowUnits, Lead
  <2>4. j \in Placed(Program, pc[u], buf, 0)
    BY <2>1, <2>3 DEF Placed
  <2>5. LastPut(Program, pc[u], buf, 0) \in Placed(Program, pc[u], buf, 0)
    <3>1. pc[u] \in Nat /\ Placed(Program, pc[u], buf, 0) # {}
      BY <1>1, <2>4
    <3> QED BY <3>1, LatestOf
  <2>6. LastPut(Program, pc[u], buf, 0) # 0
    BY <2>5 DEF Placed
  <2> QED BY <2>3, <2>6, LatestIs
<1> QED BY <1>3, <1>4

-----------------------------------------------------------------------------
(* What a piece of a program does to the buffers of its epoch.             *)

\* p may run where the buffers in have were put at some time, those in read
\* were read since the last barrier and those in put put, and no more; and then,
\* of have2, read2 and put2, the same is so.
Leads(p, have, read, put, have2, read2, put2) ==
  /\ IsPiece(p) /\ Apart(p)
  /\ \A i \in 1 .. Len(p) : Reads(p[i]) => \A buf \in p[i].bufs : buf \in have \/ IsPut(p, i, buf)
  /\ \A i \in 1 .. Len(p) : Reads(p[i]) => Before(p, i) \/ p[i].bufs \cap put = {}
  /\ \A i \in 1 .. Len(p) : Puts(p[i]) => Before(p, i) \/ p[i].bufs \cap read = {}
  /\ \A buf \in have2 : buf \in have \/ IsPut(p, Len(p) + 1, buf)
  /\ \A i \in 1 .. Len(p) : Reads(p[i]) => After(p, i) \/ p[i].bufs \subseteq read2
  /\ \A i \in 1 .. Len(p) : Puts(p[i]) => After(p, i) \/ p[i].bufs \subseteq put2
  /\ Before(p, Len(p) + 1) \/ (read \subseteq read2 /\ put \subseteq put2)

(* A program that may run from nothing has its accesses kept apart.        *)
LEMMA LeadsSynced ==
  ASSUME NEW p, NEW have, NEW read, NEW put, Leads(p, {}, {}, {}, have, read, put)
  PROVE  Synced(p)
BY DEF Leads, Synced, Filled

(* Where the places of one piece followed by another are.                  *)
LEMMA Pieces ==
  ASSUME NEW p, IsPiece(p), NEW q, IsPiece(q)
  PROVE  /\ IsPiece(p \o q) /\ Len(p) \in Nat /\ Len(q) \in Nat /\ Len(p \o q) = Len(p) + Len(q)
         /\ \A i \in 1 .. Len(p) : (p \o q)[i] = p[i]
         /\ \A i \in 1 .. Len(q) : (p \o q)[Len(p) + i] = q[i]
<1>1. PICK N : p \in Seq(Accesses(N))
  BY DEF IsPiece
<1>2. PICK M : q \in Seq(Accesses(M))
  BY DEF IsPiece
<1> DEFINE A == Accesses(N \cup M)
<1>3. p \in Seq(A) /\ q \in Seq(A)
  <2>1. Accesses(N) \subseteq A /\ Accesses(M) \subseteq A
    BY DEF Accesses
  <2> HIDE DEF A
  <2> QED BY <1>1, <1>2, <2>1, SeqMonotonic
<1>4. Len(p) \in Nat /\ Len(q) \in Nat
  <2> HIDE DEF A
  <2> QED BY <1>3
<1>5. /\ p \o q \in Seq(A) /\ Len(p \o q) = Len(p) + Len(q)
      /\ \A i \in 1 .. Len(p) + Len(q) : (p \o q)[i] = IF i <= Len(p) THEN p[i] ELSE q[i - Len(p)]
  <2> HIDE DEF A
  <2> QED BY <1>3, ConcatProperties
<1>6. IsPiece(p \o q)
  BY <1>5 DEF IsPiece
<1>7. ASSUME NEW i \in 1 .. Len(q) PROVE (p \o q)[Len(p) + i] = q[i]
  <2>1. Len(p) + i \in 1 .. Len(p) + Len(q) /\ ~(Len(p) + i <= Len(p)) /\ (Len(p) + i) - Len(p) = i
    BY <1>4
  <2> QED BY <1>5, <2>1
<1> QED BY <1>4, <1>5, <1>6, <1>7

(* One piece and then the other.                                           *)
LEMMA Then ==
  ASSUME NEW p, NEW q, NEW h, NEW r, NEW w, NEW h1, NEW r1, NEW w1, NEW h2, NEW r2, NEW w2,
         Leads(p, h, r, w, h1, r1, w1), Leads(q, h1, r1, w1, h2, r2, w2)
  PROVE  Leads(p \o q, h, r, w, h2, r2, w2)
<1> DEFINE s == p \o q
           n == Len(p)
           m == Len(q)
<1>1. /\ IsPiece(s) /\ n \in Nat /\ m \in Nat /\ Len(s) = n + m
      /\ \A i \in 1 .. n : s[i] = p[i] /\ i \in 1 .. Len(s)
      /\ \A i \in 1 .. m : s[n + i] = q[i] /\ n + i \in 1 .. Len(s)
      /\ \A i \in 1 .. Len(s) : i \notin 1 .. n => (i - n \in 1 .. m /\ i = n + (i - n))
  <2>1. IsPiece(p) /\ IsPiece(q)
    BY DEF Leads
  <2>2. /\ IsPiece(p \o q) /\ Len(p) \in Nat /\ Len(q) \in Nat /\ Len(p \o q) = Len(p) + Len(q)
        /\ \A i \in 1 .. Len(p) : (p \o q)[i] = p[i]
        /\ \A i \in 1 .. Len(q) : (p \o q)[Len(p) + i] = q[i]
    <3> HIDE DEF s, n, m
    <3>1. IsPiece(p \o q) /\ Len(p) \in Nat /\ Len(q) \in Nat /\ Len(p \o q) = Len(p) + Len(q)
      BY <2>1, Pieces
    <3>2. \A i \in 1 .. Len(p) : (p \o q)[i] = p[i]
      BY <2>1, Pieces
    <3>3. \A i \in 1 .. Len(q) : (p \o q)[Len(p) + i] = q[i]
      BY <2>1, Pieces
    <3> QED BY <3>1, <3>2, <3>3
  <2>3. IsPiece(s) /\ n \in Nat /\ m \in Nat /\ Len(s) = n + m
    BY <2>2
  <2>4. \A i \in 1 .. n : s[i] = p[i] /\ i \in 1 .. Len(s)
    BY <2>2
  <2>5. \A i \in 1 .. m : s[n + i] = q[i] /\ n + i \in 1 .. Len(s)
    BY <2>2
  <2>6. \A i \in 1 .. Len(s) : i \notin 1 .. n => (i - n \in 1 .. m /\ i = n + (i - n))
    <3> HIDE DEF s, n, m
    <3> QED BY <2>3
  <2> HIDE DEF s, n, m
  <2> QED BY <2>3, <2>4, <2>5, <2>6
<1> HIDE DEF s, n, m
<1>2. /\ \A i \in 1 .. n : Before(p, i) => Before(s, i)
      /\ \A i \in 1 .. n : After(p, i) => After(s, i)
      /\ \A i \in 1 .. n : \A buf : IsPut(p, i, buf) => IsPut(s, i, buf)
      /\ \A i \in 1 .. m : Before(q, i) => Before(s, n + i)
      /\ \A i \in 1 .. m : After(q, i) => After(s, n + i)
      /\ \A i \in 1 .. m : \A buf : IsPut(q, i, buf) => IsPut(s, n + i, buf)
  <2>1. ASSUME NEW i \in 1 .. n PROVE /\ Before(p, i) => Before(s, i)
                                      /\ \A buf : IsPut(p, i, buf) => IsPut(s, i, buf)
    <3>1. \A k \in 1 .. (i - 1) : s[k] = p[k]
      BY <1>1, <2>1
    <3>2. Before(p, i) => Before(s, i)
      BY <3>1 DEF Before
    <3>3. \A buf : IsPut(p, i, buf) => IsPut(s, i, buf)
      BY <3>1 DEF IsPut
    <3> QED BY <3>2, <3>3
  <2>2. ASSUME NEW i \in 1 .. n, After(p, i) PROVE After(s, i)
    BY <1>1, <2>2 DEF After, n
  <2>3. ASSUME NEW i \in 1 .. m, Before(q, i) PROVE Before(s, n + i)
    <3>1. PICK k \in 1 .. (i - 1) : Syncs(q[k])
      BY <2>3 DEF Before
    <3>2. n + k \in 1 .. (n + i - 1) /\ k \in 1 .. m
      BY <1>1, <2>3
    <3> QED BY <1>1, <3>1, <3>2 DEF Before
  <2>4. ASSUME NEW i \in 1 .. m, After(q, i) PROVE After(s, n + i)
    <3>1. PICK k \in (i + 1) .. m : Syncs(q[k])
      BY <2>4 DEF After, m
    <3>2. n + k \in (n + i + 1) .. Len(s) /\ k \in 1 .. m
      BY <1>1, <2>4
    <3> QED BY <1>1, <3>1, <3>2 DEF After
  <2>5. ASSUME NEW i \in 1 .. m, NEW buf, IsPut(q, i, buf) PROVE IsPut(s, n + i, buf)
    <3>1. PICK k \in 1 .. (i - 1) : Puts(q[k]) /\ buf \in q[k].bufs
      BY <2>5 DEF IsPut
    <3>2. n + k \in 1 .. (n + i - 1) /\ k \in 1 .. m
      BY <1>1, <2>5
    <3> QED BY <1>1, <3>1, <3>2 DEF IsPut
  <2> QED BY <2>1, <2>2, <2>3, <2>4, <2>5
<1>3. /\ \A i \in 1 .. m : Before(p, n + 1) => Before(s, n + i)
      /\ \A i \in 1 .. n : Before(q, m + 1) => After(s, i)
      /\ \A i \in 1 .. (m + 1) : \A buf : IsPut(p, n + 1, buf) => IsPut(s, n + i, buf)
      /\ \A buf : IsPut(q, m + 1, buf) => IsPut(s, Len(s) + 1, buf)
      /\ Before(p, n + 1) \/ Before(q, m + 1) => Before(s, Len(s) + 1)
  <2>1. ASSUME NEW k \in 1 .. m, Syncs(q[k]) PROVE n + k \in 1 .. Len(s) /\ n < n + k /\ Syncs(s[n + k])
    BY <1>1, <2>1
  <2>2. ASSUME NEW k \in 1 .. m, NEW buf, Puts(q[k]), buf \in q[k].bufs
        PROVE  n + k \in 1 .. Len(s) /\ Puts(s[n + k]) /\ buf \in s[n + k].bufs
    BY <1>1, <2>2
  <2>3. \A i \in 1 .. m : Before(p, n + 1) => Before(s, n + i)
    <3> SUFFICES ASSUME NEW i \in 1 .. m, Before(p, n + 1) PROVE Before(s, n + i)
      OBVIOUS
    <3>1. PICK k \in 1 .. n : Syncs(p[k])
      BY <1>1 DEF Before
    <3>2. k \in 1 .. (n + i - 1) /\ s[k] = p[k]
      BY <1>1, <3>1
    <3>3. \E j \in 1 .. (n + i - 1) : Syncs(s[j])
      BY <3>1, <3>2
    <3>4. (n + i) - 1 = n + i - 1
      BY <1>1
    <3> HIDE DEF s, n
    <3> QED BY <3>3, <3>4 DEF Before
  <2>4. \A i \in 1 .. n : Before(q, m + 1) => After(s, i)
    <3> SUFFICES ASSUME NEW i \in 1 .. n, Before(q, m + 1) PROVE After(s, i)
      OBVIOUS
    <3>1. PICK k \in 1 .. m : Syncs(q[k])
      BY <1>1 DEF Before
    <3>2. n + k \in (i + 1) .. Len(s)
      BY <1>1, <2>1, <3>1
    <3> QED BY <2>1, <3>1, <3>2 DEF After
  <2>5. \A i \in 1 .. (m + 1) : \A buf : IsPut(p, n + 1, buf) => IsPut(s, n + i, buf)
    BY <1>1 DEF IsPut
  <2>6. \A buf : IsPut(q, m + 1, buf) => IsPut(s, Len(s) + 1, buf)
    <3> SUFFICES ASSUME NEW buf, IsPut(q, m + 1, buf) PROVE IsPut(s, Len(s) + 1, buf)
      OBVIOUS
    <3>1. PICK k \in 1 .. m : Puts(q[k]) /\ buf \in q[k].bufs
      BY <1>1 DEF IsPut
    <3> QED BY <1>1, <2>2, <3>1 DEF IsPut
  <2>7. Before(p, n + 1) => Before(s, Len(s) + 1)
    BY <1>1 DEF Before
  <2>8. Before(q, m + 1) => Before(s, Len(s) + 1)
    <3> SUFFICES ASSUME Before(q, m + 1) PROVE Before(s, Len(s) + 1)
      OBVIOUS
    <3>1. PICK k \in 1 .. m : Syncs(q[k])
      BY <1>1 DEF Before
    <3> QED BY <1>1, <2>1, <3>1 DEF Before
  <2> QED BY <2>3, <2>4, <2>5, <2>6, <2>7, <2>8
<1>4. Apart(s)
  <2> SUFFICES ASSUME NEW i \in 1 .. Len(s), NEW j \in 1 .. Len(s), Meets(s[i], s[j]) PROVE Between(s, i, j)
    BY DEF Apart
  <2>1. CASE i \in 1 .. n /\ j \in 1 .. n
    <3>1. Between(p, i, j)
      BY <1>1, <2>1 DEF Leads, Apart, n
    <3>2. PICK k \in 1 .. n : Syncs(p[k]) /\ ((i < k /\ k < j) \/ (j < k /\ k < i))
      BY <3>1 DEF Between, n
    <3> QED BY <1>1, <3>2 DEF Between
  <2>2. CASE i \notin 1 .. n /\ j \notin 1 .. n
    <3>1. /\ i - n \in 1 .. m /\ s[i] = q[i - n]
          /\ j - n \in 1 .. m /\ s[j] = q[j - n]
      BY <1>1, <2>2
    <3>2. Between(q, i - n, j - n)
      BY <3>1 DEF Leads, Apart, m
    <3>3. PICK k \in 1 .. m : Syncs(q[k]) /\ ((i - n < k /\ k < j - n) \/ (j - n < k /\ k < i - n))
      BY <3>2 DEF Between, m
    <3>4. n + k \in 1 .. Len(s) /\ Syncs(s[n + k]) /\ ((i < n + k /\ n + k < j) \/ (j < n + k /\ n + k < i))
      BY <1>1, <3>3
    <3> QED BY <3>4 DEF Between
  <2>3. CASE i \in 1 .. n /\ j \notin 1 .. n
    <3>1. s[i] = p[i] /\ j - n \in 1 .. m /\ s[j] = q[j - n] /\ i < j
      BY <1>1, <2>3
    <3>2. Reads(p[i]) /\ Puts(q[j - n]) /\ p[i].bufs \cap q[j - n].bufs # {}
      BY <3>1 DEF Meets
    <3>3. CASE After(p, i)
      <4>1. PICK k \in (i + 1) .. n : Syncs(p[k])
        BY <3>3 DEF After, n
      <4>2. k \in 1 .. n /\ i < k /\ k < j
        BY <1>1, <2>3, <4>1
      <4>3. k \in 1 .. Len(s) /\ Syncs(s[k])
        BY <1>1, <4>1, <4>2
      <4> QED BY <4>2, <4>3 DEF Between
    <3>4. CASE Before(q, j - n)
      <4>1. PICK k \in 1 .. (j - n - 1) : Syncs(q[k])
        BY <3>4 DEF Before
      <4>2. k \in 1 .. m /\ i < n + k /\ n + k < j
        BY <1>1, <2>3, <3>1, <4>1
      <4>3. n + k \in 1 .. Len(s) /\ Syncs(s[n + k])
        BY <1>1, <4>1, <4>2
      <4> QED BY <4>2, <4>3 DEF Between
    <3>5. CASE ~After(p, i) /\ ~Before(q, j - n)
      <4>1. p[i].bufs \subseteq r1
        BY <2>3, <3>2, <3>5 DEF Leads, n
      <4>2. q[j - n].bufs \cap r1 = {}
        BY <3>1, <3>2, <3>5 DEF Leads, m
      <4> QED BY <3>2, <4>1, <4>2
    <3> QED BY <3>3, <3>4, <3>5
  <2>4. CASE i \notin 1 .. n /\ j \in 1 .. n
    <3>1. s[j] = p[j] /\ i - n \in 1 .. m /\ s[i] = q[i - n] /\ j < i
      BY <1>1, <2>4
    <3>2. Reads(q[i - n]) /\ Puts(p[j]) /\ q[i - n].bufs \cap p[j].bufs # {}
      BY <3>1 DEF Meets
    <3>3. CASE After(p, j)
      <4>1. PICK k \in (j + 1) .. n : Syncs(p[k])
        BY <3>3 DEF After, n
      <4>2. k \in 1 .. n /\ j < k /\ k < i
        BY <1>1, <2>4, <4>1
      <4>3. k \in 1 .. Len(s) /\ Syncs(s[k])
        BY <1>1, <4>1, <4>2
      <4> QED BY <4>2, <4>3 DEF Between
    <3>4. CASE Before(q, i - n)
      <4>1. PICK k \in 1 .. (i - n - 1) : Syncs(q[k])
        BY <3>4 DEF Before
      <4>2. k \in 1 .. m /\ j < n + k /\ n + k < i
        BY <1>1, <2>4, <3>1, <4>1
      <4>3. n + k \in 1 .. Len(s) /\ Syncs(s[n + k])
        BY <1>1, <4>1, <4>2
      <4> QED BY <4>2, <4>3 DEF Between
    <3>5. CASE ~After(p, j) /\ ~Before(q, i - n)
      <4>1. p[j].bufs \subseteq w1
        BY <2>4, <3>2, <3>5 DEF Leads, n
      <4>2. q[i - n].bufs \cap w1 = {}
        BY <3>1, <3>2, <3>5 DEF Leads, m
      <4> QED BY <3>2, <4>1, <4>2
    <3> QED BY <3>3, <3>4, <3>5
  <2> QED BY <2>1, <2>2, <2>3, <2>4
<1>5. ASSUME NEW i \in 1 .. Len(s), Reads(s[i]), NEW buf \in s[i].bufs
      PROVE  buf \in h \/ IsPut(s, i, buf)
  <2>1. CASE i \in 1 .. n
    <3>1. buf \in h \/ IsPut(p, i, buf)
      BY <1>1, <1>5, <2>1 DEF Leads, n
    <3> QED BY <1>2, <2>1, <3>1
  <2>2. CASE i \notin 1 .. n
    <3>1. i - n \in 1 .. m /\ s[i] = q[i - n] /\ i = n + (i - n)
      BY <1>1, <2>2
    <3>2. buf \in h1 \/ IsPut(q, i - n, buf)
      BY <1>5, <3>1 DEF Leads, m
    <3>3. buf \in h1 => buf \in h \/ IsPut(p, n + 1, buf)
      BY DEF Leads, n
    <3>4. IsPut(p, n + 1, buf) => IsPut(s, n + (i - n), buf)
      <4>1. i - n \in 1 .. (m + 1)
        BY <1>1, <3>1
      <4> QED BY <1>3, <4>1
    <3> QED BY <1>2, <3>1, <3>2, <3>3, <3>4
  <2> QED BY <2>1, <2>2
<1>6. ASSUME NEW i \in 1 .. Len(s)
      PROVE  /\ Reads(s[i]) => Before(s, i) \/ s[i].bufs \cap w = {}
             /\ Puts(s[i]) => Before(s, i) \/ s[i].bufs \cap r = {}
  <2>1. CASE i \in 1 .. n
    <3>1. /\ Reads(p[i]) => Before(p, i) \/ p[i].bufs \cap w = {}
          /\ Puts(p[i]) => Before(p, i) \/ p[i].bufs \cap r = {}
      BY <2>1 DEF Leads, n
    <3> QED BY <1>1, <1>2, <2>1, <3>1
  <2>2. CASE i \notin 1 .. n
    <3>1. i - n \in 1 .. m /\ s[i] = q[i - n] /\ i = n + (i - n)
      BY <1>1, <2>2
    <3>2. /\ Reads(q[i - n]) => Before(q, i - n) \/ q[i - n].bufs \cap w1 = {}
          /\ Puts(q[i - n]) => Before(q, i - n) \/ q[i - n].bufs \cap r1 = {}
      BY <3>1 DEF Leads, m
    <3>3. Before(p, n + 1) \/ (r \subseteq r1 /\ w \subseteq w1)
      BY DEF Leads, n
    <3> QED BY <1>2, <1>3, <3>1, <3>2, <3>3
  <2> QED BY <2>1, <2>2
<1>7. ASSUME NEW buf \in h2 PROVE buf \in h \/ IsPut(s, Len(s) + 1, buf)
  <2>1. buf \in h1 \/ IsPut(q, m + 1, buf)
    BY DEF Leads, m
  <2>2. buf \in h1 => buf \in h \/ IsPut(p, n + 1, buf)
    BY DEF Leads, n
  <2>3. IsPut(p, n + 1, buf) => IsPut(s, n + (m + 1), buf)
    <3>1. m + 1 \in 1 .. (m + 1)
      BY <1>1
    <3> QED BY <1>3, <3>1
  <2>4. n + (m + 1) = Len(s) + 1
    BY <1>1
  <2> QED BY <1>3, <2>1, <2>2, <2>3, <2>4
<1>8. ASSUME NEW i \in 1 .. Len(s)
      PROVE  /\ Reads(s[i]) => After(s, i) \/ s[i].bufs \subseteq r2
             /\ Puts(s[i]) => After(s, i) \/ s[i].bufs \subseteq w2
  <2>1. CASE i \in 1 .. n
    <3>1. /\ Reads(p[i]) => After(p, i) \/ p[i].bufs \subseteq r1
          /\ Puts(p[i]) => After(p, i) \/ p[i].bufs \subseteq w1
      BY <2>1 DEF Leads, n
    <3>2. Before(q, m + 1) \/ (r1 \subseteq r2 /\ w1 \subseteq w2)
      BY DEF Leads, m
    <3> QED BY <1>1, <1>2, <1>3, <2>1, <3>1, <3>2
  <2>2. CASE i \notin 1 .. n
    <3>1. i - n \in 1 .. m /\ s[i] = q[i - n] /\ i = n + (i - n)
      BY <1>1, <2>2
    <3>2. /\ Reads(q[i - n]) => After(q, i - n) \/ q[i - n].bufs \subseteq r2
          /\ Puts(q[i - n]) => After(q, i - n) \/ q[i - n].bufs \subseteq w2
      BY <3>1 DEF Leads, m
    <3> QED BY <1>2, <3>1, <3>2
  <2> QED BY <2>1, <2>2
<1>9. Before(s, Len(s) + 1) \/ (r \subseteq r2 /\ w \subseteq w2)
  <2>1. Before(p, n + 1) \/ (r \subseteq r1 /\ w \subseteq w1)
    BY DEF Leads, n
  <2>2. Before(q, m + 1) \/ (r1 \subseteq r2 /\ w1 \subseteq w2)
    BY DEF Leads, m
  <2> QED BY <1>3, <2>1, <2>2
<1> QED BY <1>1, <1>4, <1>5, <1>6, <1>7, <1>8, <1>9 DEF Leads, s


(* A piece may run where more was put and less touched, and less be known    *)
(* then.                                                                   *)
LEMMA Weaken ==
  ASSUME NEW p, NEW h, NEW r, NEW w, NEW h2, NEW r2, NEW w2, Leads(p, h, r, w, h2, r2, w2),
         NEW g, NEW q, NEW v, NEW g2, NEW q2, NEW v2,
         h \subseteq g, q \subseteq r, v \subseteq w, g2 \subseteq h2, r2 \subseteq q2, w2 \subseteq v2
  PROVE  Leads(p, g, q, v, g2, q2, v2)
BY DEF Leads

(* A round of a loop that leaves what the next may start with.             *)
LEMMA TwiceLeads ==
  ASSUME NEW p, NEW h, NEW r, NEW w, NEW h2, NEW r2, NEW w2, Leads(p, h, r, w, h2, r2, w2),
         h \subseteq h2, r2 \subseteq r, w2 \subseteq w, NEW q, NEW v, q \subseteq r, v \subseteq w
  PROVE  Leads(Twice(p), h, q, v, h2, r2, w2)
<1>1. Leads(p, h, q, v, h2, r2, w2) /\ Leads(p, h2, r2, w2, h2, r2, w2)
  BY Weaken
<1> QED BY <1>1, Then DEF Twice

(* A barrier ends an epoch.                                                *)
LEMMA SyncLeads ==
  ASSUME NEW h, NEW r, NEW w, NEW h2, NEW r2, NEW w2, h2 \subseteq h
  PROVE  Leads(Sync, h, r, w, h2, r2, w2)
<1>1. Sync \in Seq(Accesses({})) /\ Len(Sync) = 1 /\ Sync[1].do = "sync"
  BY DEF Sync, Accesses
<1>2. IsPiece(Sync)
  BY <1>1 DEF IsPiece
<1> QED BY <1>1, <1>2 DEF Leads, Apart, Meets, Reads, Puts, Syncs, Before, IsPut

(* Nothing.                                                                *)
LEMMA EmptyLeads ==
  ASSUME NEW h, NEW r, NEW w, NEW h2, NEW r2, NEW w2, h2 \subseteq h, r \subseteq r2, w \subseteq w2
  PROVE  Leads(<<>>, h, r, w, h2, r2, w2)
<1>1. IsPiece(<<>>) /\ Len(<<>>) = 0
  BY EmptySeq DEF IsPiece
<1> QED BY <1>1 DEF Leads, Apart

(* A put, of buffers not read in its epoch.                                *)
LEMMA PutByLeads ==
  ASSUME NEW who \in {CubeUnits, RowUnits, Lead}, NEW bufs,
         NEW h, NEW r, NEW w, NEW h2, NEW r2, NEW w2,
         bufs \cap r = {}, h2 \subseteq h \cup bufs, r \subseteq r2, w \cup bufs \subseteq w2
  PROVE  Leads(PutBy(who, bufs), h, r, w, h2, r2, w2)
<1> DEFINE p == PutBy(who, bufs)
<1>1. p \in Seq(Accesses(bufs)) /\ Len(p) = 1 /\ p[1].do = "put" /\ p[1].bufs = bufs
  BY DEF PutBy, Accesses
<1> HIDE DEF p
<1>2. IsPiece(p)
  BY <1>1 DEF IsPiece
<1>3. \A buf \in bufs : IsPut(p, 2, buf)
  BY <1>1 DEF IsPut, Puts
<1>4. \A i \in 1 .. Len(p) : i = 1 /\ ~Reads(p[i])
  BY <1>1 DEF Reads
<1>5. Len(p) + 1 = 2
  BY <1>1
<1>6. Apart(p)
  BY <1>4 DEF Apart, Meets
<1>7. Leads(p, h, r, w, h2, r2, w2)
  BY <1>1, <1>3, <1>4, <1>5, <1>6, <1>2 DEF Leads
<1> QED BY <1>7 DEF p

(* A put by every unit.                                                    *)
LEMMA PutLeads ==
  ASSUME NEW bufs, NEW h, NEW r, NEW w, NEW h2, NEW r2, NEW w2,
         bufs \cap r = {}, h2 \subseteq h \cup bufs, r \subseteq r2, w \cup bufs \subseteq w2
  PROVE  Leads(Put(bufs), h, r, w, h2, r2, w2)
BY PutByLeads DEF Put

(* A read, of buffers put before and not in its epoch.                     *)
LEMMA GetByLeads ==
  ASSUME NEW who \in {CubeUnits, RowUnits, Lead}, NEW bufs,
         NEW h, NEW r, NEW w, NEW h2, NEW r2, NEW w2,
         bufs \subseteq h, bufs \cap w = {}, h2 \subseteq h, r \cup bufs \subseteq r2, w \subseteq w2
  PROVE  Leads(GetBy(who, bufs), h, r, w, h2, r2, w2)
<1> DEFINE p == GetBy(who, bufs)
<1>1. p \in Seq(Accesses(bufs)) /\ Len(p) = 1 /\ p[1].do = "get" /\ p[1].bufs = bufs
  BY DEF GetBy, Accesses
<1> HIDE DEF p
<1>2. IsPiece(p)
  BY <1>1 DEF IsPiece
<1>3. \A i \in 1 .. Len(p) : i = 1 /\ ~Puts(p[i])
  BY <1>1 DEF Puts
<1>4. Apart(p)
  BY <1>3 DEF Apart, Meets
<1>5. Leads(p, h, r, w, h2, r2, w2)
  BY <1>1, <1>3, <1>4, <1>2 DEF Leads
<1> QED BY <1>5 DEF p

(* A read by every unit.                                                   *)
LEMMA GetLeads ==
  ASSUME NEW bufs, NEW h, NEW r, NEW w, NEW h2, NEW r2, NEW w2,
         bufs \subseteq h, bufs \cap w = {}, h2 \subseteq h, r \cup bufs \subseteq r2, w \subseteq w2
  PROVE  Leads(Get(bufs), h, r, w, h2, r2, w2)
BY GetByLeads DEF Get

(* What the first row reads by column it may put back in the same epoch.    *)
LEMMA ColumnPutLeads ==
  ASSUME NEW bufs, NEW h, NEW r, NEW w, NEW h2, NEW r2, NEW w2,
         bufs \subseteq h, bufs \cap w = {}, bufs \cap r = {},
         h2 \subseteq h, r \cup bufs \subseteq r2, w \cup bufs \subseteq w2
  PROVE  Leads(ColumnBy(RowUnits, bufs) \o PutBy(RowUnits, bufs), h, r, w, h2, r2, w2)
<1> DEFINE p == ColumnBy(RowUnits, bufs) \o PutBy(RowUnits, bufs)
<1>1. /\ IsPiece(p) /\ Len(p) = 2
      /\ p[1].do = "column" /\ p[1].bufs = bufs /\ p[1].by = RowUnits
      /\ p[2].do = "put" /\ p[2].bufs = bufs /\ p[2].by = RowUnits
  <2>1. /\ ColumnBy(RowUnits, bufs) \in Seq(Accesses(bufs)) /\ Len(ColumnBy(RowUnits, bufs)) = 1
        /\ ColumnBy(RowUnits, bufs)[1] = [do |-> "column", bufs |-> bufs, by |-> RowUnits]
    BY DEF ColumnBy, Accesses
  <2>2. IsPiece(ColumnBy(RowUnits, bufs))
    BY <2>1 DEF IsPiece
  <2>3. /\ PutBy(RowUnits, bufs) \in Seq(Accesses(bufs)) /\ Len(PutBy(RowUnits, bufs)) = 1
        /\ PutBy(RowUnits, bufs)[1] = [do |-> "put", bufs |-> bufs, by |-> RowUnits]
    BY DEF PutBy, Accesses
  <2>4. IsPiece(PutBy(RowUnits, bufs))
    BY <2>3 DEF IsPiece
  <2>5. /\ IsPiece(p) /\ Len(p) = 2
        /\ p[1] = ColumnBy(RowUnits, bufs)[1] /\ p[1 + 1] = PutBy(RowUnits, bufs)[1]
    <3> DEFINE c == ColumnBy(RowUnits, bufs)
               d == PutBy(RowUnits, bufs)
    <3>1. IsPiece(c) /\ IsPiece(d)
      BY <2>2, <2>4
    <3>2. Len(c) = 1 /\ Len(d) = 1
      BY <2>1, <2>3
    <3> HIDE DEF c, d
    <3>3. IsPiece(c \o d) /\ Len(c \o d) = Len(c) + Len(d)
      BY <3>1, Pieces
    <3>4. \A i \in 1 .. Len(c) : (c \o d)[i] = c[i]
      BY <3>1, Pieces
    <3>5. \A i \in 1 .. Len(d) : (c \o d)[Len(c) + i] = d[i]
      BY <3>1, Pieces
    <3>6. IsPiece(c \o d) /\ Len(c \o d) = 2 /\ (c \o d)[1] = c[1] /\ (c \o d)[1 + 1] = d[1]
      BY <3>3, <3>4, <3>5, <3>2
    <3> QED BY <3>6 DEF c, d
  <2> HIDE DEF p
  <2> QED BY <2>1, <2>3, <2>5
<1> HIDE DEF p
<1>2. \A i \in 1 .. Len(p) : (Reads(p[i]) => i = 1) /\ (Puts(p[i]) => i = 2)
  BY <1>1 DEF Reads, Puts
<1>3. Apart(p)
  BY <1>1, <1>2 DEF Apart, Meets, ByColumn
<1>4. Leads(p, h, r, w, h2, r2, w2)
  BY <1>1, <1>2, <1>3 DEF Leads
<1> QED BY <1>4 DEF p

(* A piece only some calls of the kernel have.                             *)
LEMMA WhenLeads ==
  ASSUME NEW c \in BOOLEAN, NEW p, NEW h, NEW r, NEW w, NEW h1, NEW r1, NEW w1, Leads(p, h, r, w, h1, r1, w1),
         NEW h2, NEW r2, NEW w2, h2 \subseteq h, h2 \subseteq h1, r \cup r1 \subseteq r2, w \cup w1 \subseteq w2
  PROVE  Leads(When(c, p), h, r, w, h2, r2, w2)
<1>1. Leads(p, h, r, w, h2, r2, w2)
  BY Weaken
<1>2. Leads(<<>>, h, r, w, h2, r2, w2)
  BY EmptyLeads
<1> QED BY <1>1, <1>2 DEF When

(* Plan first puts scan; ends at a barrier.                                *)
LEMMA PlanLeads ==
  ASSUME NEW h, NEW r, NEW w, NEW h2, NEW r2, NEW w2, {"scan"} \cap r = {}, h2 \subseteq h
  PROVE  Leads(Plan, h, r, w, h2, r2, w2)
<1>1. Leads(Twice(Put({"scan"}) \o Sync \o Twice(Get({"scan"}) \o Sync \o Put({"scan"}) \o Sync) \o Get({"scan"}) \o
            Sync), h, r, w,
            h, {}, {})
  <2>1. Leads((Put({"scan"}) \o Sync \o Twice(Get({"scan"}) \o Sync \o Put({"scan"}) \o Sync) \o Get({"scan"}) \o
              Sync), h, r, w,
              h, {}, {})
    <3>1. Leads(Put({"scan"}), h, r, w, h \cup {"scan"}, r, w \cup {"scan"})
      BY PutLeads
    <3>2. Leads(Sync, h \cup {"scan"}, r, w \cup {"scan"}, h \cup {"scan"}, {}, {})
      BY SyncLeads
    <3>3. Leads(Twice(Get({"scan"}) \o Sync \o Put({"scan"}) \o Sync), h \cup {"scan"}, {}, {},
                h \cup {"scan"}, {}, {})
      <4>1. Leads((Get({"scan"}) \o Sync \o Put({"scan"}) \o Sync), h \cup {"scan"}, {}, {},
                  h \cup {"scan"}, {}, {})
        <5>1. Leads(Get({"scan"}), h \cup {"scan"}, {}, {}, h \cup {"scan"}, {"scan"}, {})
          BY GetLeads
        <5>2. Leads(Sync, h \cup {"scan"}, {"scan"}, {}, h \cup {"scan"}, {}, {})
          BY SyncLeads
        <5>3. Leads(Put({"scan"}), h \cup {"scan"}, {}, {}, h \cup {"scan"}, {}, {"scan"})
          BY PutLeads
        <5>4. Leads(Sync, h \cup {"scan"}, {}, {"scan"}, h \cup {"scan"}, {}, {})
          BY SyncLeads
        <5> QED BY <5>1, <5>2, <5>3, <5>4, Then
      <4> QED BY <4>1, TwiceLeads
    <3>4. Leads(Get({"scan"}), h \cup {"scan"}, {}, {}, h, {"scan"}, {})
      BY GetLeads
    <3>5. Leads(Put({"scan"}) \o Sync \o Twice(Get({"scan"}) \o Sync \o Put({"scan"}) \o Sync) \o Get({"scan"}), h,
                r, w,
                h, {"scan"}, {})
      BY <3>1, <3>2, <3>3, <3>4, Then
    <3>6. Leads(Sync, h, {"scan"}, {}, h, {}, {})
      BY SyncLeads
    <3> QED BY <3>5, <3>6, Then
  <2> QED BY <2>1, TwiceLeads
<1> QED BY <1>1, Weaken DEF Plan

(* StateFill first puts ks and wt; leaves ks and wt put; ends at a barrier.*)
LEMMA StateFillLeads ==
  ASSUME NEW h, NEW r, NEW w, NEW h2, NEW r2, NEW w2, {"ks", "wt"} \cap r = {}, h2 \subseteq h \cup {"ks", "wt"}
  PROVE  Leads(StateFill, h, r, w, h2, r2, w2)
<1>1. Leads(Put({"wt", "ks"}), h, r, w, h \cup {"ks", "wt"}, r, w \cup {"ks", "wt"})
  BY PutLeads
<1>2. Leads(Sync, h \cup {"ks", "wt"}, r, w \cup {"ks", "wt"}, h2, r2, w2)
  BY SyncLeads
<1> QED BY <1>1, <1>2, Then DEF StateFill

(* StateNew reads ss and wt, put before; first puts vs; leaves vs put; ends*)
(* at a barrier.                                                           *)
LEMMA StateNewLeads ==
  ASSUME NEW h, NEW r, NEW w, NEW h2, NEW r2, NEW w2, {"ss", "wt"} \subseteq h, {"ss", "wt"} \cap w = {},
         {"vs"} \cap r = {}, h2 \subseteq h \cup {"vs"}
  PROVE  Leads(StateNew, h, r, w, h2, r2, w2)
<1>1. Leads(Get({"wt", "ss"}), h, r, w, h, r \cup {"ss", "wt"}, w)
  BY GetLeads
<1>2. Leads(Put({"vs"}), h, r \cup {"ss", "wt"}, w, h \cup {"vs"}, r \cup {"ss", "wt"}, w \cup {"vs"})
  BY PutLeads
<1>3. Leads(Sync, h \cup {"vs"}, r \cup {"ss", "wt"}, w \cup {"vs"}, h2, r2, w2)
  BY SyncLeads
<1> QED BY <1>1, <1>2, <1>3, Then DEF StateNew

(* StatePass reads ks and vs, put before; first puts ss; leaves ss put;    *)
(* ends at a barrier.                                                      *)
LEMMA StatePassLeads ==
  ASSUME NEW h, NEW r, NEW w, NEW h2, NEW r2, NEW w2, {"ks", "vs"} \subseteq h, {"ks", "vs"} \cap w = {},
         {"ss"} \cap r = {}, h2 \subseteq h \cup {"ss"}
  PROVE  Leads(StatePass, h, r, w, h2, r2, w2)
<1>1. Leads(Get({"ks", "vs"}), h, r, w, h, r \cup {"ks", "vs"}, w)
  BY GetLeads
<1>2. Leads(Put({"ss"}), h, r \cup {"ks", "vs"}, w, h \cup {"ss"}, r \cup {"ks", "vs"}, w \cup {"ss"})
  BY PutLeads
<1>3. Leads(Sync, h \cup {"ss"}, r \cup {"ks", "vs"}, w \cup {"ss"}, h2, r2, w2)
  BY SyncLeads
<1> QED BY <1>1, <1>2, <1>3, Then DEF StatePass

(* StateForward first puts ks, ss and wt; ends at a barrier.               *)
LEMMA StateForwardLeads ==
  ASSUME NEW h, NEW r, NEW w, NEW h2, NEW r2, NEW w2, {"ks", "ss", "wt"} \cap r = {}, h2 \subseteq h
  PROVE  Leads(StateForward, h, r, w, h2, r2, w2)
<1>1. Leads(Put({"ss"}), h, r, w, h \cup {"ss"}, r, w \cup {"ss"})
  BY PutLeads
<1>2. Leads(Twice(StateFill \o StateNew \o StatePass), h \cup {"ss"}, r, w \cup {"ss"}, h \cup {"ss"}, {}, {})
  <2>1. Leads((StateFill \o StateNew \o StatePass), h \cup {"ss"}, r, w \cup {"ss"}, h \cup {"ss"}, {}, {})
    <3>1. Leads(StateFill, h \cup {"ss"}, r, w \cup {"ss"}, h \cup {"ks", "ss", "wt"}, {}, {})
      BY StateFillLeads
    <3>2. Leads(StateNew, h \cup {"ks", "ss", "wt"}, {}, {}, h \cup {"ks", "ss", "vs"}, {}, {})
      BY StateNewLeads
    <3>3. Leads(StatePass, h \cup {"ks", "ss", "vs"}, {}, {}, h \cup {"ss"}, {}, {})
      BY StatePassLeads
    <3> QED BY <3>1, <3>2, <3>3, Then
  <2> QED BY <2>1, TwiceLeads
<1>3. Leads(Put({"ss"}) \o Twice(StateFill \o StateNew \o StatePass), h, r, w, h \cup {"ss"}, {}, {})
  BY <1>1, <1>2, Then
<1> QED BY <1>3, Weaken DEF StateForward

(* BackFill first puts dos, xs and ys; leaves dos, xs and ys put; ends at a*)
(* barrier.                                                                *)
LEMMA BackFillLeads ==
  ASSUME NEW h, NEW r, NEW w, NEW h2, NEW r2, NEW w2, {"dos", "xs", "ys"} \cap r = {},
         h2 \subseteq h \cup {"dos", "xs", "ys"}
  PROVE  Leads(BackFill, h, r, w, h2, r2, w2)
<1>1. Leads(Put({"xs", "ys", "dos"}), h, r, w, h \cup {"dos", "xs", "ys"}, r, w \cup {"dos", "xs", "ys"})
  BY PutLeads
<1>2. Leads(Sync, h \cup {"dos", "xs", "ys"}, r, w \cup {"dos", "xs", "ys"}, h2, r2, w2)
  BY SyncLeads
<1> QED BY <1>1, <1>2, Then DEF BackFill

(* BackNew reads dss and xs, put before; first puts dvs; leaves dvs and xs *)
(* put; ends at a barrier.                                                 *)
LEMMA BackNewLeads ==
  ASSUME NEW h, NEW r, NEW w, NEW h2, NEW r2, NEW w2, {"dss", "xs"} \subseteq h, {"dss", "xs"} \cap w = {},
         {"dvs"} \cap r = {}, h2 \subseteq h \cup {"dvs", "xs"}
  PROVE  Leads(BackNew, h, r, w, h2, r2, w2)
<1>1. Leads(Get({"xs", "dss"}), h, r, w, h, r \cup {"dss", "xs"}, w)
  BY GetLeads
<1>2. Leads(Put({"dvs"}), h, r \cup {"dss", "xs"}, w, h \cup {"dvs"}, r \cup {"dss", "xs"}, w \cup {"dvs"})
  BY PutLeads
<1>3. Leads(Sync, h \cup {"dvs"}, r \cup {"dss", "xs"}, w \cup {"dvs"}, h \cup {"dvs"}, {}, {})
  BY SyncLeads
<1>4. Leads(Put({"xs"}), h \cup {"dvs"}, {}, {}, h \cup {"dvs", "xs"}, {}, {"xs"})
  BY PutLeads
<1>5. Leads(Get({"xs", "dss"}) \o Put({"dvs"}) \o Sync \o Put({"xs"}), h, r, w, h \cup {"dvs", "xs"}, {}, {"xs"})
  BY <1>1, <1>2, <1>3, <1>4, Then
<1>6. Leads(Sync, h \cup {"dvs", "xs"}, {}, {"xs"}, h2, r2, w2)
  BY SyncLeads
<1> QED BY <1>5, <1>6, Then DEF BackNew

(* BackPass reads dos, dvs, xs and ys, put before; first puts dss; leaves  *)
(* dss put; ends at a barrier.                                             *)
LEMMA BackPassLeads ==
  ASSUME NEW h, NEW r, NEW w, NEW h2, NEW r2, NEW w2, {"dos", "dvs", "xs", "ys"} \subseteq h,
         {"dos", "dvs", "xs", "ys"} \cap w = {}, {"dss"} \cap r = {}, h2 \subseteq h \cup {"dss"}
  PROVE  Leads(BackPass, h, r, w, h2, r2, w2)
<1>1. Leads(Get({"dos", "dvs", "xs", "ys"}), h, r, w, h, r \cup {"dos", "dvs", "xs", "ys"}, w)
  BY GetLeads
<1>2. Leads(Put({"dss"}), h, r \cup {"dos", "dvs", "xs", "ys"}, w,
            h \cup {"dss"}, r \cup {"dos", "dvs", "xs", "ys"}, w \cup {"dss"})
  BY PutLeads
<1>3. Leads(Sync, h \cup {"dss"}, r \cup {"dos", "dvs", "xs", "ys"}, w \cup {"dss"}, h2, r2, w2)
  BY SyncLeads
<1> QED BY <1>1, <1>2, <1>3, Then DEF BackPass

(* StateBackward first puts dos, dss, xs and ys; ends at a barrier.        *)
LEMMA StateBackwardLeads ==
  ASSUME NEW h, NEW r, NEW w, NEW h2, NEW r2, NEW w2, {"dos", "dss", "xs", "ys"} \cap r = {}, h2 \subseteq h
  PROVE  Leads(StateBackward, h, r, w, h2, r2, w2)
<1>1. Leads(Put({"dss"}), h, r, w, h \cup {"dss"}, r, w \cup {"dss"})
  BY PutLeads
<1>2. Leads(Twice(BackFill \o BackNew \o BackPass), h \cup {"dss"}, r, w \cup {"dss"}, h \cup {"dss"}, {}, {})
  <2>1. Leads((BackFill \o BackNew \o BackPass), h \cup {"dss"}, r, w \cup {"dss"}, h \cup {"dss"}, {}, {})
    <3>1. Leads(BackFill, h \cup {"dss"}, r, w \cup {"dss"}, h \cup {"dos", "dss", "xs", "ys"}, {}, {})
      BY BackFillLeads
    <3>2. Leads(BackNew, h \cup {"dos", "dss", "xs", "ys"}, {}, {},
                h \cup {"dos", "dss", "dvs", "xs", "ys"}, {}, {})
      BY BackNewLeads
    <3>3. Leads(BackPass, h \cup {"dos", "dss", "dvs", "xs", "ys"}, {}, {}, h \cup {"dss"}, {}, {})
      BY BackPassLeads
    <3> QED BY <3>1, <3>2, <3>3, Then
  <2> QED BY <2>1, TwiceLeads
<1>3. Leads(Put({"dss"}) \o Twice(BackFill \o BackNew \o BackPass), h, r, w, h \cup {"dss"}, {}, {})
  BY <1>1, <1>2, Then
<1> QED BY <1>3, Weaken DEF StateBackward

(* LoadRows first puts dst; leaves dst put; ends at a barrier.             *)
LEMMA LoadRowsLeads ==
  ASSUME NEW dst, dst # "norm", NEW h, NEW r, NEW w, NEW h2, NEW r2, NEW w2, {dst} \cap r = {},
         h2 \subseteq h \cup {dst}
  PROVE  Leads(LoadRows(dst), h, r, w, h2, r2, w2)
<1>1. Leads(Put({dst}), h, r, w, h \cup {dst}, r, w \cup {dst})
  BY PutLeads
<1>2. Leads(Sync, h \cup {dst}, r, w \cup {dst}, h \cup {dst}, {}, {})
  BY SyncLeads
<1>3. Leads(GetBy(RowUnits, {dst}), h \cup {dst}, {}, {}, h \cup {dst}, {dst}, {})
  BY GetByLeads
<1>4. Leads(PutBy(RowUnits, {"norm"}), h \cup {dst}, {dst}, {}, h \cup {"norm", dst}, {dst}, {"norm"})
  BY PutByLeads
<1>5. Leads(Put({dst}) \o Sync \o GetBy(RowUnits, {dst}) \o PutBy(RowUnits, {"norm"}), h, r, w,
            h \cup {"norm", dst}, {dst}, {"norm"})
  BY <1>1, <1>2, <1>3, <1>4, Then
<1>6. Leads(Sync, h \cup {"norm", dst}, {dst}, {"norm"}, h \cup {"norm", dst}, {}, {})
  BY SyncLeads
<1>7. Leads(Get({"norm"}), h \cup {"norm", dst}, {}, {}, h \cup {dst}, {"norm"}, {})
  BY GetLeads
<1>8. Leads(Put({dst}), h \cup {dst}, {"norm"}, {}, h \cup {dst}, {"norm"}, {dst})
  BY PutLeads
<1>9. Leads(Put({dst}) \o Sync \o GetBy(RowUnits, {dst}) \o PutBy(RowUnits, {"norm"}) \o Sync \o Get({"norm"}) \o
            Put({dst}), h, r, w,
            h \cup {dst}, {"norm"}, {dst})
  BY <1>5, <1>6, <1>7, <1>8, Then
<1>10. Leads(Sync, h \cup {dst}, {"norm"}, {dst}, h2, r2, w2)
  BY SyncLeads
<1> QED BY <1>9, <1>10, Then DEF LoadRows

(* DiagonalT reads am and tm, put before; first puts tm_diag; leaves       *)
(* tm_diag put; ends at a barrier.                                         *)
LEMMA DiagonalTLeads ==
  ASSUME NEW h, NEW r, NEW w, NEW h2, NEW r2, NEW w2, {"am", "tm"} \subseteq h, {"am", "tm"} \cap w = {},
         {"tm_diag"} \cap r = {}, h2 \subseteq h \cup {"tm_diag"}
  PROVE  Leads(DiagonalT, h, r, w, h2, r2, w2)
<1>1. Leads(GetBy(RowUnits, {"am", "tm"}), h, r, w, h, r \cup {"am", "tm"}, w)
  BY GetByLeads
<1>2. Leads(PutBy(RowUnits, {"tm_diag"}), h, r \cup {"am", "tm"}, w,
            h \cup {"tm_diag"}, r \cup {"am", "tm"}, w \cup {"tm_diag"})
  BY PutByLeads
<1>3. Leads(Sync, h \cup {"tm_diag"}, r \cup {"am", "tm"}, w \cup {"tm_diag"}, h2, r2, w2)
  BY SyncLeads
<1> QED BY <1>1, <1>2, <1>3, Then DEF DiagonalT

(* BlockRows reads am, tm and tm_diag, put before; first puts am_free;     *)
(* leaves tm_row put; ends at a barrier.                                   *)
LEMMA BlockRowsLeads ==
  ASSUME NEW h, NEW r, NEW w, NEW h2, NEW r2, NEW w2, {"am", "tm", "tm_diag"} \subseteq h,
         {"am", "tm", "tm_diag"} \cap w = {}, {"am_free"} \cap r = {}, h2 \subseteq h \cup {"tm_row"}
  PROVE  Leads(BlockRows, h, r, w, h2, r2, w2)
<1>1. Leads(Twice(Get({"am", "tm", "tm_diag"}) \o Put({"am_free"}) \o Sync \o Get({"am_free", "tm_diag"}) \o
            Put({"tm_row"}) \o Sync), h, r, w,
            h \cup {"tm_row"}, {}, {})
  <2>1. Leads((Get({"am", "tm", "tm_diag"}) \o Put({"am_free"}) \o Sync \o Get({"am_free", "tm_diag"}) \o
              Put({"tm_row"}) \o Sync), h, r, w,
              h \cup {"tm_row"}, {}, {})
    <3>1. Leads(Get({"am", "tm", "tm_diag"}), h, r, w, h, r \cup {"am", "tm", "tm_diag"}, w)
      BY GetLeads
    <3>2. Leads(Put({"am_free"}), h, r \cup {"am", "tm", "tm_diag"}, w,
                h \cup {"am_free"}, r \cup {"am", "tm", "tm_diag"}, w \cup {"am_free"})
      BY PutLeads
    <3>3. Leads(Sync, h \cup {"am_free"}, r \cup {"am", "tm", "tm_diag"}, w \cup {"am_free"},
                h \cup {"am_free"}, {}, {})
      BY SyncLeads
    <3>4. Leads(Get({"am_free", "tm_diag"}), h \cup {"am_free"}, {}, {}, h, {"am_free", "tm_diag"}, {})
      BY GetLeads
    <3>5. Leads(Get({"am", "tm", "tm_diag"}) \o Put({"am_free"}) \o Sync \o Get({"am_free", "tm_diag"}), h, r, w,
                h, {"am_free", "tm_diag"}, {})
      BY <3>1, <3>2, <3>3, <3>4, Then
    <3>6. Leads(Put({"tm_row"}), h, {"am_free", "tm_diag"}, {},
                h \cup {"tm_row"}, {"am_free", "tm_diag"}, {"tm_row"})
      BY PutLeads
    <3>7. Leads(Sync, h \cup {"tm_row"}, {"am_free", "tm_diag"}, {"tm_row"}, h \cup {"tm_row"}, {}, {})
      BY SyncLeads
    <3> QED BY <3>5, <3>6, <3>7, Then
  <2> QED BY <2>1, TwiceLeads
<1> QED BY <1>1, Weaken DEF BlockRows

(* PrepA first puts bs, gs and rows; leaves am, bs, gcs, rows and tm put;  *)
(* ends at a barrier.                                                      *)
LEMMA PrepALeads ==
  ASSUME NEW h, NEW r, NEW w, NEW h2, NEW r2, NEW w2, {"bs", "gs", "rows"} \cap r = {},
         h2 \subseteq h \cup {"am", "bs", "gcs", "rows", "tm"}
  PROVE  Leads(PrepA, h, r, w, h2, r2, w2)
<1>1. Leads(PutBy(RowUnits, {"gs", "bs"}), h, r, w, h \cup {"bs", "gs"}, r, w \cup {"bs", "gs"})
  BY PutByLeads
<1>2. Leads(LoadRows("rows"), h \cup {"bs", "gs"}, r, w \cup {"bs", "gs"}, h \cup {"bs", "gs", "rows"}, {}, {})
  BY LoadRowsLeads
<1>3. Leads(GetBy(Lead, {"gs"}), h \cup {"bs", "gs", "rows"}, {}, {}, h \cup {"bs", "rows"}, {"gs"}, {})
  BY GetByLeads
<1>4. Leads(PutBy(Lead, {"gcs"}), h \cup {"bs", "rows"}, {"gs"}, {}, h \cup {"bs", "gcs", "rows"}, {"gs"}, {"gcs"})
  BY PutByLeads
<1>5. Leads(PutBy(RowUnits, {"gs", "bs"}) \o LoadRows("rows") \o GetBy(Lead, {"gs"}) \o PutBy(Lead, {"gcs"}), h, r,
            w,
            h \cup {"bs", "gcs", "rows"}, {"gs"}, {"gcs"})
  BY <1>1, <1>2, <1>3, <1>4, Then
<1>6. Leads(Sync, h \cup {"bs", "gcs", "rows"}, {"gs"}, {"gcs"}, h \cup {"bs", "gcs", "rows"}, {}, {})
  BY SyncLeads
<1>7. Leads(Get({"rows", "bs", "gcs"}), h \cup {"bs", "gcs", "rows"}, {}, {},
            h \cup {"bs", "gcs", "rows"}, {"bs", "gcs", "rows"}, {})
  BY GetLeads
<1>8. Leads(Put({"am"}), h \cup {"bs", "gcs", "rows"}, {"bs", "gcs", "rows"}, {},
            h \cup {"am", "bs", "gcs", "rows"}, {"bs", "gcs", "rows"}, {"am"})
  BY PutLeads
<1>9. Leads(PutBy(RowUnits, {"gs", "bs"}) \o LoadRows("rows") \o GetBy(Lead, {"gs"}) \o PutBy(Lead, {"gcs"}) \o Sync
            \o Get({"rows", "bs", "gcs"}) \o Put({"am"}), h, r, w,
            h \cup {"am", "bs", "gcs", "rows"}, {"bs", "gcs", "rows"}, {"am"})
  BY <1>5, <1>6, <1>7, <1>8, Then
<1>10. Leads(Sync, h \cup {"am", "bs", "gcs", "rows"}, {"bs", "gcs", "rows"}, {"am"},
             h \cup {"am", "bs", "gcs", "rows"}, {}, {})
  BY SyncLeads
<1>11. Leads(Put({"tm"}), h \cup {"am", "bs", "gcs", "rows"}, {}, {},
             h \cup {"am", "bs", "gcs", "rows", "tm"}, {}, {"tm"})
  BY PutLeads
<1>12. Leads(Sync, h \cup {"am", "bs", "gcs", "rows", "tm"}, {}, {"tm"}, h2, r2, w2)
  BY SyncLeads
<1> QED BY <1>9, <1>10, <1>11, <1>12, Then DEF PrepA

(* PrepWU reads am, bs, gcs, rows, tm_diag and tm_row, put before; ends    *)
(* after a barrier with bs, rows, tm_diag and tm_row touched.              *)
LEMMA PrepWULeads ==
  ASSUME NEW h, NEW r, NEW w, NEW h2, NEW r2, NEW w2, {"am", "bs", "gcs", "rows", "tm_diag", "tm_row"} \subseteq h,
         {"am", "bs", "gcs", "rows", "tm_diag", "tm_row"} \cap w = {}, h2 \subseteq h,
         {"bs", "rows", "tm_diag", "tm_row"} \subseteq r2
  PROVE  Leads(PrepWU, h, r, w, h2, r2, w2)
<1>1. Leads(Get({"tm_row", "tm_diag", "am", "bs", "gcs", "rows"}), h, r, w,
            h, r \cup {"am", "bs", "gcs", "rows", "tm_diag", "tm_row"}, w)
  BY GetLeads
<1>2. Leads(Sync, h, r \cup {"am", "bs", "gcs", "rows", "tm_diag", "tm_row"}, w, h, {}, {})
  BY SyncLeads
<1>3. Leads(LoadRows("rows"), h, {}, {}, h \cup {"rows"}, {}, {})
  BY LoadRowsLeads
<1>4. Leads(Get({"tm_row", "tm_diag", "bs", "rows"}), h \cup {"rows"}, {}, {}, h2, r2, w2)
  BY GetLeads
<1> QED BY <1>1, <1>2, <1>3, <1>4, Then DEF PrepWU

(* Prep first puts bs, gs and rows; ends after a barrier with bs, rows,    *)
(* tm_diag and tm_row touched.                                             *)
LEMMA PrepLeads ==
  ASSUME NEW h, NEW r, NEW w, NEW h2, NEW r2, NEW w2, {"bs", "gs", "rows"} \cap r = {}, h2 \subseteq h,
         {"bs", "rows", "tm_diag", "tm_row"} \subseteq r2
  PROVE  Leads(Prep, h, r, w, h2, r2, w2)
<1>1. Leads(PrepA, h, r, w, h \cup {"am", "bs", "gcs", "rows", "tm"}, {}, {})
  BY PrepALeads
<1>2. Leads(DiagonalT, h \cup {"am", "bs", "gcs", "rows", "tm"}, {}, {},
            h \cup {"am", "bs", "gcs", "rows", "tm", "tm_diag"}, {}, {})
  BY DiagonalTLeads
<1>3. Leads(BlockRows, h \cup {"am", "bs", "gcs", "rows", "tm", "tm_diag"}, {}, {},
            h \cup {"am", "bs", "gcs", "rows", "tm_diag", "tm_row"}, {}, {})
  BY BlockRowsLeads
<1>4. Leads(PrepWU, h \cup {"am", "bs", "gcs", "rows", "tm_diag", "tm_row"}, {}, {}, h2, r2, w2)
  BY PrepWULeads
<1> QED BY <1>1, <1>2, <1>3, <1>4, Then DEF Prep

(* ScoresP first puts gs and qs; leaves gs, pm and qs put; ends after a    *)
(* barrier with gs, ks, pm and qs touched.                                 *)
LEMMA ScoresPLeads ==
  ASSUME NEW h, NEW r, NEW w, NEW h2, NEW r2, NEW w2, {"gs", "qs"} \cap r = {},
         h2 \subseteq h \cup {"gs", "pm", "qs"}, {"gs", "ks", "qs"} \subseteq r2, {"pm"} \subseteq w2
  PROVE  Leads(ScoresP, h, r, w, h2, r2, w2)
<1>1. Leads(PutBy(RowUnits, {"gs"}), h, r, w, h \cup {"gs"}, r, w \cup {"gs"})
  BY PutByLeads
<1>2. Leads(LoadRows("qs"), h \cup {"gs"}, r, w \cup {"gs"}, h \cup {"gs", "qs"}, {}, {})
  BY LoadRowsLeads
<1>3. Leads(LoadRows("ks"), h \cup {"gs", "qs"}, {}, {}, h \cup {"gs", "ks", "qs"}, {}, {})
  BY LoadRowsLeads
<1>4. Leads(Get({"qs", "ks", "gs"}), h \cup {"gs", "ks", "qs"}, {}, {}, h \cup {"gs", "qs"}, {"gs", "ks", "qs"}, {})
  BY GetLeads
<1>5. Leads(PutBy(RowUnits, {"gs"}) \o LoadRows("qs") \o LoadRows("ks") \o Get({"qs", "ks", "gs"}), h, r, w,
            h \cup {"gs", "qs"}, {"gs", "ks", "qs"}, {})
  BY <1>1, <1>2, <1>3, <1>4, Then
<1>6. Leads(Put({"pm"}), h \cup {"gs", "qs"}, {"gs", "ks", "qs"}, {}, h2, r2, w2)
  BY PutLeads
<1> QED BY <1>5, <1>6, Then DEF ScoresP

(* OutputP first puts gs and qs; leaves pm and qs put; ends at a barrier.  *)
LEMMA OutputPLeads ==
  ASSUME NEW h, NEW r, NEW w, NEW h2, NEW r2, NEW w2, {"gs", "qs"} \cap r = {}, h2 \subseteq h \cup {"pm", "qs"}
  PROVE  Leads(OutputP, h, r, w, h2, r2, w2)
<1>1. Leads(ScoresP, h, r, w, h \cup {"gs", "pm", "qs"}, {"gs", "ks", "qs"}, {"pm"})
  BY ScoresPLeads
<1>2. Leads(Sync, h \cup {"gs", "pm", "qs"}, {"gs", "ks", "qs"}, {"pm"}, h \cup {"gs", "pm", "qs"}, {}, {})
  BY SyncLeads
<1>3. Leads(Get({"gs"}), h \cup {"gs", "pm", "qs"}, {}, {}, h \cup {"pm", "qs"}, {"gs"}, {})
  BY GetLeads
<1>4. Leads(Put({"qs"}), h \cup {"pm", "qs"}, {"gs"}, {}, h \cup {"pm", "qs"}, {"gs"}, {"qs"})
  BY PutLeads
<1>5. Leads(ScoresP \o Sync \o Get({"gs"}) \o Put({"qs"}), h, r, w, h \cup {"pm", "qs"}, {"gs"}, {"qs"})
  BY <1>1, <1>2, <1>3, <1>4, Then
<1>6. Leads(Sync, h \cup {"pm", "qs"}, {"gs"}, {"qs"}, h2, r2, w2)
  BY SyncLeads
<1> QED BY <1>5, <1>6, Then DEF OutputP

(* Streamed reads with, put before; first puts ks; ends at a barrier.      *)
LEMMA StreamedLeads ==
  ASSUME NEW with, NEW h, NEW r, NEW w, NEW h2, NEW r2, NEW w2, with \subseteq h, {"ks"} \cap r = {},
         h2 \subseteq h
  PROVE  Leads(Streamed(with), h, r, w, h2, r2, w2)
<1>1. Leads(Twice(Put({"ks"}) \o Sync \o Get({"ks"} \cup with) \o Sync), h, r, w, h, {}, {})
  <2>1. Leads((Put({"ks"}) \o Sync \o Get({"ks"} \cup with) \o Sync), h, r, w, h, {}, {})
    <3>1. Leads(Put({"ks"}), h, r, w, h \cup {"ks"}, r, w \cup {"ks"})
      BY PutLeads
    <3>2. Leads(Sync, h \cup {"ks"}, r, w \cup {"ks"}, h \cup {"ks"}, {}, {})
      BY SyncLeads
    <3>3. Leads(Get({"ks"} \cup with), h \cup {"ks"}, {}, {}, h, {"ks"} \cup with, {})
      BY GetLeads
    <3>4. Leads(Sync, h, {"ks"} \cup with, {}, h, {}, {})
      BY SyncLeads
    <3> QED BY <3>1, <3>2, <3>3, <3>4, Then
  <2> QED BY <2>1, TwiceLeads
<1> QED BY <1>1, Weaken DEF Streamed

(* OutputSum reads pm and qs, put before; first puts ks; ends at a barrier.*)
LEMMA OutputSumLeads ==
  ASSUME NEW h, NEW r, NEW w, NEW h2, NEW r2, NEW w2, {"pm", "qs"} \subseteq h, {"ks"} \cap r = {}, h2 \subseteq h
  PROVE  Leads(OutputSum, h, r, w, h2, r2, w2)
<1>1. Leads(Streamed({"qs"}), h, r, w, h, {}, {})
  BY StreamedLeads
<1>2. Leads(Streamed({"pm"}), h, {}, {}, h2, r2, w2)
  BY StreamedLeads
<1> QED BY <1>1, <1>2, Then DEF OutputSum

(* Output first puts gs and qs; ends at a barrier.                         *)
LEMMA OutputLeads ==
  ASSUME NEW h, NEW r, NEW w, NEW h2, NEW r2, NEW w2, {"gs", "qs"} \cap r = {}, h2 \subseteq h
  PROVE  Leads(Output, h, r, w, h2, r2, w2)
<1>1. Leads(OutputP, h, r, w, h \cup {"pm", "qs"}, {}, {})
  BY OutputPLeads
<1>2. Leads(OutputSum, h \cup {"pm", "qs"}, {}, {}, h2, r2, w2)
  BY OutputSumLeads
<1> QED BY <1>1, <1>2, Then DEF Output

(* DvLocal first puts gs and qs; ends at a barrier.                        *)
LEMMA DvLocalLeads ==
  ASSUME NEW h, NEW r, NEW w, NEW h2, NEW r2, NEW w2, {"gs", "qs"} \cap r = {}, h2 \subseteq h
  PROVE  Leads(DvLocal, h, r, w, h2, r2, w2)
<1>1. Leads(ScoresP, h, r, w, h \cup {"gs", "pm", "qs"}, {"gs", "ks", "qs"}, {"pm"})
  BY ScoresPLeads
<1>2. Leads(Get({"qs", "gs"}), h \cup {"gs", "pm", "qs"}, {"gs", "ks", "qs"}, {"pm"},
            h \cup {"pm"}, {"gs", "ks", "qs"}, {"pm"})
  BY GetLeads
<1>3. Leads(Sync, h \cup {"pm"}, {"gs", "ks", "qs"}, {"pm"}, h \cup {"pm"}, {}, {})
  BY SyncLeads
<1>4. Leads(Streamed({"pm"}), h \cup {"pm"}, {}, {}, h2, r2, w2)
  BY StreamedLeads
<1> QED BY <1>1, <1>2, <1>3, <1>4, Then DEF DvLocal

(* Dvb first puts bs, ds and tm; ends after a barrier with red touched.    *)
LEMMA DvbLeads ==
  ASSUME NEW h, NEW r, NEW w, NEW h2, NEW r2, NEW w2, {"bs", "ds", "tm"} \cap r = {}, h2 \subseteq h,
         {"red"} \subseteq r2
  PROVE  Leads(Dvb, h, r, w, h2, r2, w2)
<1>1. Leads(Put({"tm", "ds"}), h, r, w, h \cup {"ds", "tm"}, r, w \cup {"ds", "tm"})
  BY PutLeads
<1>2. Leads(PutBy(RowUnits, {"bs"}), h \cup {"ds", "tm"}, r, w \cup {"ds", "tm"},
            h \cup {"bs", "ds", "tm"}, r, w \cup {"bs", "ds", "tm"})
  BY PutByLeads
<1>3. Leads(Sync, h \cup {"bs", "ds", "tm"}, r, w \cup {"bs", "ds", "tm"}, h \cup {"bs", "ds", "tm"}, {}, {})
  BY SyncLeads
<1>4. Leads(Get({"tm", "ds", "bs"}), h \cup {"bs", "ds", "tm"}, {}, {}, h, {"bs", "ds", "tm"}, {})
  BY GetLeads
<1>5. Leads(Put({"tm", "ds"}) \o PutBy(RowUnits, {"bs"}) \o Sync \o Get({"tm", "ds", "bs"}), h, r, w,
            h, {"bs", "ds", "tm"}, {})
  BY <1>1, <1>2, <1>3, <1>4, Then
<1>6. Leads(Put({"red"}), h, {"bs", "ds", "tm"}, {}, h \cup {"red"}, {"bs", "ds", "tm"}, {"red"})
  BY PutLeads
<1>7. Leads(Sync, h \cup {"red"}, {"bs", "ds", "tm"}, {"red"}, h \cup {"red"}, {}, {})
  BY SyncLeads
<1>8. Leads(GetBy(RowUnits, {"red"}), h \cup {"red"}, {}, {}, h2, r2, w2)
  BY GetByLeads
<1> QED BY <1>5, <1>6, <1>7, <1>8, Then DEF Dvb

(* ByValues first puts bufs; ends at a barrier.                            *)
LEMMA ByValuesLeads ==
  ASSUME NEW bufs, NEW h, NEW r, NEW w, NEW h2, NEW r2, NEW w2, bufs \cap r = {}, h2 \subseteq h
  PROVE  Leads(ByValues(bufs), h, r, w, h2, r2, w2)
<1>1. Leads(Twice(Put(bufs) \o Sync \o Get(bufs) \o Sync), h, r, w, h, {}, {})
  <2>1. Leads((Put(bufs) \o Sync \o Get(bufs) \o Sync), h, r, w, h, {}, {})
    <3>1. Leads(Put(bufs), h, r, w, h \cup bufs, r, w \cup bufs)
      BY PutLeads
    <3>2. Leads(Sync, h \cup bufs, r, w \cup bufs, h \cup bufs, {}, {})
      BY SyncLeads
    <3>3. Leads(Get(bufs), h \cup bufs, {}, {}, h, bufs, {})
      BY GetLeads
    <3>4. Leads(Sync, h, bufs, {}, h, {}, {})
      BY SyncLeads
    <3> QED BY <3>1, <3>2, <3>3, <3>4, Then
  <2> QED BY <2>1, TwiceLeads
<1> QED BY <1>1, Weaken DEF ByValues

(* DState first puts sd, so, ss, sv and sz; ends after a barrier with red  *)
(* touched.                                                                *)
LEMMA DStateLeads ==
  ASSUME NEW h, NEW r, NEW w, NEW h2, NEW r2, NEW w2, {"sd", "so", "ss", "sv", "sz"} \cap r = {}, h2 \subseteq h,
         {"red"} \subseteq r2
  PROVE  Leads(DState, h, r, w, h2, r2, w2)
<1>1. Leads(ByValues(Blocks), h, r, w, h, {}, {})
  BY ByValuesLeads DEF Blocks
<1>2. Leads(Put({"red"}), h, {}, {}, h \cup {"red"}, {}, {"red"})
  BY PutLeads
<1>3. Leads(Sync, h \cup {"red"}, {}, {"red"}, h \cup {"red"}, {}, {})
  BY SyncLeads
<1>4. Leads(GetBy(Lead, {"red"}), h \cup {"red"}, {}, {}, h2, r2, w2)
  BY GetByLeads
<1> QED BY <1>1, <1>2, <1>3, <1>4, Then DEF DState

(* DAttnScores first puts gs and r4; leaves gs, ks and qs put; ends at a   *)
(* barrier.                                                                *)
LEMMA DAttnScoresLeads ==
  ASSUME NEW h, NEW r, NEW w, NEW h2, NEW r2, NEW w2, {"gs", "r4"} \cap r = {},
         h2 \subseteq h \cup {"gs", "ks", "qs"}
  PROVE  Leads(DAttnScores, h, r, w, h2, r2, w2)
<1>1. Leads(PutBy(RowUnits, {"gs"}), h, r, w, h \cup {"gs"}, r, w \cup {"gs"})
  BY PutByLeads
<1>2. Leads(ByValues({"r4"}), h \cup {"gs"}, r, w \cup {"gs"}, h \cup {"gs"}, {}, {})
  BY ByValuesLeads
<1>3. Leads(Put({"dpm"}), h \cup {"gs"}, {}, {}, h \cup {"gs"}, {}, {"dpm"})
  BY PutLeads
<1>4. Leads(LoadRows("qs"), h \cup {"gs"}, {}, {"dpm"}, h \cup {"gs", "qs"}, {}, {})
  BY LoadRowsLeads
<1>5. Leads(PutBy(RowUnits, {"gs"}) \o ByValues({"r4"}) \o Put({"dpm"}) \o LoadRows("qs"), h, r, w,
            h \cup {"gs", "qs"}, {}, {})
  BY <1>1, <1>2, <1>3, <1>4, Then
<1>6. Leads(LoadRows("ks"), h \cup {"gs", "qs"}, {}, {}, h2, r2, w2)
  BY LoadRowsLeads
<1> QED BY <1>5, <1>6, Then DEF DAttnScores

(* DAttnSums reads gs, ks and qs, put before; first puts dpm and r4; ends  *)
(* after a barrier with dpm, ks, qs and r4 touched.                        *)
LEMMA DAttnSumsLeads ==
  ASSUME NEW h, NEW r, NEW w, NEW h2, NEW r2, NEW w2, {"gs", "ks", "qs"} \subseteq h,
         {"gs", "ks", "qs"} \cap w = {}, {"dpm", "r4"} \cap r = {}, h2 \subseteq h,
         {"dpm", "ks", "qs", "r4"} \subseteq r2
  PROVE  Leads(DAttnSums, h, r, w, h2, r2, w2)
<1>1. Leads(Get({"qs", "ks", "gs"}), h, r, w, h, r \cup {"gs", "ks", "qs"}, w)
  BY GetLeads
<1>2. Leads(Put({"dpm", "r4"}), h, r \cup {"gs", "ks", "qs"}, w,
            h \cup {"dpm", "r4"}, r \cup {"gs", "ks", "qs"}, w \cup {"dpm", "r4"})
  BY PutLeads
<1>3. Leads(Sync, h \cup {"dpm", "r4"}, r \cup {"gs", "ks", "qs"}, w \cup {"dpm", "r4"},
            h \cup {"dpm", "r4"}, {}, {})
  BY SyncLeads
<1>4. Leads(GetBy(RowUnits, {"r4"}), h \cup {"dpm", "r4"}, {}, {}, h \cup {"dpm"}, {"r4"}, {})
  BY GetByLeads
<1>5. Leads(Get({"qs", "ks", "gs"}) \o Put({"dpm", "r4"}) \o Sync \o GetBy(RowUnits, {"r4"}), h, r, w,
            h \cup {"dpm"}, {"r4"}, {})
  BY <1>1, <1>2, <1>3, <1>4, Then
<1>6. Leads(Get({"dpm", "ks", "qs"}), h \cup {"dpm"}, {"r4"}, {}, h2, r2, w2)
  BY GetLeads
<1> QED BY <1>5, <1>6, Then DEF DAttnSums

(* DAttn first puts gs and r4; ends after a barrier with dpm, ks, qs and r4*)
(* touched.                                                                *)
LEMMA DAttnLeads ==
  ASSUME NEW h, NEW r, NEW w, NEW h2, NEW r2, NEW w2, {"gs", "r4"} \cap r = {}, h2 \subseteq h,
         {"dpm", "ks", "qs", "r4"} \subseteq r2
  PROVE  Leads(DAttn, h, r, w, h2, r2, w2)
<1>1. Leads(DAttnScores, h, r, w, h \cup {"gs", "ks", "qs"}, {}, {})
  BY DAttnScoresLeads
<1>2. Leads(DAttnSums, h \cup {"gs", "ks", "qs"}, {}, {}, h2, r2, w2)
  BY DAttnSumsLeads
<1> QED BY <1>1, <1>2, Then DEF DAttn

(* RowsProduct first puts blk; ends at a barrier.                          *)
LEMMA RowsProductLeads ==
  ASSUME NEW h, NEW r, NEW w, NEW h2, NEW r2, NEW w2, {"blk"} \cap r = {}, h2 \subseteq h
  PROVE  Leads(RowsProduct, h, r, w, h2, r2, w2)
BY ByValuesLeads DEF RowsProduct

(* DWyA first puts blk and bs; leaves bs, dam, ks and mam put; ends at a   *)
(* barrier.                                                                *)
LEMMA DWyALeads ==
  ASSUME NEW h, NEW r, NEW w, NEW h2, NEW r2, NEW w2, {"blk", "bs"} \cap r = {},
         h2 \subseteq h \cup {"bs", "dam", "ks", "mam"}
  PROVE  Leads(DWyA, h, r, w, h2, r2, w2)
<1>1. Leads(PutBy(RowUnits, {"bs"}), h, r, w, h \cup {"bs"}, r, w \cup {"bs"})
  BY PutByLeads
<1>2. Leads(RowsProduct, h \cup {"bs"}, r, w \cup {"bs"}, h \cup {"bs"}, {}, {})
  BY RowsProductLeads
<1>3. Leads(RowsProduct, h \cup {"bs"}, {}, {}, h \cup {"bs"}, {}, {})
  BY RowsProductLeads
<1>4. Leads(Put({"mam", "dam"}), h \cup {"bs"}, {}, {}, h \cup {"bs", "dam", "mam"}, {}, {"dam", "mam"})
  BY PutLeads
<1>5. Leads(PutBy(RowUnits, {"bs"}) \o RowsProduct \o RowsProduct \o Put({"mam", "dam"}), h, r, w,
            h \cup {"bs", "dam", "mam"}, {}, {"dam", "mam"})
  BY <1>1, <1>2, <1>3, <1>4, Then
<1>6. Leads(LoadRows("ks"), h \cup {"bs", "dam", "mam"}, {}, {"dam", "mam"}, h2, r2, w2)
  BY LoadRowsLeads
<1> QED BY <1>5, <1>6, Then DEF DWyA

(* DWySums reads bs, dam, ks and mam, put before; first puts red; ends     *)
(* after a barrier with red touched.                                       *)
LEMMA DWySumsLeads ==
  ASSUME NEW h, NEW r, NEW w, NEW h2, NEW r2, NEW w2, {"bs", "dam", "ks", "mam"} \subseteq h,
         {"bs", "dam", "ks", "mam"} \cap w = {}, {"red"} \cap r = {}, h2 \subseteq h, {"red"} \subseteq r2
  PROVE  Leads(DWySums, h, r, w, h2, r2, w2)
<1>1. Leads(GetBy(RowUnits, {"mam"}), h, r, w, h, r \cup {"mam"}, w)
  BY GetByLeads
<1>2. Leads(Get({"bs", "dam", "ks"}), h, r \cup {"mam"}, w, h, r \cup {"bs", "dam", "ks", "mam"}, w)
  BY GetLeads
<1>3. Leads(Put({"red"}), h, r \cup {"bs", "dam", "ks", "mam"}, w,
            h \cup {"red"}, r \cup {"bs", "dam", "ks", "mam"}, w \cup {"red"})
  BY PutLeads
<1>4. Leads(Sync, h \cup {"red"}, r \cup {"bs", "dam", "ks", "mam"}, w \cup {"red"}, h \cup {"red"}, {}, {})
  BY SyncLeads
<1>5. Leads(GetBy(RowUnits, {"mam"}) \o Get({"bs", "dam", "ks"}) \o Put({"red"}) \o Sync, h, r, w,
            h \cup {"red"}, {}, {})
  BY <1>1, <1>2, <1>3, <1>4, Then
<1>6. Leads(GetBy(RowUnits, {"red"}), h \cup {"red"}, {}, {}, h2, r2, w2)
  BY GetByLeads
<1> QED BY <1>5, <1>6, Then DEF DWySums

(* DWy first puts blk and bs; ends after a barrier with red touched.       *)
LEMMA DWyLeads ==
  ASSUME NEW h, NEW r, NEW w, NEW h2, NEW r2, NEW w2, {"blk", "bs"} \cap r = {}, h2 \subseteq h,
         {"red"} \subseteq r2
  PROVE  Leads(DWy, h, r, w, h2, r2, w2)
<1>1. Leads(DWyA, h, r, w, h \cup {"bs", "dam", "ks", "mam"}, {}, {})
  BY DWyALeads
<1>2. Leads(DWySums, h \cup {"bs", "dam", "ks", "mam"}, {}, {}, h2, r2, w2)
  BY DWySumsLeads
<1> QED BY <1>1, <1>2, Then DEF DWy

(* CombineSums first puts rb, rg and rl; ends after a barrier with dg and  *)
(* rb touched.                                                             *)
LEMMA CombineSumsLeads ==
  ASSUME NEW h, NEW r, NEW w, NEW h2, NEW r2, NEW w2, {"rb", "rg", "rl"} \cap r = {}, h2 \subseteq h,
         {"dg", "rb"} \subseteq r2
  PROVE  Leads(CombineSums, h, r, w, h2, r2, w2)
<1>1. Leads(Put({"rg", "rl", "rb"}), h, r, w, h \cup {"rb", "rg", "rl"}, r, w \cup {"rb", "rg", "rl"})
  BY PutLeads
<1>2. Leads(Sync, h \cup {"rb", "rg", "rl"}, r, w \cup {"rb", "rg", "rl"}, h \cup {"rb", "rg", "rl"}, {}, {})
  BY SyncLeads
<1>3. Leads(GetBy(Lead, {"rl", "rg"}), h \cup {"rb", "rg", "rl"}, {}, {}, h \cup {"rb"}, {"rg", "rl"}, {})
  BY GetByLeads
<1>4. Leads(PutBy(Lead, {"dg"}), h \cup {"rb"}, {"rg", "rl"}, {}, h \cup {"dg", "rb"}, {"rg", "rl"}, {"dg"})
  BY PutByLeads
<1>5. Leads(Put({"rg", "rl", "rb"}) \o Sync \o GetBy(Lead, {"rl", "rg"}) \o PutBy(Lead, {"dg"}), h, r, w,
            h \cup {"dg", "rb"}, {"rg", "rl"}, {"dg"})
  BY <1>1, <1>2, <1>3, <1>4, Then
<1>6. Leads(Sync, h \cup {"dg", "rb"}, {"rg", "rl"}, {"dg"}, h \cup {"dg", "rb"}, {}, {})
  BY SyncLeads
<1>7. Leads(GetBy(RowUnits, {"dg", "rb"}), h \cup {"dg", "rb"}, {}, {}, h2, r2, w2)
  BY GetByLeads
<1> QED BY <1>5, <1>6, <1>7, Then DEF CombineSums

(* StepNorms first puts squares; ends after a barrier with squares touched.*)
LEMMA StepNormsLeads ==
  ASSUME NEW h, NEW r, NEW w, NEW h2, NEW r2, NEW w2, {"squares"} \cap r = {}, h2 \subseteq h,
         {"squares"} \subseteq r2
  PROVE  Leads(StepNorms, h, r, w, h2, r2, w2)
<1> DEFINE first == Put({"squares"}) \o Sync
           column == ColumnBy(RowUnits, {"squares"})
           puts == PutBy(RowUnits, {"squares"})
<1>1. Leads(Put({"squares"}), h, r, w, h \cup {"squares"}, r, w \cup {"squares"})
  BY PutLeads
<1>2. Leads(Sync, h \cup {"squares"}, r, w \cup {"squares"}, h \cup {"squares"}, {}, {})
  BY SyncLeads
<1>3. Leads(first, h, r, w, h \cup {"squares"}, {}, {})
  BY <1>1, <1>2, Then
<1>4. Leads(column \o puts, h \cup {"squares"}, {}, {}, h \cup {"squares"}, {"squares"}, {"squares"})
  BY ColumnPutLeads
<1>5. Leads(Sync, h \cup {"squares"}, {"squares"}, {"squares"}, h \cup {"squares"}, {}, {})
  BY SyncLeads
<1>6. Leads(Get({"squares"}), h \cup {"squares"}, {}, {}, h2, r2, w2)
  BY GetLeads
<1>7. (first \o column) \o puts = first \o (column \o puts)
  <2>1. PICK N : first \in Seq(Accesses(N))
    BY <1>3 DEF Leads, IsPiece
  <2>2. column \in Seq(Accesses({"squares"})) /\ puts \in Seq(Accesses({"squares"}))
    BY DEF ColumnBy, PutBy, Accesses
  <2> DEFINE A == Accesses(N \cup {"squares"})
  <2>3. Accesses(N) \subseteq A /\ Accesses({"squares"}) \subseteq A
    BY DEF Accesses
  <2> HIDE DEF first, column, puts, A
  <2>4. first \in Seq(A) /\ column \in Seq(A) /\ puts \in Seq(A)
    BY <2>1, <2>2, <2>3, SeqMonotonic
  <2> QED BY <2>4, ConcatAssociative, Z3
<1>8. Leads((first \o column) \o puts, h, r, w, h \cup {"squares"}, {"squares"}, {"squares"})
  <2> HIDE DEF first, column, puts
  <2>1. Leads(first \o (column \o puts), h, r, w, h \cup {"squares"}, {"squares"}, {"squares"})
    BY <1>3, <1>4, Then
  <2> QED BY <1>7, <2>1
<1>9. Leads(((first \o column) \o puts) \o Sync, h, r, w, h \cup {"squares"}, {}, {})
  <2> HIDE DEF first, column, puts
  <2> QED BY <1>5, <1>8, Then
<1> QED BY <1>6, <1>9, Then DEF StepNorms

(* StepParts first puts kv_parts; ends after a barrier with out_parts      *)
(* touched.                                                                *)
LEMMA StepPartsLeads ==
  ASSUME NEW h, NEW r, NEW w, NEW h2, NEW r2, NEW w2, {"kv_parts"} \cap r = {}, h2 \subseteq h,
         {"out_parts"} \subseteq r2
  PROVE  Leads(StepParts, h, r, w, h2, r2, w2)
<1>1. Leads(Put({"kv_parts"}), h, r, w, h \cup {"kv_parts"}, r, w \cup {"kv_parts"})
  BY PutLeads
<1>2. Leads(Sync, h \cup {"kv_parts"}, r, w \cup {"kv_parts"}, h \cup {"kv_parts"}, {}, {})
  BY SyncLeads
<1>3. Leads(Get({"kv_parts"}), h \cup {"kv_parts"}, {}, {}, h, {"kv_parts"}, {})
  BY GetLeads
<1>4. Leads(Put({"out_parts"}), h, {"kv_parts"}, {}, h \cup {"out_parts"}, {"kv_parts"}, {"out_parts"})
  BY PutLeads
<1>5. Leads(Put({"kv_parts"}) \o Sync \o Get({"kv_parts"}) \o Put({"out_parts"}), h, r, w,
            h \cup {"out_parts"}, {"kv_parts"}, {"out_parts"})
  BY <1>1, <1>2, <1>3, <1>4, Then
<1>6. Leads(Sync, h \cup {"out_parts"}, {"kv_parts"}, {"out_parts"}, h \cup {"out_parts"}, {}, {})
  BY SyncLeads
<1>7. Leads(GetBy(RowUnits, {"out_parts"}), h \cup {"out_parts"}, {}, {}, h2, r2, w2)
  BY GetByLeads
<1> QED BY <1>5, <1>6, <1>7, Then DEF StepParts

(* Step ends after a barrier with out_parts touched.                       *)
LEMMA StepLeads ==
  ASSUME NEW norm \in BOOLEAN, NEW h, NEW r, NEW w, NEW h2, NEW r2, NEW w2, h2 \subseteq h,
         {"out_parts"} \subseteq r2
  PROVE  Leads(Step(norm), h, r, w, h2, r2, w2)
<1>1. Leads(Twice(Sync \o Put({"q", "k"}) \o (IF norm THEN StepNorms ELSE Sync) \o Get({"q", "k"}) \o StepParts), h,
            r, w,
            h, {"out_parts"}, {})
  <2>1. Leads((Sync \o Put({"q", "k"}) \o (IF norm THEN StepNorms ELSE Sync) \o Get({"q", "k"}) \o StepParts), h, r
              \cup {"out_parts"}, w,
              h, {"out_parts"}, {})
    <3>1. Leads(Sync, h, r \cup {"out_parts"}, w, h, {}, {})
      BY SyncLeads
    <3>2. Leads(Put({"q", "k"}), h, {}, {}, h \cup {"k", "q"}, {}, {"k", "q"})
      BY PutLeads
    <3>3. Leads(IF norm THEN StepNorms ELSE Sync, h \cup {"k", "q"}, {}, {"k", "q"},
                h \cup {"k", "q"}, {"squares"}, {})
      <4>1. Leads(StepNorms, h \cup {"k", "q"}, {}, {"k", "q"}, h \cup {"k", "q"}, {"squares"}, {})
        BY StepNormsLeads
      <4>2. Leads(Sync, h \cup {"k", "q"}, {}, {"k", "q"}, h \cup {"k", "q"}, {"squares"}, {})
        BY SyncLeads
      <4> QED BY <4>1, <4>2
    <3>4. Leads(Get({"q", "k"}), h \cup {"k", "q"}, {"squares"}, {}, h, {"k", "q", "squares"}, {})
      BY GetLeads
    <3>5. Leads(Sync \o Put({"q", "k"}) \o (IF norm THEN StepNorms ELSE Sync) \o Get({"q", "k"}), h, r \cup
                {"out_parts"}, w,
                h, {"k", "q", "squares"}, {})
      BY <3>1, <3>2, <3>3, <3>4, Then
    <3>6. Leads(StepParts, h, {"k", "q", "squares"}, {}, h, {"out_parts"}, {})
      BY StepPartsLeads
    <3> QED BY <3>5, <3>6, Then
  <2> QED BY <2>1, TwiceLeads
<1> QED BY <1>1, Weaken DEF Step

(* RowScales first puts norms and scratch; leaves norms put; ends at a     *)
(* barrier.                                                                *)
LEMMA RowScalesLeads ==
  ASSUME NEW norm \in BOOLEAN, NEW scratch, scratch # "norms", NEW h, NEW r, NEW w, NEW h2, NEW r2, NEW w2,
         {"norms", scratch} \cap r = {}, h2 \subseteq h \cup {"norms"}
  PROVE  Leads(RowScales(norm, scratch), h, r, w, h2, r2, w2)
<1>1. Leads(IF norm THEN Put({scratch}) \o Sync \o GetBy(RowUnits, {scratch}) ELSE <<>>, h, r, w,
            h, r \cup {scratch}, w)
  <2>1. Leads((Put({scratch}) \o Sync \o GetBy(RowUnits, {scratch})), h, r, w, h, r \cup {scratch}, w)
    <3>1. Leads(Put({scratch}), h, r, w, h \cup {scratch}, r, w \cup {scratch})
      BY PutLeads
    <3>2. Leads(Sync, h \cup {scratch}, r, w \cup {scratch}, h \cup {scratch}, {}, {})
      BY SyncLeads
    <3>3. Leads(GetBy(RowUnits, {scratch}), h \cup {scratch}, {}, {}, h, r \cup {scratch}, w)
      BY GetByLeads
    <3> QED BY <3>1, <3>2, <3>3, Then
  <2>2. Leads(<<>>, h, r, w, h, r \cup {scratch}, w)
    BY EmptyLeads
  <2> QED BY <2>1, <2>2
<1>2. Leads(PutBy(RowUnits, {"norms"}), h, r \cup {scratch}, w,
            h \cup {"norms"}, r \cup {scratch}, w \cup {"norms"})
  BY PutByLeads
<1>3. Leads(Sync, h \cup {"norms"}, r \cup {scratch}, w \cup {"norms"}, h2, r2, w2)
  BY SyncLeads
<1> QED BY <1>1, <1>2, <1>3, Then DEF RowScales

(* LoadCols reads norms, put before; first puts dst; leaves dst put; ends  *)
(* at a barrier.                                                           *)
LEMMA LoadColsLeads ==
  ASSUME NEW dst, dst # "norms", NEW h, NEW r, NEW w, NEW h2, NEW r2, NEW w2, {"norms"} \subseteq h,
         {"norms"} \cap w = {}, {dst} \cap r = {}, h2 \subseteq h \cup {dst}
  PROVE  Leads(LoadCols(dst), h, r, w, h2, r2, w2)
<1>1. Leads(Get({"norms"}), h, r, w, h, r \cup {"norms"}, w)
  BY GetLeads
<1>2. Leads(Put({dst}), h, r \cup {"norms"}, w, h \cup {dst}, r \cup {"norms"}, w \cup {dst})
  BY PutLeads
<1>3. Leads(Sync, h \cup {dst}, r \cup {"norms"}, w \cup {dst}, h2, r2, w2)
  BY SyncLeads
<1> QED BY <1>1, <1>2, <1>3, Then DEF LoadCols

(* StageColumns first puts st; leaves st put; ends at a barrier.           *)
LEMMA StageColumnsLeads ==
  ASSUME NEW h, NEW r, NEW w, NEW h2, NEW r2, NEW w2, {"st"} \cap r = {}, h2 \subseteq h \cup {"st"}
  PROVE  Leads(StageColumns, h, r, w, h2, r2, w2)
<1>1. Leads(Put({"st"}), h, r, w, h \cup {"st"}, r, w \cup {"st"})
  BY PutLeads
<1>2. Leads(Sync, h \cup {"st"}, r, w \cup {"st"}, h2, r2, w2)
  BY SyncLeads
<1> QED BY <1>1, <1>2, Then DEF StageColumns

(* WideScores reads gs and norms, put before; first puts qs; ends at a     *)
(* barrier.                                                                *)
LEMMA WideScoresLeads ==
  ASSUME NEW h, NEW r, NEW w, NEW h2, NEW r2, NEW w2, {"gs", "norms"} \subseteq h, {"norms"} \cap w = {},
         {"qs"} \cap r = {}, h2 \subseteq h
  PROVE  Leads(WideScores, h, r, w, h2, r2, w2)
<1>1. Leads(Twice(LoadCols("qs") \o LoadCols("ks") \o Get({"gs", "qs", "ks"}) \o Sync), h, r, w, h, {}, {})
  <2>1. Leads((LoadCols("qs") \o LoadCols("ks") \o Get({"gs", "qs", "ks"}) \o Sync), h, r, w, h, {}, {})
    <3>1. Leads(LoadCols("qs"), h, r, w, h \cup {"qs"}, {}, {})
      BY LoadColsLeads
    <3>2. Leads(LoadCols("ks"), h \cup {"qs"}, {}, {}, h \cup {"ks", "qs"}, {}, {})
      BY LoadColsLeads
    <3>3. Leads(Get({"gs", "qs", "ks"}), h \cup {"ks", "qs"}, {}, {}, h, {"gs", "ks", "qs"}, {})
      BY GetLeads
    <3>4. Leads(Sync, h, {"gs", "ks", "qs"}, {}, h, {}, {})
      BY SyncLeads
    <3> QED BY <3>1, <3>2, <3>3, <3>4, Then
  <2> QED BY <2>1, TwiceLeads
<1> QED BY <1>1, Weaken DEF WideScores

(* WideNew reads s, put before; first puts st; ends at a barrier.          *)
LEMMA WideNewLeads ==
  ASSUME NEW s, NEW h, NEW r, NEW w, NEW h2, NEW r2, NEW w2, s \subseteq h, {"st"} \cap r = {}, h2 \subseteq h
  PROVE  Leads(WideNew(s), h, r, w, h2, r2, w2)
<1>1. Leads(Put({"st"}), h, r, w, h \cup {"st"}, r, w \cup {"st"})
  BY PutLeads
<1>2. Leads(Sync, h \cup {"st"}, r, w \cup {"st"}, h \cup {"st"}, {}, {})
  BY SyncLeads
<1>3. Leads(Get({"st"} \cup s), h \cup {"st"}, {}, {}, h, {"st"} \cup s, {})
  BY GetLeads
<1>4. Leads(Sync, h, {"st"} \cup s, {}, h2, r2, w2)
  BY SyncLeads
<1> QED BY <1>1, <1>2, <1>3, <1>4, Then DEF WideNew

(* StateForwardWideNew reads ss0 and ss1, put before; first puts st; leaves*)
(* vs put; ends after a barrier with vs touched.                           *)
LEMMA StateForwardWideNewLeads ==
  ASSUME NEW h, NEW r, NEW w, NEW h2, NEW r2, NEW w2, {"ss0", "ss1"} \subseteq h, {"st"} \cap r = {},
         h2 \subseteq h \cup {"vs"}, {"vs"} \subseteq w2
  PROVE  Leads(StateForwardWideNew, h, r, w, h2, r2, w2)
<1>1. Leads(WideNew({"ss0"}), h, r, w, h, {}, {})
  BY WideNewLeads
<1>2. Leads(WideNew({"ss1"}), h, {}, {}, h, {}, {})
  BY WideNewLeads
<1>3. Leads(Put({"vs"}), h, {}, {}, h2, r2, w2)
  BY PutLeads
<1> QED BY <1>1, <1>2, <1>3, Then DEF StateForwardWideNew

(* StateForwardWidePass reads vs, put before; first puts st; leaves ss0 and*)
(* ss1 put; ends at a barrier.                                             *)
LEMMA StateForwardWidePassLeads ==
  ASSUME NEW h, NEW r, NEW w, NEW h2, NEW r2, NEW w2, {"vs"} \subseteq h, {"st"} \cap r = {},
         h2 \subseteq h \cup {"ss0", "ss1"}
  PROVE  Leads(StateForwardWidePass, h, r, w, h2, r2, w2)
<1>1. Leads(StageColumns, h, r, w, h \cup {"st"}, {}, {})
  BY StageColumnsLeads
<1>2. Leads(Get({"vs", "st"}), h \cup {"st"}, {}, {}, h \cup {"st"}, {"st", "vs"}, {})
  BY GetLeads
<1>3. Leads(Put({"ss0"}), h \cup {"st"}, {"st", "vs"}, {}, h \cup {"ss0", "st"}, {"st", "vs"}, {"ss0"})
  BY PutLeads
<1>4. Leads(Sync, h \cup {"ss0", "st"}, {"st", "vs"}, {"ss0"}, h \cup {"ss0", "st"}, {}, {})
  BY SyncLeads
<1>5. Leads(StageColumns \o Get({"vs", "st"}) \o Put({"ss0"}) \o Sync, h, r, w, h \cup {"ss0", "st"}, {}, {})
  BY <1>1, <1>2, <1>3, <1>4, Then
<1>6. Leads(StageColumns, h \cup {"ss0", "st"}, {}, {}, h \cup {"ss0", "st"}, {}, {})
  BY StageColumnsLeads
<1>7. Leads(Get({"vs", "st"}), h \cup {"ss0", "st"}, {}, {}, h \cup {"ss0"}, {"st", "vs"}, {})
  BY GetLeads
<1>8. Leads(Put({"ss1"}), h \cup {"ss0"}, {"st", "vs"}, {}, h \cup {"ss0", "ss1"}, {"st", "vs"}, {"ss1"})
  BY PutLeads
<1>9. Leads(StageColumns \o Get({"vs", "st"}) \o Put({"ss0"}) \o Sync \o StageColumns \o Get({"vs", "st"}) \o
            Put({"ss1"}), h, r, w,
            h \cup {"ss0", "ss1"}, {"st", "vs"}, {"ss1"})
  BY <1>5, <1>6, <1>7, <1>8, Then
<1>10. Leads(Sync, h \cup {"ss0", "ss1"}, {"st", "vs"}, {"ss1"}, h2, r2, w2)
  BY SyncLeads
<1> QED BY <1>9, <1>10, Then DEF StateForwardWidePass

(* StateForwardWide first puts ss0 and ss1; ends at a barrier.             *)
LEMMA StateForwardWideLeads ==
  ASSUME NEW h, NEW r, NEW w, NEW h2, NEW r2, NEW w2, {"ss0", "ss1"} \cap r = {}, h2 \subseteq h
  PROVE  Leads(StateForwardWide, h, r, w, h2, r2, w2)
<1>1. Leads(Put({"ss0", "ss1"}), h, r, w, h \cup {"ss0", "ss1"}, r, w \cup {"ss0", "ss1"})
  BY PutLeads
<1>2. Leads(Sync, h \cup {"ss0", "ss1"}, r, w \cup {"ss0", "ss1"}, h \cup {"ss0", "ss1"}, {}, {})
  BY SyncLeads
<1>3. Leads(Twice(StateForwardWideNew \o StateForwardWidePass), h \cup {"ss0", "ss1"}, {}, {},
            h \cup {"ss0", "ss1"}, {}, {})
  <2>1. Leads((StateForwardWideNew \o StateForwardWidePass), h \cup {"ss0", "ss1"}, {}, {},
              h \cup {"ss0", "ss1"}, {}, {})
    <3>1. Leads(StateForwardWideNew, h \cup {"ss0", "ss1"}, {}, {}, h \cup {"ss0", "ss1", "vs"}, {}, {"vs"})
      BY StateForwardWideNewLeads
    <3>2. Leads(StateForwardWidePass, h \cup {"ss0", "ss1", "vs"}, {}, {"vs"}, h \cup {"ss0", "ss1"}, {}, {})
      BY StateForwardWidePassLeads
    <3> QED BY <3>1, <3>2, Then
  <2> QED BY <2>1, TwiceLeads
<1>4. Leads(Put({"ss0", "ss1"}) \o Sync \o Twice(StateForwardWideNew \o StateForwardWidePass), h, r, w,
            h \cup {"ss0", "ss1"}, {}, {})
  BY <1>1, <1>2, <1>3, Then
<1> QED BY <1>4, Weaken DEF StateForwardWide

(* StateBackwardWideNew reads dss0 and dss1, put before; first puts dos and*)
(* st; leaves dos and dvs put; ends after a barrier with dvs touched.      *)
LEMMA StateBackwardWideNewLeads ==
  ASSUME NEW h, NEW r, NEW w, NEW h2, NEW r2, NEW w2, {"dss0", "dss1"} \subseteq h, {"dos", "st"} \cap r = {},
         h2 \subseteq h \cup {"dos", "dvs"}, {"dvs"} \subseteq w2
  PROVE  Leads(StateBackwardWideNew, h, r, w, h2, r2, w2)
<1>1. Leads(Put({"dos"}), h, r, w, h \cup {"dos"}, r, w \cup {"dos"})
  BY PutLeads
<1>2. Leads(WideNew({"dss0"}), h \cup {"dos"}, r, w \cup {"dos"}, h \cup {"dos"}, {}, {})
  BY WideNewLeads
<1>3. Leads(WideNew({"dss1"}), h \cup {"dos"}, {}, {}, h \cup {"dos"}, {}, {})
  BY WideNewLeads
<1>4. Leads(Put({"dvs"}), h \cup {"dos"}, {}, {}, h2, r2, w2)
  BY PutLeads
<1> QED BY <1>1, <1>2, <1>3, <1>4, Then DEF StateBackwardWideNew

(* StateBackwardWideHalf reads dos and dvs, put before; first puts st;     *)
(* leaves dss put; ends after a barrier with dss touched.                  *)
LEMMA StateBackwardWideHalfLeads ==
  ASSUME NEW dss, NEW h, NEW r, NEW w, NEW h2, NEW r2, NEW w2, {"dos", "dvs"} \subseteq h, {"st"} \cap r = {},
         h2 \subseteq h \cup {dss}, {dss} \subseteq w2
  PROVE  Leads(StateBackwardWideHalf(dss), h, r, w, h2, r2, w2)
<1>1. Leads(StageColumns, h, r, w, h \cup {"st"}, {}, {})
  BY StageColumnsLeads
<1>2. Leads(Get({"dos", "st"}), h \cup {"st"}, {}, {}, h \cup {"st"}, {"dos", "st"}, {})
  BY GetLeads
<1>3. Leads(Sync, h \cup {"st"}, {"dos", "st"}, {}, h \cup {"st"}, {}, {})
  BY SyncLeads
<1>4. Leads(StageColumns, h \cup {"st"}, {}, {}, h \cup {"st"}, {}, {})
  BY StageColumnsLeads
<1>5. Leads(StageColumns \o Get({"dos", "st"}) \o Sync \o StageColumns, h, r, w, h \cup {"st"}, {}, {})
  BY <1>1, <1>2, <1>3, <1>4, Then
<1>6. Leads(Get({"dvs", "st"}), h \cup {"st"}, {}, {}, h, {"dvs", "st"}, {})
  BY GetLeads
<1>7. Leads(Sync, h, {"dvs", "st"}, {}, h, {}, {})
  BY SyncLeads
<1>8. Leads(Put({dss}), h, {}, {}, h2, r2, w2)
  BY PutLeads
<1> QED BY <1>5, <1>6, <1>7, <1>8, Then DEF StateBackwardWideHalf

(* StateBackwardWidePass reads dos and dvs, put before; first puts st;     *)
(* leaves dss0 and dss1 put; ends at a barrier.                            *)
LEMMA StateBackwardWidePassLeads ==
  ASSUME NEW h, NEW r, NEW w, NEW h2, NEW r2, NEW w2, {"dos", "dvs"} \subseteq h, {"st"} \cap r = {},
         h2 \subseteq h \cup {"dss0", "dss1"}
  PROVE  Leads(StateBackwardWidePass, h, r, w, h2, r2, w2)
<1>1. Leads(StateBackwardWideHalf("dss0"), h, r, w, h \cup {"dss0"}, {}, {"dss0"})
  BY StateBackwardWideHalfLeads
<1>2. Leads(StateBackwardWideHalf("dss1"), h \cup {"dss0"}, {}, {"dss0"}, h \cup {"dss0", "dss1"}, {}, {"dss1"})
  BY StateBackwardWideHalfLeads
<1>3. Leads(Sync, h \cup {"dss0", "dss1"}, {}, {"dss1"}, h2, r2, w2)
  BY SyncLeads
<1> QED BY <1>1, <1>2, <1>3, Then DEF StateBackwardWidePass

(* StateBackwardWide first puts dss0 and dss1; ends at a barrier.          *)
LEMMA StateBackwardWideLeads ==
  ASSUME NEW h, NEW r, NEW w, NEW h2, NEW r2, NEW w2, {"dss0", "dss1"} \cap r = {}, h2 \subseteq h
  PROVE  Leads(StateBackwardWide, h, r, w, h2, r2, w2)
<1>1. Leads(Put({"dss0", "dss1"}), h, r, w, h \cup {"dss0", "dss1"}, r, w \cup {"dss0", "dss1"})
  BY PutLeads
<1>2. Leads(Sync, h \cup {"dss0", "dss1"}, r, w \cup {"dss0", "dss1"}, h \cup {"dss0", "dss1"}, {}, {})
  BY SyncLeads
<1>3. Leads(Twice(StateBackwardWideNew \o StateBackwardWidePass), h \cup {"dss0", "dss1"}, {}, {},
            h \cup {"dss0", "dss1"}, {}, {})
  <2>1. Leads((StateBackwardWideNew \o StateBackwardWidePass), h \cup {"dss0", "dss1"}, {}, {},
              h \cup {"dss0", "dss1"}, {}, {})
    <3>1. Leads(StateBackwardWideNew, h \cup {"dss0", "dss1"}, {}, {},
                h \cup {"dos", "dss0", "dss1", "dvs"}, {}, {"dvs"})
      BY StateBackwardWideNewLeads
    <3>2. Leads(StateBackwardWidePass, h \cup {"dos", "dss0", "dss1", "dvs"}, {}, {"dvs"},
                h \cup {"dss0", "dss1"}, {}, {})
      BY StateBackwardWidePassLeads
    <3> QED BY <3>1, <3>2, Then
  <2> QED BY <2>1, TwiceLeads
<1>4. Leads(Put({"dss0", "dss1"}) \o Sync \o Twice(StateBackwardWideNew \o StateBackwardWidePass), h, r, w,
            h \cup {"dss0", "dss1"}, {}, {})
  BY <1>1, <1>2, <1>3, Then
<1> QED BY <1>4, Weaken DEF StateBackwardWide

(* ScoresWide first puts gs, norms and pm; leaves gs, norms and pm put;    *)
(* ends at a barrier.                                                      *)
LEMMA ScoresWideLeads ==
  ASSUME NEW norm \in BOOLEAN, NEW h, NEW r, NEW w, NEW h2, NEW r2, NEW w2, {"gs", "norms", "pm"} \cap r = {},
         h2 \subseteq h \cup {"gs", "norms", "pm"}
  PROVE  Leads(ScoresWide(norm), h, r, w, h2, r2, w2)
<1>1. Leads(PutBy(RowUnits, {"gs"}), h, r, w, h \cup {"gs"}, r, w \cup {"gs"})
  BY PutByLeads
<1>2. Leads(RowScales(norm, "pm"), h \cup {"gs"}, r, w \cup {"gs"}, h \cup {"gs", "norms"}, {}, {})
  BY RowScalesLeads
<1>3. Leads(RowScales(norm, "pm"), h \cup {"gs", "norms"}, {}, {}, h \cup {"gs", "norms"}, {}, {})
  BY RowScalesLeads
<1>4. Leads(WideScores, h \cup {"gs", "norms"}, {}, {}, h \cup {"gs", "norms"}, {}, {})
  BY WideScoresLeads
<1>5. Leads(PutBy(RowUnits, {"gs"}) \o RowScales(norm, "pm") \o RowScales(norm, "pm") \o WideScores, h, r, w,
            h \cup {"gs", "norms"}, {}, {})
  BY <1>1, <1>2, <1>3, <1>4, Then
<1>6. Leads(Get({"gs"}), h \cup {"gs", "norms"}, {}, {}, h \cup {"gs", "norms"}, {"gs"}, {})
  BY GetLeads
<1>7. Leads(Put({"pm"}), h \cup {"gs", "norms"}, {"gs"}, {}, h \cup {"gs", "norms", "pm"}, {"gs"}, {"pm"})
  BY PutLeads
<1>8. Leads(Sync, h \cup {"gs", "norms", "pm"}, {"gs"}, {"pm"}, h2, r2, w2)
  BY SyncLeads
<1> QED BY <1>5, <1>6, <1>7, <1>8, Then DEF ScoresWide

(* OutputWideSum reads gs, norms and pm, put before; first puts qs; ends at*)
(* a barrier.                                                              *)
LEMMA OutputWideSumLeads ==
  ASSUME NEW h, NEW r, NEW w, NEW h2, NEW r2, NEW w2, {"gs", "norms", "pm"} \subseteq h, {"norms"} \cap w = {},
         {"qs"} \cap r = {}, h2 \subseteq h
  PROVE  Leads(OutputWideSum, h, r, w, h2, r2, w2)
<1>1. Leads(Twice(LoadCols("qs") \o Streamed({"qs", "gs"})), h, r, w, h, {}, {})
  <2>1. Leads((LoadCols("qs") \o Streamed({"qs", "gs"})), h, r, w, h, {}, {})
    <3>1. Leads(LoadCols("qs"), h, r, w, h \cup {"qs"}, {}, {})
      BY LoadColsLeads
    <3>2. Leads(Streamed({"qs", "gs"}), h \cup {"qs"}, {}, {}, h, {}, {})
      BY StreamedLeads
    <3> QED BY <3>1, <3>2, Then
  <2> QED BY <2>1, TwiceLeads
<1>2. Leads(Streamed({"pm"}), h, {}, {}, h2, r2, w2)
  BY StreamedLeads
<1> QED BY <1>1, <1>2, Then DEF OutputWideSum

(* OutputWide first puts gs, norms and pm; ends at a barrier.              *)
LEMMA OutputWideLeads ==
  ASSUME NEW norm \in BOOLEAN, NEW h, NEW r, NEW w, NEW h2, NEW r2, NEW w2, {"gs", "norms", "pm"} \cap r = {},
         h2 \subseteq h
  PROVE  Leads(OutputWide(norm), h, r, w, h2, r2, w2)
<1>1. Leads(ScoresWide(norm), h, r, w, h \cup {"gs", "norms", "pm"}, {}, {})
  BY ScoresWideLeads
<1>2. Leads(OutputWideSum, h \cup {"gs", "norms", "pm"}, {}, {}, h2, r2, w2)
  BY OutputWideSumLeads
<1> QED BY <1>1, <1>2, Then DEF OutputWide

(* DvLocalWide first puts gs, norms and pm; ends at a barrier.             *)
LEMMA DvLocalWideLeads ==
  ASSUME NEW norm \in BOOLEAN, NEW h, NEW r, NEW w, NEW h2, NEW r2, NEW w2, {"gs", "norms", "pm"} \cap r = {},
         h2 \subseteq h
  PROVE  Leads(DvLocalWide(norm), h, r, w, h2, r2, w2)
<1>1. Leads(ScoresWide(norm), h, r, w, h \cup {"pm"}, {}, {})
  BY ScoresWideLeads
<1>2. Leads(Streamed({"pm"}), h \cup {"pm"}, {}, {}, h2, r2, w2)
  BY StreamedLeads
<1> QED BY <1>1, <1>2, Then DEF DvLocalWide

(* DStateWide first puts sd, so, ss, sv and sz; ends after a barrier with  *)
(* red touched.                                                            *)
LEMMA DStateWideLeads ==
  ASSUME NEW h, NEW r, NEW w, NEW h2, NEW r2, NEW w2, {"sd", "so", "ss", "sv", "sz"} \cap r = {}, h2 \subseteq h,
         {"red"} \subseteq r2
  PROVE  Leads(DStateWide, h, r, w, h2, r2, w2)
<1>1. Leads(Twice(ByValues(Blocks)), h, r, w, h, {}, {})
  <2>1. Leads(ByValues(Blocks), h, r, w, h, {}, {})
    BY ByValuesLeads DEF Blocks
  <2> QED BY <2>1, TwiceLeads
<1>2. Leads(Put({"red"}), h, {}, {}, h \cup {"red"}, {}, {"red"})
  BY PutLeads
<1>3. Leads(Sync, h \cup {"red"}, {}, {"red"}, h \cup {"red"}, {}, {})
  BY SyncLeads
<1>4. Leads(GetBy(Lead, {"red"}), h \cup {"red"}, {}, {}, h2, r2, w2)
  BY GetByLeads
<1> QED BY <1>1, <1>2, <1>3, <1>4, Then DEF DStateWide

(* DAttnWideScores first puts gs and qs; leaves gs and norms put; ends at a*)
(* barrier.                                                                *)
LEMMA DAttnWideScoresLeads ==
  ASSUME NEW norm \in BOOLEAN, NEW h, NEW r, NEW w, NEW h2, NEW r2, NEW w2, {"gs", "qs"} \cap r = {},
         h2 \subseteq h \cup {"gs", "norms"}
  PROVE  Leads(DAttnWideScores(norm), h, r, w, h2, r2, w2)
<1>1. Leads(PutBy(RowUnits, {"gs"}), h, r, w, h \cup {"gs"}, r, w \cup {"gs"})
  BY PutByLeads
<1>2. Leads(ByValues({"qs"}), h \cup {"gs"}, r, w \cup {"gs"}, h \cup {"gs"}, {}, {})
  BY ByValuesLeads
<1>3. Leads(Put({"dpm"}), h \cup {"gs"}, {}, {}, h \cup {"gs"}, {}, {"dpm"})
  BY PutLeads
<1>4. Leads(RowScales(norm, "ks"), h \cup {"gs"}, {}, {"dpm"}, h \cup {"gs", "norms"}, {}, {})
  BY RowScalesLeads
<1>5. Leads(PutBy(RowUnits, {"gs"}) \o ByValues({"qs"}) \o Put({"dpm"}) \o RowScales(norm, "ks"), h, r, w,
            h \cup {"gs", "norms"}, {}, {})
  BY <1>1, <1>2, <1>3, <1>4, Then
<1>6. Leads(RowScales(norm, "ks"), h \cup {"gs", "norms"}, {}, {}, h \cup {"gs", "norms"}, {}, {})
  BY RowScalesLeads
<1>7. Leads(WideScores, h \cup {"gs", "norms"}, {}, {}, h2, r2, w2)
  BY WideScoresLeads
<1> QED BY <1>5, <1>6, <1>7, Then DEF DAttnWideScores

(* DAttnWideSums reads gs and norms, put before; first puts dpm and qs;    *)
(* ends at a barrier.                                                      *)
LEMMA DAttnWideSumsLeads ==
  ASSUME NEW h, NEW r, NEW w, NEW h2, NEW r2, NEW w2, {"gs", "norms"} \subseteq h, {"gs"} \cap w = {},
         {"dpm", "qs"} \cap r = {}, h2 \subseteq h
  PROVE  Leads(DAttnWideSums, h, r, w, h2, r2, w2)
<1>1. Leads(Get({"gs"}), h, r, w, h, r \cup {"gs"}, w)
  BY GetLeads
<1>2. Leads(Put({"qs", "dpm"}), h, r \cup {"gs"}, w, h \cup {"dpm", "qs"}, r \cup {"gs"}, w \cup {"dpm", "qs"})
  BY PutLeads
<1>3. Leads(Sync, h \cup {"dpm", "qs"}, r \cup {"gs"}, w \cup {"dpm", "qs"}, h \cup {"dpm", "qs"}, {}, {})
  BY SyncLeads
<1>4. Leads(GetBy(RowUnits, {"qs"}), h \cup {"dpm", "qs"}, {}, {}, h \cup {"dpm"}, {"qs"}, {})
  BY GetByLeads
<1>5. Leads(Get({"gs"}) \o Put({"qs", "dpm"}) \o Sync \o GetBy(RowUnits, {"qs"}), h, r, w,
            h \cup {"dpm"}, {"qs"}, {})
  BY <1>1, <1>2, <1>3, <1>4, Then
<1>6. Leads(Sync, h \cup {"dpm"}, {"qs"}, {}, h \cup {"dpm"}, {}, {})
  BY SyncLeads
<1>7. Leads(Twice(LoadCols("qs") \o LoadCols("ks") \o Get({"dpm", "ks", "qs"}) \o Sync), h \cup {"dpm"}, {}, {},
            h \cup {"dpm"}, {}, {})
  <2>1. Leads((LoadCols("qs") \o LoadCols("ks") \o Get({"dpm", "ks", "qs"}) \o Sync), h \cup {"dpm"}, {}, {},
              h \cup {"dpm"}, {}, {})
    <3>1. Leads(LoadCols("qs"), h \cup {"dpm"}, {}, {}, h \cup {"dpm", "qs"}, {}, {})
      BY LoadColsLeads
    <3>2. Leads(LoadCols("ks"), h \cup {"dpm", "qs"}, {}, {}, h \cup {"dpm", "ks", "qs"}, {}, {})
      BY LoadColsLeads
    <3>3. Leads(Get({"dpm", "ks", "qs"}), h \cup {"dpm", "ks", "qs"}, {}, {},
                h \cup {"dpm"}, {"dpm", "ks", "qs"}, {})
      BY GetLeads
    <3>4. Leads(Sync, h \cup {"dpm"}, {"dpm", "ks", "qs"}, {}, h \cup {"dpm"}, {}, {})
      BY SyncLeads
    <3> QED BY <3>1, <3>2, <3>3, <3>4, Then
  <2> QED BY <2>1, TwiceLeads
<1>8. Leads(Get({"gs"}) \o Put({"qs", "dpm"}) \o Sync \o GetBy(RowUnits, {"qs"}) \o Sync \o Twice(LoadCols("qs") \o
            LoadCols("ks") \o Get({"dpm", "ks", "qs"}) \o Sync), h, r, w,
            h \cup {"dpm"}, {}, {})
  BY <1>5, <1>6, <1>7, Then
<1> QED BY <1>8, Weaken DEF DAttnWideSums

(* DAttnWide first puts gs and qs; ends at a barrier.                      *)
LEMMA DAttnWideLeads ==
  ASSUME NEW norm \in BOOLEAN, NEW h, NEW r, NEW w, NEW h2, NEW r2, NEW w2, {"gs", "qs"} \cap r = {},
         h2 \subseteq h
  PROVE  Leads(DAttnWide(norm), h, r, w, h2, r2, w2)
<1>1. Leads(DAttnWideScores(norm), h, r, w, h \cup {"gs", "norms"}, {}, {})
  BY DAttnWideScoresLeads
<1>2. Leads(DAttnWideSums, h \cup {"gs", "norms"}, {}, {}, h2, r2, w2)
  BY DAttnWideSumsLeads
<1> QED BY <1>1, <1>2, Then DEF DAttnWide

(* DWyWideA first puts blk and bs; leaves bs, dam, mam and norms put; ends *)
(* at a barrier.                                                           *)
LEMMA DWyWideALeads ==
  ASSUME NEW norm \in BOOLEAN, NEW h, NEW r, NEW w, NEW h2, NEW r2, NEW w2, {"blk", "bs"} \cap r = {},
         h2 \subseteq h \cup {"bs", "dam", "mam", "norms"}
  PROVE  Leads(DWyWideA(norm), h, r, w, h2, r2, w2)
<1>1. Leads(PutBy(RowUnits, {"bs"}), h, r, w, h \cup {"bs"}, r, w \cup {"bs"})
  BY PutByLeads
<1>2. Leads(RowsProduct, h \cup {"bs"}, r, w \cup {"bs"}, h \cup {"bs"}, {}, {})
  BY RowsProductLeads
<1>3. Leads(RowsProduct, h \cup {"bs"}, {}, {}, h \cup {"bs"}, {}, {})
  BY RowsProductLeads
<1>4. Leads(Put({"mam", "dam"}), h \cup {"bs"}, {}, {}, h \cup {"bs", "dam", "mam"}, {}, {"dam", "mam"})
  BY PutLeads
<1>5. Leads(PutBy(RowUnits, {"bs"}) \o RowsProduct \o RowsProduct \o Put({"mam", "dam"}), h, r, w,
            h \cup {"bs", "dam", "mam"}, {}, {"dam", "mam"})
  BY <1>1, <1>2, <1>3, <1>4, Then
<1>6. Leads(RowScales(norm, "blk"), h \cup {"bs", "dam", "mam"}, {}, {"dam", "mam"}, h2, r2, w2)
  BY RowScalesLeads
<1> QED BY <1>5, <1>6, Then DEF DWyWideA

(* DWyWideSums reads bs, dam, mam and norms, put before; first puts ks;    *)
(* ends after a barrier with red touched.                                  *)
LEMMA DWyWideSumsLeads ==
  ASSUME NEW h, NEW r, NEW w, NEW h2, NEW r2, NEW w2, {"bs", "dam", "mam", "norms"} \subseteq h,
         {"mam", "norms"} \cap w = {}, {"ks"} \cap r = {}, h2 \subseteq h, {"red"} \subseteq r2
  PROVE  Leads(DWyWideSums, h, r, w, h2, r2, w2)
<1>1. Leads(GetBy(RowUnits, {"mam"}), h, r, w, h, r \cup {"mam"}, w)
  BY GetByLeads
<1>2. Leads(Twice(LoadCols("ks") \o Get({"bs", "dam", "ks"}) \o Sync), h, r \cup {"mam"}, w, h, {}, {})
  <2>1. Leads((LoadCols("ks") \o Get({"bs", "dam", "ks"}) \o Sync), h, r \cup {"mam"}, w, h, {}, {})
    <3>1. Leads(LoadCols("ks"), h, r \cup {"mam"}, w, h \cup {"ks"}, {}, {})
      BY LoadColsLeads
    <3>2. Leads(Get({"bs", "dam", "ks"}), h \cup {"ks"}, {}, {}, h, {"bs", "dam", "ks"}, {})
      BY GetLeads
    <3>3. Leads(Sync, h, {"bs", "dam", "ks"}, {}, h, {}, {})
      BY SyncLeads
    <3> QED BY <3>1, <3>2, <3>3, Then
  <2> QED BY <2>1, TwiceLeads
<1>3. Leads(Put({"red"}), h, {}, {}, h \cup {"red"}, {}, {"red"})
  BY PutLeads
<1>4. Leads(Sync, h \cup {"red"}, {}, {"red"}, h \cup {"red"}, {}, {})
  BY SyncLeads
<1>5. Leads(GetBy(RowUnits, {"mam"}) \o Twice(LoadCols("ks") \o Get({"bs", "dam", "ks"}) \o Sync) \o Put({"red"}) \o
            Sync, h, r, w,
            h \cup {"red"}, {}, {})
  BY <1>1, <1>2, <1>3, <1>4, Then
<1>6. Leads(GetBy(RowUnits, {"red"}), h \cup {"red"}, {}, {}, h2, r2, w2)
  BY GetByLeads
<1> QED BY <1>5, <1>6, Then DEF DWyWideSums

(* DWyWide first puts blk and bs; ends after a barrier with red touched.   *)
LEMMA DWyWideLeads ==
  ASSUME NEW norm \in BOOLEAN, NEW h, NEW r, NEW w, NEW h2, NEW r2, NEW w2, {"blk", "bs"} \cap r = {},
         h2 \subseteq h, {"red"} \subseteq r2
  PROVE  Leads(DWyWide(norm), h, r, w, h2, r2, w2)
<1>1. Leads(DWyWideA(norm), h, r, w, h \cup {"bs", "dam", "mam", "norms"}, {}, {})
  BY DWyWideALeads
<1>2. Leads(DWyWideSums, h \cup {"bs", "dam", "mam", "norms"}, {}, {}, h2, r2, w2)
  BY DWyWideSumsLeads
<1> QED BY <1>1, <1>2, Then DEF DWyWide

(* TcGates reads gs, put before; first puts fs; leaves fs and gs put; ends *)
(* after a barrier with fs and gs touched.                                 *)
LEMMA TcGatesLeads ==
  ASSUME NEW h, NEW r, NEW w, NEW h2, NEW r2, NEW w2, {"gs"} \subseteq h, {"gs"} \cap w = {}, {"fs"} \cap r = {},
         h2 \subseteq h \cup {"fs", "gs"}, {"fs"} \subseteq r2, {"gs"} \subseteq w2
  PROVE  Leads(TcGates, h, r, w, h2, r2, w2)
<1>1. Leads(GetBy(RowUnits, {"gs"}), h, r, w, h, r \cup {"gs"}, w)
  BY GetByLeads
<1>2. Leads(PutBy(RowUnits, {"fs"}), h, r \cup {"gs"}, w, h \cup {"fs"}, r \cup {"gs"}, w \cup {"fs"})
  BY PutByLeads
<1>3. Leads(Sync, h \cup {"fs"}, r \cup {"gs"}, w \cup {"fs"}, h \cup {"fs"}, {}, {})
  BY SyncLeads
<1>4. Leads(GetBy(RowUnits, {"fs"}), h \cup {"fs"}, {}, {}, h \cup {"fs"}, {"fs"}, {})
  BY GetByLeads
<1>5. Leads(GetBy(RowUnits, {"gs"}) \o PutBy(RowUnits, {"fs"}) \o Sync \o GetBy(RowUnits, {"fs"}), h, r, w,
            h \cup {"fs"}, {"fs"}, {})
  BY <1>1, <1>2, <1>3, <1>4, Then
<1>6. Leads(PutBy(RowUnits, {"gs"}), h \cup {"fs"}, {"fs"}, {}, h2, r2, w2)
  BY PutByLeads
<1> QED BY <1>5, <1>6, Then DEF TcGates

(* TcPrepStage first puts bs, gs and s_k; leaves bs, gs and s_k put; ends  *)
(* at a barrier.                                                           *)
LEMMA TcPrepStageLeads ==
  ASSUME NEW h, NEW r, NEW w, NEW h2, NEW r2, NEW w2, {"bs", "gs", "s_k"} \cap r = {},
         h2 \subseteq h \cup {"bs", "gs", "s_k"}
  PROVE  Leads(TcPrepStage, h, r, w, h2, r2, w2)
<1>1. Leads(PutBy(RowUnits, {"gs", "bs"}), h, r, w, h \cup {"bs", "gs"}, r, w \cup {"bs", "gs"})
  BY PutByLeads
<1>2. Leads(Put({"s_k"}), h \cup {"bs", "gs"}, r, w \cup {"bs", "gs"},
            h \cup {"bs", "gs", "s_k"}, r, w \cup {"bs", "gs", "s_k"})
  BY PutLeads
<1>3. Leads(Sync, h \cup {"bs", "gs", "s_k"}, r, w \cup {"bs", "gs", "s_k"}, h2, r2, w2)
  BY SyncLeads
<1> QED BY <1>1, <1>2, <1>3, Then DEF TcPrepStage

(* TcPrepA reads bs, gs and s_k, put before; first puts fs; leaves am, fs  *)
(* and tm put; ends at a barrier.                                          *)
LEMMA TcPrepALeads ==
  ASSUME NEW h, NEW r, NEW w, NEW h2, NEW r2, NEW w2, {"bs", "gs", "s_k"} \subseteq h, {"gs"} \cap w = {},
         {"fs"} \cap r = {}, h2 \subseteq h \cup {"am", "fs", "tm"}
  PROVE  Leads(TcPrepA, h, r, w, h2, r2, w2)
<1>1. Leads(TcGates, h, r, w, h \cup {"fs", "gs"}, {"fs"}, {"gs"})
  BY TcGatesLeads
<1>2. Leads(Get({"s_k"}), h \cup {"fs", "gs"}, {"fs"}, {"gs"}, h \cup {"fs", "gs"}, {"fs", "s_k"}, {"gs"})
  BY GetLeads
<1>3. Leads(Sync, h \cup {"fs", "gs"}, {"fs", "s_k"}, {"gs"}, h \cup {"fs", "gs"}, {}, {})
  BY SyncLeads
<1>4. Leads(PutBy(RowUnits, {"fs"}), h \cup {"fs", "gs"}, {}, {}, h \cup {"fs", "gs"}, {}, {"fs"})
  BY PutByLeads
<1>5. Leads(TcGates \o Get({"s_k"}) \o Sync \o PutBy(RowUnits, {"fs"}), h, r, w, h \cup {"fs", "gs"}, {}, {"fs"})
  BY <1>1, <1>2, <1>3, <1>4, Then
<1>6. Leads(Get({"s_k", "bs", "gs"}), h \cup {"fs", "gs"}, {}, {"fs"}, h \cup {"fs"}, {"bs", "gs", "s_k"}, {"fs"})
  BY GetLeads
<1>7. Leads(Put({"am"}), h \cup {"fs"}, {"bs", "gs", "s_k"}, {"fs"},
            h \cup {"am", "fs"}, {"bs", "gs", "s_k"}, {"am", "fs"})
  BY PutLeads
<1>8. Leads(Put({"tm"}), h \cup {"am", "fs"}, {"bs", "gs", "s_k"}, {"am", "fs"},
            h \cup {"am", "fs", "tm"}, {"bs", "gs", "s_k"}, {"am", "fs", "tm"})
  BY PutLeads
<1>9. Leads(TcGates \o Get({"s_k"}) \o Sync \o PutBy(RowUnits, {"fs"}) \o Get({"s_k", "bs", "gs"}) \o Put({"am"}) \o
            Put({"tm"}), h, r, w,
            h \cup {"am", "fs", "tm"}, {"bs", "gs", "s_k"}, {"am", "fs", "tm"})
  BY <1>5, <1>6, <1>7, <1>8, Then
<1>10. Leads(Sync, h \cup {"am", "fs", "tm"}, {"bs", "gs", "s_k"}, {"am", "fs", "tm"}, h2, r2, w2)
  BY SyncLeads
<1> QED BY <1>9, <1>10, Then DEF TcPrepA

(* TcPrepDiagonal reads am, fs, s_k and tm, put before; first puts s_x and *)
(* tm_diag; leaves s_x and tm_diag put; ends at a barrier.                 *)
LEMMA TcPrepDiagonalLeads ==
  ASSUME NEW h, NEW r, NEW w, NEW h2, NEW r2, NEW w2, {"am", "fs", "s_k", "tm"} \subseteq h,
         {"am", "fs", "s_k", "tm"} \cap w = {}, {"s_x", "tm_diag"} \cap r = {},
         h2 \subseteq h \cup {"s_x", "tm_diag"}
  PROVE  Leads(TcPrepDiagonal, h, r, w, h2, r2, w2)
<1>1. Leads(GetBy(RowUnits, {"am", "tm"}), h, r, w, h, r \cup {"am", "tm"}, w)
  BY GetByLeads
<1>2. Leads(PutBy(RowUnits, {"tm_diag"}), h, r \cup {"am", "tm"}, w,
            h \cup {"tm_diag"}, r \cup {"am", "tm"}, w \cup {"tm_diag"})
  BY PutByLeads
<1>3. Leads(Get({"s_k", "fs"}), h \cup {"tm_diag"}, r \cup {"am", "tm"}, w \cup {"tm_diag"},
            h \cup {"tm_diag"}, r \cup {"am", "fs", "s_k", "tm"}, w \cup {"tm_diag"})
  BY GetLeads
<1>4. Leads(Put({"s_x"}), h \cup {"tm_diag"}, r \cup {"am", "fs", "s_k", "tm"}, w \cup {"tm_diag"},
            h \cup {"s_x", "tm_diag"}, r \cup {"am", "fs", "s_k", "tm"}, w \cup {"s_x", "tm_diag"})
  BY PutLeads
<1>5. Leads(GetBy(RowUnits, {"am", "tm"}) \o PutBy(RowUnits, {"tm_diag"}) \o Get({"s_k", "fs"}) \o Put({"s_x"}), h,
            r, w,
            h \cup {"s_x", "tm_diag"}, r \cup {"am", "fs", "s_k", "tm"}, w \cup {"s_x", "tm_diag"})
  BY <1>1, <1>2, <1>3, <1>4, Then
<1>6. Leads(Sync, h \cup {"s_x", "tm_diag"}, r \cup {"am", "fs", "s_k", "tm"}, w \cup {"s_x", "tm_diag"},
            h2, r2, w2)
  BY SyncLeads
<1> QED BY <1>5, <1>6, Then DEF TcPrepDiagonal

(* TcPrepT reads tm_diag and tm_row, put before; first puts s_t; leaves s_t*)
(* put; ends at a barrier.                                                 *)
LEMMA TcPrepTLeads ==
  ASSUME NEW h, NEW r, NEW w, NEW h2, NEW r2, NEW w2, {"tm_diag", "tm_row"} \subseteq h,
         {"tm_diag", "tm_row"} \cap w = {}, {"s_t"} \cap r = {}, h2 \subseteq h \cup {"s_t"}
  PROVE  Leads(TcPrepT, h, r, w, h2, r2, w2)
<1>1. Leads(Get({"tm_row", "tm_diag"}), h, r, w, h, r \cup {"tm_diag", "tm_row"}, w)
  BY GetLeads
<1>2. Leads(Put({"s_t"}), h, r \cup {"tm_diag", "tm_row"}, w,
            h \cup {"s_t"}, r \cup {"tm_diag", "tm_row"}, w \cup {"s_t"})
  BY PutLeads
<1>3. Leads(Sync, h \cup {"s_t"}, r \cup {"tm_diag", "tm_row"}, w \cup {"s_t"}, h2, r2, w2)
  BY SyncLeads
<1> QED BY <1>1, <1>2, <1>3, Then DEF TcPrepT

(* TcPrepWU reads bs, s_t and s_x, put before; ends after a barrier with   *)
(* s_t and s_x touched.                                                    *)
LEMMA TcPrepWULeads ==
  ASSUME NEW h, NEW r, NEW w, NEW h2, NEW r2, NEW w2, {"bs", "s_t", "s_x"} \subseteq h, {"s_t", "s_x"} \cap w = {},
         h2 \subseteq h, {"s_t", "s_x"} \subseteq r2
  PROVE  Leads(TcPrepWU, h, r, w, h2, r2, w2)
<1>1. Leads(Get({"s_t", "s_x"}), h, r, w, h, r \cup {"s_t", "s_x"}, w)
  BY GetLeads
<1>2. Leads(Sync, h, r \cup {"s_t", "s_x"}, w, h, {}, {})
  BY SyncLeads
<1>3. Leads(Get({"bs"}), h, {}, {}, h, {"bs"}, {})
  BY GetLeads
<1>4. Leads(Put({"s_x"}), h, {"bs"}, {}, h \cup {"s_x"}, {"bs"}, {"s_x"})
  BY PutLeads
<1>5. Leads(Get({"s_t", "s_x"}) \o Sync \o Get({"bs"}) \o Put({"s_x"}), h, r, w, h \cup {"s_x"}, {"bs"}, {"s_x"})
  BY <1>1, <1>2, <1>3, <1>4, Then
<1>6. Leads(Sync, h \cup {"s_x"}, {"bs"}, {"s_x"}, h \cup {"s_x"}, {}, {})
  BY SyncLeads
<1>7. Leads(Get({"s_t", "s_x"}), h \cup {"s_x"}, {}, {}, h2, r2, w2)
  BY GetLeads
<1> QED BY <1>5, <1>6, <1>7, Then DEF TcPrepWU

(* TcPrep first puts bs, gs and s_k; ends after a barrier with s_t and s_x *)
(* touched.                                                                *)
LEMMA TcPrepLeads ==
  ASSUME NEW h, NEW r, NEW w, NEW h2, NEW r2, NEW w2, {"bs", "gs", "s_k"} \cap r = {}, h2 \subseteq h,
         {"s_t", "s_x"} \subseteq r2
  PROVE  Leads(TcPrep, h, r, w, h2, r2, w2)
<1>1. Leads(TcPrepStage, h, r, w, h \cup {"bs", "gs", "s_k"}, {}, {})
  BY TcPrepStageLeads
<1>2. Leads(TcPrepA, h \cup {"bs", "gs", "s_k"}, {}, {}, h \cup {"am", "bs", "fs", "s_k", "tm"}, {}, {})
  BY TcPrepALeads
<1>3. Leads(TcPrepDiagonal, h \cup {"am", "bs", "fs", "s_k", "tm"}, {}, {},
            h \cup {"am", "bs", "s_x", "tm", "tm_diag"}, {}, {})
  BY TcPrepDiagonalLeads
<1>4. Leads(BlockRows, h \cup {"am", "bs", "s_x", "tm", "tm_diag"}, {}, {},
            h \cup {"bs", "s_x", "tm_diag", "tm_row"}, {}, {})
  BY BlockRowsLeads
<1>5. Leads(TcPrepStage \o TcPrepA \o TcPrepDiagonal \o BlockRows, h, r, w,
            h \cup {"bs", "s_x", "tm_diag", "tm_row"}, {}, {})
  BY <1>1, <1>2, <1>3, <1>4, Then
<1>6. Leads(TcPrepT, h \cup {"bs", "s_x", "tm_diag", "tm_row"}, {}, {}, h \cup {"bs", "s_t", "s_x"}, {}, {})
  BY TcPrepTLeads
<1>7. Leads(TcPrepWU, h \cup {"bs", "s_t", "s_x"}, {}, {}, h2, r2, w2)
  BY TcPrepWULeads
<1> QED BY <1>5, <1>6, <1>7, Then DEF TcPrep

(* TcWuGates first puts bs, gs, s_k and s_t; leaves bs, s_t and s_x put;   *)
(* ends at a barrier.                                                      *)
LEMMA TcWuGatesLeads ==
  ASSUME NEW h, NEW r, NEW w, NEW h2, NEW r2, NEW w2, {"bs", "gs", "s_k", "s_t"} \cap r = {},
         h2 \subseteq h \cup {"bs", "s_t", "s_x"}
  PROVE  Leads(TcWuGates, h, r, w, h2, r2, w2)
<1>1. Leads(PutBy(RowUnits, {"gs", "bs"}), h, r, w, h \cup {"bs", "gs"}, r, w \cup {"bs", "gs"})
  BY PutByLeads
<1>2. Leads(Put({"s_k", "s_t"}), h \cup {"bs", "gs"}, r, w \cup {"bs", "gs"},
            h \cup {"bs", "gs", "s_k", "s_t"}, r, w \cup {"bs", "gs", "s_k", "s_t"})
  BY PutLeads
<1>3. Leads(Sync, h \cup {"bs", "gs", "s_k", "s_t"}, r, w \cup {"bs", "gs", "s_k", "s_t"},
            h \cup {"bs", "gs", "s_k", "s_t"}, {}, {})
  BY SyncLeads
<1>4. Leads(TcGates, h \cup {"bs", "gs", "s_k", "s_t"}, {}, {},
            h \cup {"bs", "fs", "gs", "s_k", "s_t"}, {"fs"}, {"gs"})
  BY TcGatesLeads
<1>5. Leads(PutBy(RowUnits, {"gs", "bs"}) \o Put({"s_k", "s_t"}) \o Sync \o TcGates, h, r, w,
            h \cup {"bs", "fs", "gs", "s_k", "s_t"}, {"fs"}, {"gs"})
  BY <1>1, <1>2, <1>3, <1>4, Then
<1>6. Leads(Get({"s_k"}), h \cup {"bs", "fs", "gs", "s_k", "s_t"}, {"fs"}, {"gs"},
            h \cup {"bs", "fs", "gs", "s_k", "s_t"}, {"fs", "s_k"}, {"gs"})
  BY GetLeads
<1>7. Leads(Sync, h \cup {"bs", "fs", "gs", "s_k", "s_t"}, {"fs", "s_k"}, {"gs"},
            h \cup {"bs", "fs", "gs", "s_k", "s_t"}, {}, {})
  BY SyncLeads
<1>8. Leads(GetBy(RowUnits, {"bs", "gs"}), h \cup {"bs", "fs", "gs", "s_k", "s_t"}, {}, {},
            h \cup {"bs", "fs", "s_k", "s_t"}, {"bs", "gs"}, {})
  BY GetByLeads
<1>9. Leads(PutBy(RowUnits, {"gs", "bs"}) \o Put({"s_k", "s_t"}) \o Sync \o TcGates \o Get({"s_k"}) \o Sync \o
            GetBy(RowUnits, {"bs", "gs"}), h, r, w,
            h \cup {"bs", "fs", "s_k", "s_t"}, {"bs", "gs"}, {})
  BY <1>5, <1>6, <1>7, <1>8, Then
<1>10. Leads(PutBy(RowUnits, {"fs"}), h \cup {"bs", "fs", "s_k", "s_t"}, {"bs", "gs"}, {},
             h \cup {"bs", "fs", "s_k", "s_t"}, {"bs", "gs"}, {"fs"})
  BY PutByLeads
<1>11. Leads(Sync, h \cup {"bs", "fs", "s_k", "s_t"}, {"bs", "gs"}, {"fs"},
             h \cup {"bs", "fs", "s_k", "s_t"}, {}, {})
  BY SyncLeads
<1>12. Leads(Get({"s_k", "fs"}), h \cup {"bs", "fs", "s_k", "s_t"}, {}, {}, h \cup {"bs", "s_t"}, {"fs", "s_k"}, {})
  BY GetLeads
<1>13. Leads(PutBy(RowUnits, {"gs", "bs"}) \o Put({"s_k", "s_t"}) \o Sync \o TcGates \o Get({"s_k"}) \o Sync \o
             GetBy(RowUnits, {"bs", "gs"}) \o PutBy(RowUnits, {"fs"}) \o Sync \o Get({"s_k", "fs"}), h, r, w,
             h \cup {"bs", "s_t"}, {"fs", "s_k"}, {})
  BY <1>9, <1>10, <1>11, <1>12, Then
<1>14. Leads(Put({"s_x"}), h \cup {"bs", "s_t"}, {"fs", "s_k"}, {},
             h \cup {"bs", "s_t", "s_x"}, {"fs", "s_k"}, {"s_x"})
  BY PutLeads
<1>15. Leads(Sync, h \cup {"bs", "s_t", "s_x"}, {"fs", "s_k"}, {"s_x"}, h2, r2, w2)
  BY SyncLeads
<1> QED BY <1>13, <1>14, <1>15, Then DEF TcWuGates

(* TcWu first puts bs, gs, s_k and s_t; ends after a barrier with s_t and  *)
(* s_x touched.                                                            *)
LEMMA TcWuLeads ==
  ASSUME NEW h, NEW r, NEW w, NEW h2, NEW r2, NEW w2, {"bs", "gs", "s_k", "s_t"} \cap r = {}, h2 \subseteq h,
         {"s_t", "s_x"} \subseteq r2
  PROVE  Leads(TcWu, h, r, w, h2, r2, w2)
<1>1. Leads(TcWuGates, h, r, w, h \cup {"bs", "s_t", "s_x"}, {}, {})
  BY TcWuGatesLeads
<1>2. Leads(TcPrepWU, h \cup {"bs", "s_t", "s_x"}, {}, {}, h2, r2, w2)
  BY TcPrepWULeads
<1> QED BY <1>1, <1>2, Then DEF TcWu

(* TcForwardNew reads s_w, put before; first puts s_s; leaves s_v put; ends*)
(* at a barrier.                                                           *)
LEMMA TcForwardNewLeads ==
  ASSUME NEW h, NEW r, NEW w, NEW h2, NEW r2, NEW w2, {"s_w"} \subseteq h, {"s_s"} \cap r = {},
         h2 \subseteq h \cup {"s_v"}
  PROVE  Leads(TcForwardNew, h, r, w, h2, r2, w2)
<1>1. Leads(Put({"s_s"}), h, r, w, h \cup {"s_s"}, r, w \cup {"s_s"})
  BY PutLeads
<1>2. Leads(Sync, h \cup {"s_s"}, r, w \cup {"s_s"}, h \cup {"s_s"}, {}, {})
  BY SyncLeads
<1>3. Leads(Get({"s_w", "s_s"}), h \cup {"s_s"}, {}, {}, h, {"s_s", "s_w"}, {})
  BY GetLeads
<1>4. Leads(Put({"s_v"}), h, {"s_s", "s_w"}, {}, h \cup {"s_v"}, {"s_s", "s_w"}, {"s_v"})
  BY PutLeads
<1>5. Leads(Put({"s_s"}) \o Sync \o Get({"s_w", "s_s"}) \o Put({"s_v"}), h, r, w,
            h \cup {"s_v"}, {"s_s", "s_w"}, {"s_v"})
  BY <1>1, <1>2, <1>3, <1>4, Then
<1>6. Leads(Sync, h \cup {"s_v"}, {"s_s", "s_w"}, {"s_v"}, h2, r2, w2)
  BY SyncLeads
<1> QED BY <1>5, <1>6, Then DEF TcForwardNew

(* TcForwardPass reads s_k and s_v, put before; leaves s_k and s_w put;    *)
(* ends after a barrier with s_k and s_w touched.                          *)
LEMMA TcForwardPassLeads ==
  ASSUME NEW h, NEW r, NEW w, NEW h2, NEW r2, NEW w2, {"s_k", "s_v"} \subseteq h, {"s_k", "s_v"} \cap w = {},
         h2 \subseteq h \cup {"s_k", "s_w"}, {"s_k", "s_w"} \subseteq w2
  PROVE  Leads(TcForwardPass, h, r, w, h2, r2, w2)
<1>1. Leads(Get({"s_k", "s_v"}), h, r, w, h, r \cup {"s_k", "s_v"}, w)
  BY GetLeads
<1>2. Leads(Sync, h, r \cup {"s_k", "s_v"}, w, h, {}, {})
  BY SyncLeads
<1>3. Leads(Put({"s_w", "s_k"}), h, {}, {}, h2, r2, w2)
  BY PutLeads
<1> QED BY <1>1, <1>2, <1>3, Then DEF TcForwardPass

(* TcStateForward first puts s_k, s_s and s_w; ends after a barrier with   *)
(* s_k and s_w touched.                                                    *)
LEMMA TcStateForwardLeads ==
  ASSUME NEW h, NEW r, NEW w, NEW h2, NEW r2, NEW w2, {"s_k", "s_s", "s_w"} \cap r = {}, h2 \subseteq h,
         {"s_k", "s_w"} \subseteq w2
  PROVE  Leads(TcStateForward, h, r, w, h2, r2, w2)
<1>1. Leads(Put({"s_w", "s_k"}), h, r, w, h \cup {"s_k", "s_w"}, r, w \cup {"s_k", "s_w"})
  BY PutLeads
<1>2. Leads(Twice(TcForwardNew \o TcForwardPass), h \cup {"s_k", "s_w"}, r, w \cup {"s_k", "s_w"},
            h \cup {"s_k", "s_w"}, {}, {"s_k", "s_w"})
  <2>1. Leads((TcForwardNew \o TcForwardPass), h \cup {"s_k", "s_w"}, r, w \cup {"s_k", "s_w"},
              h \cup {"s_k", "s_w"}, {}, {"s_k", "s_w"})
    <3>1. Leads(TcForwardNew, h \cup {"s_k", "s_w"}, r, w \cup {"s_k", "s_w"}, h \cup {"s_k", "s_v", "s_w"}, {}, {})
      BY TcForwardNewLeads
    <3>2. Leads(TcForwardPass, h \cup {"s_k", "s_v", "s_w"}, {}, {}, h \cup {"s_k", "s_w"}, {}, {"s_k", "s_w"})
      BY TcForwardPassLeads
    <3> QED BY <3>1, <3>2, Then
  <2> QED BY <2>1, TwiceLeads
<1>3. Leads(Put({"s_w", "s_k"}) \o Twice(TcForwardNew \o TcForwardPass), h, r, w,
            h \cup {"s_k", "s_w"}, {}, {"s_k", "s_w"})
  BY <1>1, <1>2, Then
<1> QED BY <1>3, Weaken DEF TcStateForward

(* TcOutputP first puts gs, s_k and s_q; leaves s_q put; ends after a      *)
(* barrier with gs, s_k and s_q touched.                                   *)
LEMMA TcOutputPLeads ==
  ASSUME NEW h, NEW r, NEW w, NEW h2, NEW r2, NEW w2, {"gs", "s_k", "s_q"} \cap r = {},
         h2 \subseteq h \cup {"s_q"}, {"gs", "s_k", "s_q"} \subseteq r2
  PROVE  Leads(TcOutputP, h, r, w, h2, r2, w2)
<1>1. Leads(PutBy(RowUnits, {"gs"}), h, r, w, h \cup {"gs"}, r, w \cup {"gs"})
  BY PutByLeads
<1>2. Leads(Put({"s_q", "s_k"}), h \cup {"gs"}, r, w \cup {"gs"},
            h \cup {"gs", "s_k", "s_q"}, r, w \cup {"gs", "s_k", "s_q"})
  BY PutLeads
<1>3. Leads(Sync, h \cup {"gs", "s_k", "s_q"}, r, w \cup {"gs", "s_k", "s_q"}, h \cup {"gs", "s_k", "s_q"}, {}, {})
  BY SyncLeads
<1>4. Leads(Get({"s_q", "s_k", "gs"}), h \cup {"gs", "s_k", "s_q"}, {}, {}, h2, r2, w2)
  BY GetLeads
<1> QED BY <1>1, <1>2, <1>3, <1>4, Then DEF TcOutputP

(* TcOutputSum reads s_q, put before; first puts s_s and s_v; ends after a *)
(* barrier with s_q, s_s and s_v touched.                                  *)
LEMMA TcOutputSumLeads ==
  ASSUME NEW h, NEW r, NEW w, NEW h2, NEW r2, NEW w2, {"s_q"} \subseteq h, {"s_s", "s_v"} \cap r = {},
         h2 \subseteq h, {"s_q", "s_s", "s_v"} \subseteq r2
  PROVE  Leads(TcOutputSum, h, r, w, h2, r2, w2)
<1>1. Leads(Put({"s_s", "s_v"}), h, r, w, h \cup {"s_s", "s_v"}, r, w \cup {"s_s", "s_v"})
  BY PutLeads
<1>2. Leads(Sync, h \cup {"s_s", "s_v"}, r, w \cup {"s_s", "s_v"}, h \cup {"s_s", "s_v"}, {}, {})
  BY SyncLeads
<1>3. Leads(Get({"s_q", "s_s", "s_v"}), h \cup {"s_s", "s_v"}, {}, {}, h2, r2, w2)
  BY GetLeads
<1> QED BY <1>1, <1>2, <1>3, Then DEF TcOutputSum

(* TcOutput first puts gs, s_k and s_q; ends after a barrier with s_q, s_s *)
(* and s_v touched.                                                        *)
LEMMA TcOutputLeads ==
  ASSUME NEW h, NEW r, NEW w, NEW h2, NEW r2, NEW w2, {"gs", "s_k", "s_q"} \cap r = {}, h2 \subseteq h,
         {"s_q", "s_s", "s_v"} \subseteq r2
  PROVE  Leads(TcOutput, h, r, w, h2, r2, w2)
<1>1. Leads(TcOutputP, h, r, w, h \cup {"s_q"}, {"gs", "s_k", "s_q"}, {})
  BY TcOutputPLeads
<1>2. Leads(TcOutputSum, h \cup {"s_q"}, {"gs", "s_k", "s_q"}, {}, h2, r2, w2)
  BY TcOutputSumLeads
<1> QED BY <1>1, <1>2, Then DEF TcOutput

(* TcDvLocalP first puts gs, s_k and s_x; leaves s_x put; ends at a        *)
(* barrier.                                                                *)
LEMMA TcDvLocalPLeads ==
  ASSUME NEW h, NEW r, NEW w, NEW h2, NEW r2, NEW w2, {"gs", "s_k", "s_x"} \cap r = {}, h2 \subseteq h \cup {"s_x"}
  PROVE  Leads(TcDvLocalP, h, r, w, h2, r2, w2)
<1>1. Leads(PutBy(RowUnits, {"gs"}), h, r, w, h \cup {"gs"}, r, w \cup {"gs"})
  BY PutByLeads
<1>2. Leads(Put({"s_x", "s_k"}), h \cup {"gs"}, r, w \cup {"gs"},
            h \cup {"gs", "s_k", "s_x"}, r, w \cup {"gs", "s_k", "s_x"})
  BY PutLeads
<1>3. Leads(Sync, h \cup {"gs", "s_k", "s_x"}, r, w \cup {"gs", "s_k", "s_x"}, h \cup {"gs", "s_k", "s_x"}, {}, {})
  BY SyncLeads
<1>4. Leads(Get({"s_k", "s_x", "gs"}), h \cup {"gs", "s_k", "s_x"}, {}, {},
            h \cup {"s_x"}, {"gs", "s_k", "s_x"}, {})
  BY GetLeads
<1>5. Leads(PutBy(RowUnits, {"gs"}) \o Put({"s_x", "s_k"}) \o Sync \o Get({"s_k", "s_x", "gs"}), h, r, w,
            h \cup {"s_x"}, {"gs", "s_k", "s_x"}, {})
  BY <1>1, <1>2, <1>3, <1>4, Then
<1>6. Leads(Sync, h \cup {"s_x"}, {"gs", "s_k", "s_x"}, {}, h2, r2, w2)
  BY SyncLeads
<1> QED BY <1>5, <1>6, Then DEF TcDvLocalP

(* TcDvLocal first puts gs, s_k and s_x; ends after a barrier with s_x     *)
(* touched.                                                                *)
LEMMA TcDvLocalLeads ==
  ASSUME NEW h, NEW r, NEW w, NEW h2, NEW r2, NEW w2, {"gs", "s_k", "s_x"} \cap r = {}, h2 \subseteq h,
         {"s_x"} \subseteq r2
  PROVE  Leads(TcDvLocal, h, r, w, h2, r2, w2)
<1>1. Leads(TcDvLocalP, h, r, w, h \cup {"s_x"}, {}, {})
  BY TcDvLocalPLeads
<1>2. Leads(Put({"s_x"}), h \cup {"s_x"}, {}, {}, h \cup {"s_x"}, {}, {"s_x"})
  BY PutLeads
<1>3. Leads(Sync, h \cup {"s_x"}, {}, {"s_x"}, h \cup {"s_x"}, {}, {})
  BY SyncLeads
<1>4. Leads(Get({"s_x"}), h \cup {"s_x"}, {}, {}, h2, r2, w2)
  BY GetLeads
<1> QED BY <1>1, <1>2, <1>3, <1>4, Then DEF TcDvLocal

(* TcBackwardNew reads s_x, put before; first puts s_f, s_g, s_o and s_s;  *)
(* leaves s_f, s_g, s_o and s_v put; ends at a barrier.                    *)
LEMMA TcBackwardNewLeads ==
  ASSUME NEW h, NEW r, NEW w, NEW h2, NEW r2, NEW w2, {"s_x"} \subseteq h,
         {"s_f", "s_g", "s_o", "s_s"} \cap r = {}, h2 \subseteq h \cup {"s_f", "s_g", "s_o", "s_v"}
  PROVE  Leads(TcBackwardNew, h, r, w, h2, r2, w2)
<1>1. Leads(Put({"s_g", "s_f", "s_s", "s_o"}), h, r, w,
            h \cup {"s_f", "s_g", "s_o", "s_s"}, r, w \cup {"s_f", "s_g", "s_o", "s_s"})
  BY PutLeads
<1>2. Leads(Sync, h \cup {"s_f", "s_g", "s_o", "s_s"}, r, w \cup {"s_f", "s_g", "s_o", "s_s"},
            h \cup {"s_f", "s_g", "s_o", "s_s"}, {}, {})
  BY SyncLeads
<1>3. Leads(Get({"s_x", "s_s"}), h \cup {"s_f", "s_g", "s_o", "s_s"}, {}, {},
            h \cup {"s_f", "s_g", "s_o"}, {"s_s", "s_x"}, {})
  BY GetLeads
<1>4. Leads(Put({"s_v"}), h \cup {"s_f", "s_g", "s_o"}, {"s_s", "s_x"}, {},
            h \cup {"s_f", "s_g", "s_o", "s_v"}, {"s_s", "s_x"}, {"s_v"})
  BY PutLeads
<1>5. Leads(Put({"s_g", "s_f", "s_s", "s_o"}) \o Sync \o Get({"s_x", "s_s"}) \o Put({"s_v"}), h, r, w,
            h \cup {"s_f", "s_g", "s_o", "s_v"}, {"s_s", "s_x"}, {"s_v"})
  BY <1>1, <1>2, <1>3, <1>4, Then
<1>6. Leads(Sync, h \cup {"s_f", "s_g", "s_o", "s_v"}, {"s_s", "s_x"}, {"s_v"}, h2, r2, w2)
  BY SyncLeads
<1> QED BY <1>5, <1>6, Then DEF TcBackwardNew

(* TcBackwardPass reads s_f, s_g, s_o, s_v and s_w, put before; first puts *)
(* s_x; leaves s_w and s_x put; ends after a barrier with s_w and s_x      *)
(* touched.                                                                *)
LEMMA TcBackwardPassLeads ==
  ASSUME NEW h, NEW r, NEW w, NEW h2, NEW r2, NEW w2, {"s_f", "s_g", "s_o", "s_v", "s_w"} \subseteq h,
         {"s_f", "s_g"} \cap w = {}, {"s_x"} \cap r = {}, h2 \subseteq h \cup {"s_w", "s_x"},
         {"s_w", "s_x"} \subseteq w2
  PROVE  Leads(TcBackwardPass, h, r, w, h2, r2, w2)
<1>1. Leads(Get({"s_f", "s_g"}), h, r, w, h, r \cup {"s_f", "s_g"}, w)
  BY GetLeads
<1>2. Leads(Put({"s_x"}), h, r \cup {"s_f", "s_g"}, w, h \cup {"s_x"}, r \cup {"s_f", "s_g"}, w \cup {"s_x"})
  BY PutLeads
<1>3. Leads(Sync, h \cup {"s_x"}, r \cup {"s_f", "s_g"}, w \cup {"s_x"}, h \cup {"s_x"}, {}, {})
  BY SyncLeads
<1>4. Leads(Get({"s_x", "s_o", "s_w", "s_v"}), h \cup {"s_x"}, {}, {},
            h \cup {"s_x"}, {"s_o", "s_v", "s_w", "s_x"}, {})
  BY GetLeads
<1>5. Leads(Get({"s_f", "s_g"}) \o Put({"s_x"}) \o Sync \o Get({"s_x", "s_o", "s_w", "s_v"}), h, r, w,
            h \cup {"s_x"}, {"s_o", "s_v", "s_w", "s_x"}, {})
  BY <1>1, <1>2, <1>3, <1>4, Then
<1>6. Leads(Sync, h \cup {"s_x"}, {"s_o", "s_v", "s_w", "s_x"}, {}, h \cup {"s_x"}, {}, {})
  BY SyncLeads
<1>7. Leads(Put({"s_x", "s_w"}), h \cup {"s_x"}, {}, {}, h2, r2, w2)
  BY PutLeads
<1> QED BY <1>5, <1>6, <1>7, Then DEF TcBackwardPass

(* TcStateBackward first puts s_f, s_g, s_o, s_s, s_w and s_x; ends after a*)
(* barrier with s_w and s_x touched.                                       *)
LEMMA TcStateBackwardLeads ==
  ASSUME NEW h, NEW r, NEW w, NEW h2, NEW r2, NEW w2, {"s_f", "s_g", "s_o", "s_s", "s_w", "s_x"} \cap r = {},
         h2 \subseteq h, {"s_w", "s_x"} \subseteq w2
  PROVE  Leads(TcStateBackward, h, r, w, h2, r2, w2)
<1>1. Leads(Put({"s_x", "s_w"}), h, r, w, h \cup {"s_w", "s_x"}, r, w \cup {"s_w", "s_x"})
  BY PutLeads
<1>2. Leads(Twice(TcBackwardNew \o TcBackwardPass), h \cup {"s_w", "s_x"}, r, w \cup {"s_w", "s_x"},
            h \cup {"s_w", "s_x"}, {}, {"s_w", "s_x"})
  <2>1. Leads((TcBackwardNew \o TcBackwardPass), h \cup {"s_w", "s_x"}, r, w \cup {"s_w", "s_x"},
              h \cup {"s_w", "s_x"}, {}, {"s_w", "s_x"})
    <3>1. Leads(TcBackwardNew, h \cup {"s_w", "s_x"}, r, w \cup {"s_w", "s_x"},
                h \cup {"s_f", "s_g", "s_o", "s_v", "s_w", "s_x"}, {}, {})
      BY TcBackwardNewLeads
    <3>2. Leads(TcBackwardPass, h \cup {"s_f", "s_g", "s_o", "s_v", "s_w", "s_x"}, {}, {},
                h \cup {"s_w", "s_x"}, {}, {"s_w", "s_x"})
      BY TcBackwardPassLeads
    <3> QED BY <3>1, <3>2, Then
  <2> QED BY <2>1, TwiceLeads
<1>3. Leads(Put({"s_x", "s_w"}) \o Twice(TcBackwardNew \o TcBackwardPass), h, r, w,
            h \cup {"s_w", "s_x"}, {}, {"s_w", "s_x"})
  BY <1>1, <1>2, Then
<1> QED BY <1>3, Weaken DEF TcStateBackward

(* RowTotals3 first puts red_c; ends at a barrier.                         *)
LEMMA RowTotals3Leads ==
  ASSUME NEW outs, "red_c" \notin outs, NEW h, NEW r, NEW w, NEW h2, NEW r2, NEW w2, {"red_c"} \cap r = {},
         h2 \subseteq h
  PROVE  Leads(RowTotals3(outs), h, r, w, h2, r2, w2)
<1>1. Leads(Put({"red_c"}), h, r, w, h \cup {"red_c"}, r, w \cup {"red_c"})
  BY PutLeads
<1>2. Leads(Sync, h \cup {"red_c"}, r, w \cup {"red_c"}, h \cup {"red_c"}, {}, {})
  BY SyncLeads
<1>3. Leads(GetBy(RowUnits, {"red_c"}), h \cup {"red_c"}, {}, {}, h, {"red_c"}, {})
  BY GetByLeads
<1>4. Leads(PutBy(RowUnits, outs), h, {"red_c"}, {}, h, {"red_c"}, outs)
  BY PutByLeads
<1>5. Leads(Put({"red_c"}) \o Sync \o GetBy(RowUnits, {"red_c"}) \o PutBy(RowUnits, outs), h, r, w,
            h, {"red_c"}, outs)
  BY <1>1, <1>2, <1>3, <1>4, Then
<1>6. Leads(Sync, h, {"red_c"}, outs, h2, r2, w2)
  BY SyncLeads
<1> QED BY <1>5, <1>6, Then DEF RowTotals3

(* RowTotals first puts red; leaves out put; ends at a barrier.            *)
LEMMA RowTotalsLeads ==
  ASSUME NEW out, out # "red", NEW h, NEW r, NEW w, NEW h2, NEW r2, NEW w2, {"red"} \cap r = {},
         h2 \subseteq h \cup {out}
  PROVE  Leads(RowTotals(out), h, r, w, h2, r2, w2)
<1>1. Leads(Put({"red"}), h, r, w, h \cup {"red"}, r, w \cup {"red"})
  BY PutLeads
<1>2. Leads(Sync, h \cup {"red"}, r, w \cup {"red"}, h \cup {"red"}, {}, {})
  BY SyncLeads
<1>3. Leads(GetBy(RowUnits, {"red"}), h \cup {"red"}, {}, {}, h, {"red"}, {})
  BY GetByLeads
<1>4. Leads(PutBy(RowUnits, {out}), h, {"red"}, {}, h \cup {out}, {"red"}, {out})
  BY PutByLeads
<1>5. Leads(Put({"red"}) \o Sync \o GetBy(RowUnits, {"red"}) \o PutBy(RowUnits, {out}), h, r, w,
            h \cup {out}, {"red"}, {out})
  BY <1>1, <1>2, <1>3, <1>4, Then
<1>6. Leads(Sync, h \cup {out}, {"red"}, {out}, h2, r2, w2)
  BY SyncLeads
<1> QED BY <1>5, <1>6, Then DEF RowTotals

(* RowMinusCol first puts red and red_c; ends at a barrier.                *)
LEMMA RowMinusColLeads ==
  ASSUME NEW out, out # "red", out # "red_c", NEW h, NEW r, NEW w, NEW h2, NEW r2, NEW w2,
         {"red", "red_c"} \cap r = {}, h2 \subseteq h
  PROVE  Leads(RowMinusCol(out), h, r, w, h2, r2, w2)
<1>1. Leads(Put({"red", "red_c"}), h, r, w, h \cup {"red", "red_c"}, r, w \cup {"red", "red_c"})
  BY PutLeads
<1>2. Leads(Sync, h \cup {"red", "red_c"}, r, w \cup {"red", "red_c"}, h \cup {"red", "red_c"}, {}, {})
  BY SyncLeads
<1>3. Leads(GetBy(RowUnits, {"red", "red_c"}), h \cup {"red", "red_c"}, {}, {}, h, {"red", "red_c"}, {})
  BY GetByLeads
<1>4. Leads(PutBy(RowUnits, {out}), h, {"red", "red_c"}, {}, h, {"red", "red_c"}, {out})
  BY PutByLeads
<1>5. Leads(Put({"red", "red_c"}) \o Sync \o GetBy(RowUnits, {"red", "red_c"}) \o PutBy(RowUnits, {out}), h, r, w,
            h, {"red", "red_c"}, {out})
  BY <1>1, <1>2, <1>3, <1>4, Then
<1>6. Leads(Sync, h, {"red", "red_c"}, {out}, h2, r2, w2)
  BY SyncLeads
<1> QED BY <1>5, <1>6, Then DEF RowMinusCol

(* TcDqkValues first puts bs, gs, t1 and tt; leaves bs, gs, t1, t2 and tt  *)
(* put; ends at a barrier.                                                 *)
LEMMA TcDqkValuesLeads ==
  ASSUME NEW h, NEW r, NEW w, NEW h2, NEW r2, NEW w2, {"bs", "gs", "t1", "tt"} \cap r = {},
         h2 \subseteq h \cup {"bs", "gs", "t1", "t2", "tt"}
  PROVE  Leads(TcDqkValues, h, r, w, h2, r2, w2)
<1>1. Leads(PutBy(RowUnits, {"gs", "bs"}), h, r, w, h \cup {"bs", "gs"}, r, w \cup {"bs", "gs"})
  BY PutByLeads
<1>2. Leads(Put({"tt", "t1"}), h \cup {"bs", "gs"}, r, w \cup {"bs", "gs"},
            h \cup {"bs", "gs", "t1", "tt"}, r, w \cup {"bs", "gs", "t1", "tt"})
  BY PutLeads
<1>3. Leads(Sync, h \cup {"bs", "gs", "t1", "tt"}, r, w \cup {"bs", "gs", "t1", "tt"},
            h \cup {"bs", "gs", "t1", "tt"}, {}, {})
  BY SyncLeads
<1>4. Leads(Get({"tt", "t1"}), h \cup {"bs", "gs", "t1", "tt"}, {}, {},
            h \cup {"bs", "gs", "t1", "tt"}, {"t1", "tt"}, {})
  BY GetLeads
<1>5. Leads(PutBy(RowUnits, {"gs", "bs"}) \o Put({"tt", "t1"}) \o Sync \o Get({"tt", "t1"}), h, r, w,
            h \cup {"bs", "gs", "t1", "tt"}, {"t1", "tt"}, {})
  BY <1>1, <1>2, <1>3, <1>4, Then
<1>6. Leads(Put({"t2"}), h \cup {"bs", "gs", "t1", "tt"}, {"t1", "tt"}, {},
            h \cup {"bs", "gs", "t1", "t2", "tt"}, {"t1", "tt"}, {"t2"})
  BY PutLeads
<1>7. Leads(Get({"bs"}), h \cup {"bs", "gs", "t1", "t2", "tt"}, {"t1", "tt"}, {"t2"},
            h \cup {"bs", "gs", "t1", "t2", "tt"}, {"bs", "t1", "tt"}, {"t2"})
  BY GetLeads
<1>8. Leads(RowTotals("s_bv"), h \cup {"bs", "gs", "t1", "t2", "tt"}, {"bs", "t1", "tt"}, {"t2"}, h2, r2, w2)
  BY RowTotalsLeads
<1> QED BY <1>5, <1>6, <1>7, <1>8, Then DEF TcDqkValues

(* TcDqkBlocks reads t2, put before; first puts t1, t3, t4 and t5; leaves  *)
(* t1 and t5 put; ends at a barrier.                                       *)
LEMMA TcDqkBlocksLeads ==
  ASSUME NEW h, NEW r, NEW w, NEW h2, NEW r2, NEW w2, {"t2"} \subseteq h, {"t1", "t3", "t4", "t5"} \cap r = {},
         h2 \subseteq h \cup {"t1", "t5"}
  PROVE  Leads(TcDqkBlocks, h, r, w, h2, r2, w2)
<1>1. Leads(Twice(Put({"t3", "t4", "t1", "t5"}) \o Sync \o Get({"t1", "t5", "t3", "t4", "t2"}) \o Sync), h, r, w,
            h \cup {"t1", "t5"}, {}, {})
  <2>1. Leads((Put({"t3", "t4", "t1", "t5"}) \o Sync \o Get({"t1", "t5", "t3", "t4", "t2"}) \o Sync), h, r, w,
              h \cup {"t1", "t5"}, {}, {})
    <3>1. Leads(Put({"t3", "t4", "t1", "t5"}), h, r, w,
                h \cup {"t1", "t3", "t4", "t5"}, r, w \cup {"t1", "t3", "t4", "t5"})
      BY PutLeads
    <3>2. Leads(Sync, h \cup {"t1", "t3", "t4", "t5"}, r, w \cup {"t1", "t3", "t4", "t5"},
                h \cup {"t1", "t3", "t4", "t5"}, {}, {})
      BY SyncLeads
    <3>3. Leads(Get({"t1", "t5", "t3", "t4", "t2"}), h \cup {"t1", "t3", "t4", "t5"}, {}, {},
                h \cup {"t1", "t5"}, {"t1", "t2", "t3", "t4", "t5"}, {})
      BY GetLeads
    <3>4. Leads(Sync, h \cup {"t1", "t5"}, {"t1", "t2", "t3", "t4", "t5"}, {}, h \cup {"t1", "t5"}, {}, {})
      BY SyncLeads
    <3> QED BY <3>1, <3>2, <3>3, <3>4, Then
  <2> QED BY <2>1, TwiceLeads
<1> QED BY <1>1, Weaken DEF TcDqkBlocks

(* TcDqkSums reads bs and gs, put before; first puts inv, t1 and t5; leaves*)
(* inv, t1 and t5 put; ends at a barrier.                                  *)
LEMMA TcDqkSumsLeads ==
  ASSUME NEW h, NEW r, NEW w, NEW h2, NEW r2, NEW w2, {"bs", "gs"} \subseteq h, {"inv", "t1", "t5"} \cap r = {},
         h2 \subseteq h \cup {"inv", "t1", "t5"}
  PROVE  Leads(TcDqkSums, h, r, w, h2, r2, w2)
<1>1. Leads(Put({"t1", "t5", "inv"}), h, r, w, h \cup {"inv", "t1", "t5"}, r, w \cup {"inv", "t1", "t5"})
  BY PutLeads
<1>2. Leads(Sync, h \cup {"inv", "t1", "t5"}, r, w \cup {"inv", "t1", "t5"}, h \cup {"inv", "t1", "t5"}, {}, {})
  BY SyncLeads
<1>3. Leads(Get({"t5", "t1", "gs", "bs"}), h \cup {"inv", "t1", "t5"}, {}, {},
            h \cup {"inv", "t1", "t5"}, {"bs", "gs", "t1", "t5"}, {})
  BY GetLeads
<1>4. Leads(RowTotals3({"s_bg", "s_kt", "s_qg"}), h \cup {"inv", "t1", "t5"}, {"bs", "gs", "t1", "t5"}, {},
            h2, r2, w2)
  BY RowTotals3Leads
<1> QED BY <1>1, <1>2, <1>3, <1>4, Then DEF TcDqkSums

(* TcDqkScores reads gs, t1 and t5, put before; first puts red, red_c and  *)
(* tt; leaves tt put; ends at a barrier.                                   *)
LEMMA TcDqkScoresLeads ==
  ASSUME NEW h, NEW r, NEW w, NEW h2, NEW r2, NEW w2, {"gs", "t1", "t5"} \subseteq h,
         {"gs", "t1", "t5"} \cap w = {}, {"red", "red_c", "tt"} \cap r = {}, h2 \subseteq h \cup {"tt"}
  PROVE  Leads(TcDqkScores, h, r, w, h2, r2, w2)
<1>1. Leads(Get({"t1", "t5", "gs"}), h, r, w, h, r \cup {"gs", "t1", "t5"}, w)
  BY GetLeads
<1>2. Leads(Put({"tt"}), h, r \cup {"gs", "t1", "t5"}, w, h \cup {"tt"}, r \cup {"gs", "t1", "t5"}, w \cup {"tt"})
  BY PutLeads
<1>3. Leads(RowMinusCol("s_dp"), h \cup {"tt"}, r \cup {"gs", "t1", "t5"}, w \cup {"tt"}, h2, r2, w2)
  BY RowMinusColLeads
<1> QED BY <1>1, <1>2, <1>3, Then DEF TcDqkScores

(* TcDqkQueries reads inv, t1, t5 and tt, put before; first puts red; may  *)
(* have no barrier.                                                        *)
LEMMA TcDqkQueriesLeads ==
  ASSUME NEW norm \in BOOLEAN, NEW h, NEW r, NEW w, NEW h2, NEW r2, NEW w2, {"inv", "t1", "t5", "tt"} \subseteq h,
         {"t1", "t5", "tt"} \cap w = {}, {"red"} \cap r = {}, h2 \subseteq h,
         r \cup {"inv", "s_pq", "t1", "t5", "tt"} \subseteq r2, w \subseteq w2
  PROVE  Leads(TcDqkQueries(norm), h, r, w, h2, r2, w2)
<1>1. Leads(Get({"tt", "t5", "t1"}), h, r, w, h, r \cup {"t1", "t5", "tt"}, w)
  BY GetLeads
<1>2. Leads(When(norm, RowTotals("s_pq") \o Get({"s_pq", "inv"})), h, r \cup {"t1", "t5", "tt"}, w,
            h, r \cup {"inv", "s_pq", "t1", "t5", "tt"}, w)
  <2>1. Leads((RowTotals("s_pq") \o Get({"s_pq", "inv"})), h, r \cup {"t1", "t5", "tt"}, w, h, {"inv", "s_pq"}, {})
    <3>1. Leads(RowTotals("s_pq"), h, r \cup {"t1", "t5", "tt"}, w, h \cup {"s_pq"}, {}, {})
      BY RowTotalsLeads
    <3>2. Leads(Get({"s_pq", "inv"}), h \cup {"s_pq"}, {}, {}, h, {"inv", "s_pq"}, {})
      BY GetLeads
    <3> QED BY <3>1, <3>2, Then
  <2> QED BY <2>1, WhenLeads
<1>3. Leads(Get({"tt", "t5", "t1"}) \o When(norm, RowTotals("s_pq") \o Get({"s_pq", "inv"})), h, r, w,
            h, r \cup {"inv", "s_pq", "t1", "t5", "tt"}, w)
  BY <1>1, <1>2, Then
<1> QED BY <1>3, Weaken DEF TcDqkQueries

(* TcDqkTail reads bs and gs, put before; first puts red; ends after a     *)
(* barrier with red touched.                                               *)
LEMMA TcDqkTailLeads ==
  ASSUME NEW h, NEW r, NEW w, NEW h2, NEW r2, NEW w2, {"bs", "gs"} \subseteq h, {"bs", "gs"} \cap w = {},
         {"red"} \cap r = {}, h2 \subseteq h, {"red"} \subseteq r2
  PROVE  Leads(TcDqkTail, h, r, w, h2, r2, w2)
<1>1. Leads(GetBy(RowUnits, {"gs", "bs"}), h, r, w, h, r \cup {"bs", "gs"}, w)
  BY GetByLeads
<1>2. Leads(Put({"red"}), h, r \cup {"bs", "gs"}, w, h \cup {"red"}, r \cup {"bs", "gs"}, w \cup {"red"})
  BY PutLeads
<1>3. Leads(Sync, h \cup {"red"}, r \cup {"bs", "gs"}, w \cup {"red"}, h \cup {"red"}, {}, {})
  BY SyncLeads
<1>4. Leads(GetBy(Lead, {"red"}), h \cup {"red"}, {}, {}, h2, r2, w2)
  BY GetByLeads
<1> QED BY <1>1, <1>2, <1>3, <1>4, Then DEF TcDqkTail

(* TcDqk first puts bs, gs, t1 and tt; ends after a barrier with red       *)
(* touched.                                                                *)
LEMMA TcDqkLeads ==
  ASSUME NEW norm \in BOOLEAN, NEW h, NEW r, NEW w, NEW h2, NEW r2, NEW w2, {"bs", "gs", "t1", "tt"} \cap r = {},
         h2 \subseteq h, {"red"} \subseteq r2
  PROVE  Leads(TcDqk(norm), h, r, w, h2, r2, w2)
<1>1. Leads(TcDqkValues, h, r, w, h \cup {"bs", "gs", "t1", "t2", "tt"}, {}, {})
  BY TcDqkValuesLeads
<1>2. Leads(TcDqkBlocks, h \cup {"bs", "gs", "t1", "t2", "tt"}, {}, {},
            h \cup {"bs", "gs", "t1", "t5", "tt"}, {}, {})
  BY TcDqkBlocksLeads
<1>3. Leads(TcDqkSums, h \cup {"bs", "gs", "t1", "t5", "tt"}, {}, {},
            h \cup {"bs", "gs", "inv", "t1", "t5", "tt"}, {}, {})
  BY TcDqkSumsLeads
<1>4. Leads(TcDqkScores, h \cup {"bs", "gs", "inv", "t1", "t5", "tt"}, {}, {},
            h \cup {"bs", "gs", "inv", "t1", "t5", "tt"}, {}, {})
  BY TcDqkScoresLeads
<1>5. Leads(TcDqkValues \o TcDqkBlocks \o TcDqkSums \o TcDqkScores, h, r, w,
            h \cup {"bs", "gs", "inv", "t1", "t5", "tt"}, {}, {})
  BY <1>1, <1>2, <1>3, <1>4, Then
<1>6. Leads(TcDqkQueries(norm), h \cup {"bs", "gs", "inv", "t1", "t5", "tt"}, {}, {},
            h \cup {"bs", "gs"}, {"inv", "s_pq", "t1", "t5", "tt"}, {})
  BY TcDqkQueriesLeads
<1>7. Leads(TcDqkTail, h \cup {"bs", "gs"}, {"inv", "s_pq", "t1", "t5", "tt"}, {}, h2, r2, w2)
  BY TcDqkTailLeads
<1> QED BY <1>5, <1>6, <1>7, Then DEF TcDqk

(* TcWyProducts first puts bs, gs, s_a and s_b; leaves bs and gs put; ends *)
(* at a barrier.                                                           *)
LEMMA TcWyProductsLeads ==
  ASSUME NEW h, NEW r, NEW w, NEW h2, NEW r2, NEW w2, {"bs", "gs", "s_a", "s_b"} \cap r = {},
         h2 \subseteq h \cup {"bs", "gs"}
  PROVE  Leads(TcWyProducts, h, r, w, h2, r2, w2)
<1>1. Leads(PutBy(RowUnits, {"gs", "bs"}), h, r, w, h \cup {"bs", "gs"}, r, w \cup {"bs", "gs"})
  BY PutByLeads
<1>2. Leads(Twice(ByValues({"s_a", "s_b"})), h \cup {"bs", "gs"}, r, w \cup {"bs", "gs"},
            h \cup {"bs", "gs"}, {}, {})
  <2>1. Leads(ByValues({"s_a", "s_b"}), h \cup {"bs", "gs"}, r, w \cup {"bs", "gs"}, h \cup {"bs", "gs"}, {}, {})
    BY ByValuesLeads
  <2> QED BY <2>1, TwiceLeads
<1>3. Leads(PutBy(RowUnits, {"gs", "bs"}) \o Twice(ByValues({"s_a", "s_b"})), h, r, w, h \cup {"bs", "gs"}, {}, {})
  BY <1>1, <1>2, Then
<1> QED BY <1>3, Weaken DEF TcWyProducts

(* TcWyScores reads bs and gs, put before; first puts inv and s_k; leaves  *)
(* inv, s_k, s_kb and tt put; ends at a barrier.                           *)
LEMMA TcWyScoresLeads ==
  ASSUME NEW h, NEW r, NEW w, NEW h2, NEW r2, NEW w2, {"bs", "gs"} \subseteq h, {"inv", "s_k"} \cap r = {},
         h2 \subseteq h \cup {"inv", "s_k", "s_kb", "tt"}
  PROVE  Leads(TcWyScores, h, r, w, h2, r2, w2)
<1>1. Leads(Put({"s_k", "inv"}), h, r, w, h \cup {"inv", "s_k"}, r, w \cup {"inv", "s_k"})
  BY PutLeads
<1>2. Leads(Sync, h \cup {"inv", "s_k"}, r, w \cup {"inv", "s_k"}, h \cup {"inv", "s_k"}, {}, {})
  BY SyncLeads
<1>3. Leads(Get({"s_k", "bs"}), h \cup {"inv", "s_k"}, {}, {}, h \cup {"inv", "s_k"}, {"bs", "s_k"}, {})
  BY GetLeads
<1>4. Leads(Put({"s_kb"}), h \cup {"inv", "s_k"}, {"bs", "s_k"}, {},
            h \cup {"inv", "s_k", "s_kb"}, {"bs", "s_k"}, {"s_kb"})
  BY PutLeads
<1>5. Leads(Put({"s_k", "inv"}) \o Sync \o Get({"s_k", "bs"}) \o Put({"s_kb"}), h, r, w,
            h \cup {"inv", "s_k", "s_kb"}, {"bs", "s_k"}, {"s_kb"})
  BY <1>1, <1>2, <1>3, <1>4, Then
<1>6. Leads(Get({"gs", "bs"}), h \cup {"inv", "s_k", "s_kb"}, {"bs", "s_k"}, {"s_kb"},
            h \cup {"inv", "s_k", "s_kb"}, {"bs", "gs", "s_k"}, {"s_kb"})
  BY GetLeads
<1>7. Leads(Put({"tt"}), h \cup {"inv", "s_k", "s_kb"}, {"bs", "gs", "s_k"}, {"s_kb"},
            h \cup {"inv", "s_k", "s_kb", "tt"}, {"bs", "gs", "s_k"}, {"s_kb", "tt"})
  BY PutLeads
<1>8. Leads(RowTotals("s_ba"), h \cup {"inv", "s_k", "s_kb", "tt"}, {"bs", "gs", "s_k"}, {"s_kb", "tt"},
            h \cup {"inv", "s_k", "s_kb", "tt"}, {}, {})
  BY RowTotalsLeads
<1>9. Leads(Put({"s_k", "inv"}) \o Sync \o Get({"s_k", "bs"}) \o Put({"s_kb"}) \o Get({"gs", "bs"}) \o Put({"tt"})
            \o RowTotals("s_ba"), h, r, w,
            h \cup {"inv", "s_k", "s_kb", "tt"}, {}, {})
  BY <1>5, <1>6, <1>7, <1>8, Then
<1>10. Leads(RowMinusCol("s_da"), h \cup {"inv", "s_k", "s_kb", "tt"}, {}, {}, h2, r2, w2)
  BY RowMinusColLeads
<1> QED BY <1>9, <1>10, Then DEF TcWyScores

(* TcWyKeys reads bs, inv, s_k, s_kb and tt, put before; first puts red;   *)
(* may have no barrier.                                                    *)
LEMMA TcWyKeysLeads ==
  ASSUME NEW norm \in BOOLEAN, NEW h, NEW r, NEW w, NEW h2, NEW r2, NEW w2,
         {"bs", "inv", "s_k", "s_kb", "tt"} \subseteq h, {"bs", "s_k", "s_kb", "tt"} \cap w = {},
         {"red"} \cap r = {}, h2 \subseteq h, r \cup {"bs", "inv", "s_k", "s_kb", "s_pk", "tt"} \subseteq r2,
         w \subseteq w2
  PROVE  Leads(TcWyKeys(norm), h, r, w, h2, r2, w2)
<1>1. Leads(Get({"tt", "s_k", "s_kb", "bs"}), h, r, w, h, r \cup {"bs", "s_k", "s_kb", "tt"}, w)
  BY GetLeads
<1>2. Leads(When(norm, RowTotals("s_pk") \o Get({"s_pk", "inv", "s_k"})), h, r \cup {"bs", "s_k", "s_kb", "tt"}, w,
            h, r \cup {"bs", "inv", "s_k", "s_kb", "s_pk", "tt"}, w)
  <2>1. Leads((RowTotals("s_pk") \o Get({"s_pk", "inv", "s_k"})), h, r \cup {"bs", "s_k", "s_kb", "tt"}, w,
              h, {"inv", "s_k", "s_pk"}, {})
    <3>1. Leads(RowTotals("s_pk"), h, r \cup {"bs", "s_k", "s_kb", "tt"}, w, h \cup {"s_pk"}, {}, {})
      BY RowTotalsLeads
    <3>2. Leads(Get({"s_pk", "inv", "s_k"}), h \cup {"s_pk"}, {}, {}, h, {"inv", "s_k", "s_pk"}, {})
      BY GetLeads
    <3> QED BY <3>1, <3>2, Then
  <2> QED BY <2>1, WhenLeads
<1>3. Leads(Get({"tt", "s_k", "s_kb", "bs"}) \o When(norm, RowTotals("s_pk") \o Get({"s_pk", "inv", "s_k"})), h, r,
            w,
            h, r \cup {"bs", "inv", "s_k", "s_kb", "s_pk", "tt"}, w)
  BY <1>1, <1>2, Then
<1> QED BY <1>3, Weaken DEF TcWyKeys

(* TcWyGates first puts rg; ends after a barrier with rg touched.          *)
LEMMA TcWyGatesLeads ==
  ASSUME NEW h, NEW r, NEW w, NEW h2, NEW r2, NEW w2, {"rg"} \cap r = {}, h2 \subseteq h, {"rg"} \subseteq r2
  PROVE  Leads(TcWyGates, h, r, w, h2, r2, w2)
<1>1. Leads(PutBy(RowUnits, {"rg"}), h, r, w, h \cup {"rg"}, r, w \cup {"rg"})
  BY PutByLeads
<1>2. Leads(Sync, h \cup {"rg"}, r, w \cup {"rg"}, h \cup {"rg"}, {}, {})
  BY SyncLeads
<1>3. Leads(GetBy(RowUnits, {"rg"}), h \cup {"rg"}, {}, {}, h2, r2, w2)
  BY GetByLeads
<1> QED BY <1>1, <1>2, <1>3, Then DEF TcWyGates

(* TcWy first puts bs, gs, s_a and s_b; ends after a barrier with rg       *)
(* touched.                                                                *)
LEMMA TcWyLeads ==
  ASSUME NEW norm \in BOOLEAN, NEW h, NEW r, NEW w, NEW h2, NEW r2, NEW w2, {"bs", "gs", "s_a", "s_b"} \cap r = {},
         h2 \subseteq h, {"rg"} \subseteq r2
  PROVE  Leads(TcWy(norm), h, r, w, h2, r2, w2)
<1>1. Leads(TcWyProducts, h, r, w, h \cup {"bs", "gs"}, {}, {})
  BY TcWyProductsLeads
<1>2. Leads(TcWyScores, h \cup {"bs", "gs"}, {}, {}, h \cup {"bs", "inv", "s_k", "s_kb", "tt"}, {}, {})
  BY TcWyScoresLeads
<1>3. Leads(TcWyKeys(norm), h \cup {"bs", "inv", "s_k", "s_kb", "tt"}, {}, {},
            h, {"bs", "inv", "s_k", "s_kb", "s_pk", "tt"}, {})
  BY TcWyKeysLeads
<1>4. Leads(TcWyGates, h, {"bs", "inv", "s_k", "s_kb", "s_pk", "tt"}, {}, h2, r2, w2)
  BY TcWyGatesLeads
<1> QED BY <1>1, <1>2, <1>3, <1>4, Then DEF TcWy

(* CubeMax first puts scratch0; ends at a barrier.                         *)
LEMMA CubeMaxLeads ==
  ASSUME NEW h, NEW r, NEW w, NEW h2, NEW r2, NEW w2, {"scratch0"} \cap r = {}, h2 \subseteq h
  PROVE  Leads(CubeMax, h, r, w, h2, r2, w2)
<1>1. Leads(Put({"scratch0"}), h, r, w, h \cup {"scratch0"}, r, w \cup {"scratch0"})
  BY PutLeads
<1>2. Leads(Sync, h \cup {"scratch0"}, r, w \cup {"scratch0"}, h \cup {"scratch0"}, {}, {})
  BY SyncLeads
<1>3. Leads(Get({"scratch0"}), h \cup {"scratch0"}, {}, {}, h, {"scratch0"}, {})
  BY GetLeads
<1>4. Leads(Sync, h, {"scratch0"}, {}, h2, r2, w2)
  BY SyncLeads
<1> QED BY <1>1, <1>2, <1>3, <1>4, Then DEF CubeMax

(* CubeSum first puts slot; ends after a barrier with slot touched.        *)
LEMMA CubeSumLeads ==
  ASSUME NEW slot, NEW h, NEW r, NEW w, NEW h2, NEW r2, NEW w2, {slot} \cap r = {}, h2 \subseteq h,
         {slot} \subseteq r2
  PROVE  Leads(CubeSum(slot), h, r, w, h2, r2, w2)
<1>1. Leads(Put({slot}), h, r, w, h \cup {slot}, r, w \cup {slot})
  BY PutLeads
<1>2. Leads(Sync, h \cup {slot}, r, w \cup {slot}, h \cup {slot}, {}, {})
  BY SyncLeads
<1>3. Leads(Get({slot}), h \cup {slot}, {}, {}, h2, r2, w2)
  BY GetLeads
<1> QED BY <1>1, <1>2, <1>3, Then DEF CubeSum

(* ChunkRow first puts scratch0; ends after a barrier with scratch2        *)
(* touched.                                                                *)
LEMMA ChunkRowLeads ==
  ASSUME NEW h, NEW r, NEW w, NEW h2, NEW r2, NEW w2, {"scratch0"} \cap r = {}, h2 \subseteq h,
         {"scratch2"} \subseteq r2
  PROVE  Leads(ChunkRow, h, r, w, h2, r2, w2)
<1>1. Leads(CubeMax, h, r, w, h, {}, {})
  BY CubeMaxLeads
<1>2. Leads(CubeSum("scratch0"), h, {}, {}, h, {"scratch0"}, {})
  BY CubeSumLeads
<1>3. Leads(CubeSum("scratch1"), h, {"scratch0"}, {}, h, {"scratch1"}, {})
  BY CubeSumLeads
<1>4. Leads(CubeSum("scratch2"), h, {"scratch1"}, {}, h2, r2, w2)
  BY CubeSumLeads
<1> QED BY <1>1, <1>2, <1>3, <1>4, Then DEF ChunkRow

(* Uniform reads buf, put before; ends at a barrier.                       *)
LEMMA UniformLeads ==
  ASSUME NEW buf, NEW h, NEW r, NEW w, NEW h2, NEW r2, NEW w2, {buf} \subseteq h, h2 \subseteq h
  PROVE  Leads(Uniform(buf), h, r, w, h2, r2, w2)
<1>1. Leads(Sync, h, r, w, h, {}, {})
  BY SyncLeads
<1>2. Leads(Get({buf}), h, {}, {}, h, {buf}, {})
  BY GetLeads
<1>3. Leads(Sync, h, {buf}, {}, h2, r2, w2)
  BY SyncLeads
<1> QED BY <1>1, <1>2, <1>3, Then DEF Uniform

(* SumOver first puts slot; ends at a barrier.                             *)
LEMMA SumOverLeads ==
  ASSUME NEW slot, slot # "out", NEW h, NEW r, NEW w, NEW h2, NEW r2, NEW w2, {slot} \cap r = {}, h2 \subseteq h
  PROVE  Leads(SumOver(slot), h, r, w, h2, r2, w2)
<1>1. Leads(Put({slot}), h, r, w, h \cup {slot}, r, w \cup {slot})
  BY PutLeads
<1>2. Leads(Sync, h \cup {slot}, r, w \cup {slot}, h \cup {slot}, {}, {})
  BY SyncLeads
<1>3. Leads(GetBy(Lead, {slot}), h \cup {slot}, {}, {}, h, {slot}, {})
  BY GetByLeads
<1>4. Leads(PutBy(Lead, {"out"}), h, {slot}, {}, h \cup {"out"}, {slot}, {"out"})
  BY PutByLeads
<1>5. Leads(Put({slot}) \o Sync \o GetBy(Lead, {slot}) \o PutBy(Lead, {"out"}), h, r, w,
            h \cup {"out"}, {slot}, {"out"})
  BY <1>1, <1>2, <1>3, <1>4, Then
<1>6. Leads(Uniform("out"), h \cup {"out"}, {slot}, {"out"}, h2, r2, w2)
  BY UniformLeads
<1> QED BY <1>5, <1>6, Then DEF SumOver

(* ArgMax first puts red4; ends at a barrier.                              *)
LEMMA ArgMaxLeads ==
  ASSUME NEW h, NEW r, NEW w, NEW h2, NEW r2, NEW w2, {"red4"} \cap r = {}, h2 \subseteq h
  PROVE  Leads(ArgMax, h, r, w, h2, r2, w2)
BY SumOverLeads DEF ArgMax

(* SumFirst first puts red0; ends at a barrier.                            *)
LEMMA SumFirstLeads ==
  ASSUME NEW h, NEW r, NEW w, NEW h2, NEW r2, NEW w2, {"red0"} \cap r = {}, h2 \subseteq h
  PROVE  Leads(SumFirst, h, r, w, h2, r2, w2)
BY SumOverLeads DEF SumFirst

(* GatherAbove first puts count; leaves ids and keys put; ends after a     *)
(* barrier with ids and keys touched.                                      *)
LEMMA GatherAboveLeads ==
  ASSUME NEW h, NEW r, NEW w, NEW h2, NEW r2, NEW w2, {"count"} \cap r = {}, h2 \subseteq h \cup {"ids", "keys"},
         {"ids", "keys"} \subseteq w2
  PROVE  Leads(GatherAbove, h, r, w, h2, r2, w2)
<1>1. Leads(PutBy(Lead, {"count"}), h, r, w, h, r, w \cup {"count"})
  BY PutByLeads
<1>2. Leads(Sync, h, r, w \cup {"count"}, h, {}, {})
  BY SyncLeads
<1>3. Leads(Put({"keys", "ids"}), h, {}, {}, h2, r2, w2)
  BY PutLeads
<1> QED BY <1>1, <1>2, <1>3, Then DEF GatherAbove

(* BandCut first puts keys and wts; leaves keys and wts put; ends at a     *)
(* barrier.                                                                *)
LEMMA BandCutLeads ==
  ASSUME NEW h, NEW r, NEW w, NEW h2, NEW r2, NEW w2, {"keys", "wts"} \cap r = {},
         h2 \subseteq h \cup {"keys", "wts"}
  PROVE  Leads(BandCut, h, r, w, h2, r2, w2)
<1>1. Leads(Put({"keys", "wts"}), h, r, w, h \cup {"keys", "wts"}, r, w \cup {"keys", "wts"})
  BY PutLeads
<1>2. Leads(Sync, h \cup {"keys", "wts"}, r, w \cup {"keys", "wts"}, h \cup {"keys", "wts"}, {}, {})
  BY SyncLeads
<1>3. Leads(GetBy(Lead, {"keys", "wts"}), h \cup {"keys", "wts"}, {}, {},
            h \cup {"keys", "wts"}, {"keys", "wts"}, {})
  BY GetByLeads
<1>4. Leads(PutBy(Lead, {"out"}), h \cup {"keys", "wts"}, {"keys", "wts"}, {},
            h \cup {"keys", "out", "wts"}, {"keys", "wts"}, {"out"})
  BY PutByLeads
<1>5. Leads(Put({"keys", "wts"}) \o Sync \o GetBy(Lead, {"keys", "wts"}) \o PutBy(Lead, {"out"}), h, r, w,
            h \cup {"keys", "out", "wts"}, {"keys", "wts"}, {"out"})
  BY <1>1, <1>2, <1>3, <1>4, Then
<1>6. Leads(Uniform("out"), h \cup {"keys", "out", "wts"}, {"keys", "wts"}, {"out"},
            h \cup {"keys", "out", "wts"}, {}, {})
  BY UniformLeads
<1>7. Leads(Uniform("out"), h \cup {"keys", "out", "wts"}, {}, {}, h2, r2, w2)
  BY UniformLeads
<1> QED BY <1>5, <1>6, <1>7, Then DEF BandCut

(* Weigh reads keys, put before; first puts wts; leaves wts put; ends at a *)
(* barrier.                                                                *)
LEMMA WeighLeads ==
  ASSUME NEW h, NEW r, NEW w, NEW h2, NEW r2, NEW w2, {"keys"} \subseteq h, {"keys"} \cap w = {},
         {"wts"} \cap r = {}, h2 \subseteq h \cup {"wts"}
  PROVE  Leads(Weigh, h, r, w, h2, r2, w2)
<1>1. Leads(Get({"keys"}), h, r, w, h, r \cup {"keys"}, w)
  BY GetLeads
<1>2. Leads(Put({"wts"}), h, r \cup {"keys"}, w, h \cup {"wts"}, r \cup {"keys"}, w \cup {"wts"})
  BY PutLeads
<1>3. Leads(Sync, h \cup {"wts"}, r \cup {"keys"}, w \cup {"wts"}, h2, r2, w2)
  BY SyncLeads
<1> QED BY <1>1, <1>2, <1>3, Then DEF Weigh

(* ScanSums reads wts, put before; leaves runs put; ends at a barrier.     *)
LEMMA ScanSumsLeads ==
  ASSUME NEW h, NEW r, NEW w, NEW h2, NEW r2, NEW w2, {"wts"} \subseteq h, h2 \subseteq h \cup {"runs"}
  PROVE  Leads(ScanSums, h, r, w, h2, r2, w2)
<1>1. Leads(Sync, h, r, w, h, {}, {})
  BY SyncLeads
<1>2. Leads(Get({"wts"}), h, {}, {}, h, {"wts"}, {})
  BY GetLeads
<1>3. Leads(Put({"red5"}), h, {"wts"}, {}, h \cup {"red5"}, {"wts"}, {"red5"})
  BY PutLeads
<1>4. Leads(Sync, h \cup {"red5"}, {"wts"}, {"red5"}, h \cup {"red5"}, {}, {})
  BY SyncLeads
<1>5. Leads(Sync \o Get({"wts"}) \o Put({"red5"}) \o Sync, h, r, w, h \cup {"red5"}, {}, {})
  BY <1>1, <1>2, <1>3, <1>4, Then
<1>6. Leads(Get({"red5"}), h \cup {"red5"}, {}, {}, h, {"red5"}, {})
  BY GetLeads
<1>7. Leads(Put({"runs"}), h, {"red5"}, {}, h \cup {"runs"}, {"red5"}, {"runs"})
  BY PutLeads
<1>8. Leads(Sync, h \cup {"runs"}, {"red5"}, {"runs"}, h2, r2, w2)
  BY SyncLeads
<1> QED BY <1>5, <1>6, <1>7, <1>8, Then DEF ScanSums

(* FirstReaching reads runs, put before; first puts red6; ends at a        *)
(* barrier.                                                                *)
LEMMA FirstReachingLeads ==
  ASSUME NEW h, NEW r, NEW w, NEW h2, NEW r2, NEW w2, {"runs"} \subseteq h, {"runs"} \cap w = {},
         {"red6"} \cap r = {}, h2 \subseteq h
  PROVE  Leads(FirstReaching, h, r, w, h2, r2, w2)
<1>1. Leads(Get({"runs"}), h, r, w, h, r \cup {"runs"}, w)
  BY GetLeads
<1>2. Leads(SumOver("red6"), h, r \cup {"runs"}, w, h2, r2, w2)
  BY SumOverLeads
<1> QED BY <1>1, <1>2, Then DEF FirstReaching

(* Candidates first puts red0; ends at a barrier.                          *)
LEMMA CandidatesLeads ==
  ASSUME NEW h, NEW r, NEW w, NEW h2, NEW r2, NEW w2, {"red0"} \cap r = {}, h2 \subseteq h
  PROVE  Leads(Candidates, h, r, w, h2, r2, w2)
<1>1. Leads(SumFirst, h, r, w, h, {}, {})
  BY SumFirstLeads
<1>2. Leads(GatherAbove, h, {}, {}, h \cup {"ids", "keys"}, {}, {"ids", "keys"})
  BY GatherAboveLeads
<1>3. Leads(Sync, h \cup {"ids", "keys"}, {}, {"ids", "keys"}, h \cup {"ids", "keys"}, {}, {})
  BY SyncLeads
<1>4. Leads(BandCut, h \cup {"ids", "keys"}, {}, {}, h \cup {"ids", "keys", "wts"}, {}, {})
  BY BandCutLeads
<1>5. Leads(SumFirst \o GatherAbove \o Sync \o BandCut, h, r, w, h \cup {"ids", "keys", "wts"}, {}, {})
  BY <1>1, <1>2, <1>3, <1>4, Then
<1>6. Leads(GatherAbove, h \cup {"ids", "keys", "wts"}, {}, {}, h \cup {"ids", "keys", "wts"}, {}, {"ids", "keys"})
  BY GatherAboveLeads
<1>7. Leads(Sync, h \cup {"ids", "keys", "wts"}, {}, {"ids", "keys"}, h \cup {"ids", "keys", "wts"}, {}, {})
  BY SyncLeads
<1>8. Leads(Weigh, h \cup {"ids", "keys", "wts"}, {}, {}, h \cup {"ids", "keys", "wts"}, {}, {})
  BY WeighLeads
<1>9. Leads(SumFirst \o GatherAbove \o Sync \o BandCut \o GatherAbove \o Sync \o Weigh, h, r, w,
            h \cup {"ids", "keys", "wts"}, {}, {})
  BY <1>5, <1>6, <1>7, <1>8, Then
<1>10. Leads(ScanSums, h \cup {"ids", "keys", "wts"}, {}, {}, h \cup {"ids", "keys", "runs"}, {}, {})
  BY ScanSumsLeads
<1>11. Leads(FirstReaching, h \cup {"ids", "keys", "runs"}, {}, {}, h \cup {"ids", "keys"}, {}, {})
  BY FirstReachingLeads
<1>12. Leads(Uniform("keys"), h \cup {"ids", "keys"}, {}, {}, h \cup {"ids", "keys"}, {}, {})
  BY UniformLeads
<1>13. Leads(SumFirst \o GatherAbove \o Sync \o BandCut \o GatherAbove \o Sync \o Weigh \o ScanSums \o FirstReaching
             \o Uniform("keys"), h, r, w,
             h \cup {"ids", "keys"}, {}, {})
  BY <1>9, <1>10, <1>11, <1>12, Then
<1>14. Leads(Get({"keys"}), h \cup {"ids", "keys"}, {}, {}, h \cup {"ids", "keys"}, {"keys"}, {})
  BY GetLeads
<1>15. Leads(SumOver("red7"), h \cup {"ids", "keys"}, {"keys"}, {}, h \cup {"ids", "keys"}, {}, {})
  BY SumOverLeads
<1>16. Leads(Get({"ids", "keys"}), h \cup {"ids", "keys"}, {}, {}, h, {"ids", "keys"}, {})
  BY GetLeads
<1>17. Leads(SumFirst \o GatherAbove \o Sync \o BandCut \o GatherAbove \o Sync \o Weigh \o ScanSums \o FirstReaching
             \o Uniform("keys") \o Get({"keys"}) \o SumOver("red7") \o Get({"ids", "keys"}), h, r, w,
             h, {"ids", "keys"}, {})
  BY <1>13, <1>14, <1>15, <1>16, Then
<1>18. Leads(ArgMax, h, {"ids", "keys"}, {}, h2, r2, w2)
  BY ArgMaxLeads
<1> QED BY <1>17, <1>18, Then DEF Candidates

(* RadixPass first puts red0; ends at a barrier.                           *)
LEMMA RadixPassLeads ==
  ASSUME NEW h, NEW r, NEW w, NEW h2, NEW r2, NEW w2, {"red0"} \cap r = {}, h2 \subseteq h
  PROVE  Leads(RadixPass, h, r, w, h2, r2, w2)
<1>1. Leads(Put({"red0"}), h, r, w, h \cup {"red0"}, r, w \cup {"red0"})
  BY PutLeads
<1>2. Leads(Sync, h \cup {"red0"}, r, w \cup {"red0"}, h \cup {"red0"}, {}, {})
  BY SyncLeads
<1>3. Leads(GetBy(Lead, {"red0"}), h \cup {"red0"}, {}, {}, h, {"red0"}, {})
  BY GetByLeads
<1>4. Leads(PutBy(Lead, {"out"}), h, {"red0"}, {}, h \cup {"out"}, {"red0"}, {"out"})
  BY PutByLeads
<1>5. Leads(Put({"red0"}) \o Sync \o GetBy(Lead, {"red0"}) \o PutBy(Lead, {"out"}), h, r, w,
            h \cup {"out"}, {"red0"}, {"out"})
  BY <1>1, <1>2, <1>3, <1>4, Then
<1>6. Leads(Uniform("out"), h \cup {"out"}, {"red0"}, {"out"}, h \cup {"out"}, {}, {})
  BY UniformLeads
<1>7. Leads(Uniform("out"), h \cup {"out"}, {}, {}, h2, r2, w2)
  BY UniformLeads
<1> QED BY <1>5, <1>6, <1>7, Then DEF RadixPass

(* Refinement first puts red0; ends at a barrier.                          *)
LEMMA RefinementLeads ==
  ASSUME NEW h, NEW r, NEW w, NEW h2, NEW r2, NEW w2, {"red0"} \cap r = {}, h2 \subseteq h
  PROVE  Leads(Refinement, h, r, w, h2, r2, w2)
<1>1. Leads(Twice(RadixPass), h, r, w, h, {}, {})
  <2>1. Leads(RadixPass, h, r, w, h, {}, {})
    BY RadixPassLeads
  <2> QED BY <2>1, TwiceLeads
<1>2. Leads(GatherAbove, h, {}, {}, h \cup {"keys"}, {}, {"ids", "keys"})
  BY GatherAboveLeads
<1>3. Leads(Sync, h \cup {"keys"}, {}, {"ids", "keys"}, h \cup {"keys"}, {}, {})
  BY SyncLeads
<1>4. Leads(Weigh, h \cup {"keys"}, {}, {}, h \cup {"keys", "wts"}, {}, {})
  BY WeighLeads
<1>5. Leads(Twice(RadixPass) \o GatherAbove \o Sync \o Weigh, h, r, w, h \cup {"keys", "wts"}, {}, {})
  BY <1>1, <1>2, <1>3, <1>4, Then
<1>6. Leads(ScanSums, h \cup {"keys", "wts"}, {}, {}, h \cup {"keys", "runs"}, {}, {})
  BY ScanSumsLeads
<1>7. Leads(FirstReaching, h \cup {"keys", "runs"}, {}, {}, h \cup {"keys"}, {}, {})
  BY FirstReachingLeads
<1>8. Leads(Uniform("keys"), h \cup {"keys"}, {}, {}, h, {}, {})
  BY UniformLeads
<1>9. Leads(Twice(RadixPass) \o GatherAbove \o Sync \o Weigh \o ScanSums \o FirstReaching \o Uniform("keys"), h, r,
            w,
            h, {}, {})
  BY <1>5, <1>6, <1>7, <1>8, Then
<1>10. Leads(SumFirst, h, {}, {}, h, {}, {})
  BY SumFirstLeads
<1>11. Leads(ArgMax, h, {}, {}, h2, r2, w2)
  BY ArgMaxLeads
<1> QED BY <1>9, <1>10, <1>11, Then DEF Refinement

(* Down ends after a barrier with slice touched.                           *)
LEMMA DownLeads ==
  ASSUME NEW h, NEW r, NEW w, NEW h2, NEW r2, NEW w2, h2 \subseteq h, {"slice"} \subseteq r2
  PROVE  Leads(Down, h, r, w, h2, r2, w2)
<1>1. Leads(Twice(Sync \o Put({"slice"}) \o Sync \o Get({"slice"})), h, r, w, h, {"slice"}, {})
  <2>1. Leads((Sync \o Put({"slice"}) \o Sync \o Get({"slice"})), h, r \cup {"slice"}, w, h, {"slice"}, {})
    <3>1. Leads(Sync, h, r \cup {"slice"}, w, h, {}, {})
      BY SyncLeads
    <3>2. Leads(Put({"slice"}), h, {}, {}, h \cup {"slice"}, {}, {"slice"})
      BY PutLeads
    <3>3. Leads(Sync, h \cup {"slice"}, {}, {"slice"}, h \cup {"slice"}, {}, {})
      BY SyncLeads
    <3>4. Leads(Get({"slice"}), h \cup {"slice"}, {}, {}, h, {"slice"}, {})
      BY GetLeads
    <3> QED BY <3>1, <3>2, <3>3, <3>4, Then
  <2> QED BY <2>1, TwiceLeads
<1> QED BY <1>1, Weaken DEF Down

(* DecodeSplit first puts s_acc, s_max and s_sum; ends after a barrier with*)
(* s_acc, s_max and s_sum touched.                                         *)
LEMMA DecodeSplitLeads ==
  ASSUME NEW h, NEW r, NEW w, NEW h2, NEW r2, NEW w2, {"s_acc", "s_max", "s_sum"} \cap r = {}, h2 \subseteq h,
         {"s_acc", "s_max", "s_sum"} \subseteq r2
  PROVE  Leads(DecodeSplit, h, r, w, h2, r2, w2)
<1>1. Leads(PutBy(RowUnits, {"s_max", "s_sum"}), h, r, w, h \cup {"s_max", "s_sum"}, r, w \cup {"s_max", "s_sum"})
  BY PutByLeads
<1>2. Leads(Put({"s_acc"}), h \cup {"s_max", "s_sum"}, r, w \cup {"s_max", "s_sum"},
            h \cup {"s_acc", "s_max", "s_sum"}, r, w \cup {"s_acc", "s_max", "s_sum"})
  BY PutLeads
<1>3. Leads(Sync, h \cup {"s_acc", "s_max", "s_sum"}, r, w \cup {"s_acc", "s_max", "s_sum"},
            h \cup {"s_acc", "s_max", "s_sum"}, {}, {})
  BY SyncLeads
<1>4. Leads(Get({"s_max", "s_sum", "s_acc"}), h \cup {"s_acc", "s_max", "s_sum"}, {}, {}, h2, r2, w2)
  BY GetLeads
<1> QED BY <1>1, <1>2, <1>3, <1>4, Then DEF DecodeSplit

(* Substitution first puts lower; ends after a barrier with lower touched. *)
LEMMA SubstitutionLeads ==
  ASSUME NEW h, NEW r, NEW w, NEW h2, NEW r2, NEW w2, {"lower"} \cap r = {}, h2 \subseteq h, {"lower"} \subseteq r2
  PROVE  Leads(Substitution, h, r, w, h2, r2, w2)
<1>1. Leads(Put({"lower"}), h, r, w, h \cup {"lower"}, r, w \cup {"lower"})
  BY PutLeads
<1>2. Leads(Sync, h \cup {"lower"}, r, w \cup {"lower"}, h \cup {"lower"}, {}, {})
  BY SyncLeads
<1>3. Leads(Get({"lower"}), h \cup {"lower"}, {}, {}, h2, r2, w2)
  BY GetLeads
<1> QED BY <1>1, <1>2, <1>3, Then DEF Substitution

(* ScanTiles reads S, put before; first puts Ub and Ue; leaves Ub and Ue   *)
(* put; ends at a barrier.                                                 *)
LEMMA ScanTilesLeads ==
  ASSUME NEW h, NEW r, NEW w, NEW h2, NEW r2, NEW w2, {"S"} \subseteq h, {"S"} \cap w = {},
         {"Ub", "Ue"} \cap r = {}, h2 \subseteq h \cup {"Ub", "Ue"}
  PROVE  Leads(ScanTiles, h, r, w, h2, r2, w2)
<1>1. Leads(Get({"S"}), h, r, w, h, r \cup {"S"}, w)
  BY GetLeads
<1>2. Leads(Put({"Ub", "Ue"}), h, r \cup {"S"}, w, h \cup {"Ub", "Ue"}, r \cup {"S"}, w \cup {"Ub", "Ue"})
  BY PutLeads
<1>3. Leads(Sync, h \cup {"Ub", "Ue"}, r \cup {"S"}, w \cup {"Ub", "Ue"}, h2, r2, w2)
  BY SyncLeads
<1> QED BY <1>1, <1>2, <1>3, Then DEF ScanTiles

(* ScanElements reads Ub, put before; first puts S, Se and Ue; leaves S, Se*)
(* and Ue put; ends at a barrier.                                          *)
LEMMA ScanElementsLeads ==
  ASSUME NEW h, NEW r, NEW w, NEW h2, NEW r2, NEW w2, {"Ub"} \subseteq h, {"Ub"} \cap w = {},
         {"S", "Se", "Ue"} \cap r = {}, h2 \subseteq h \cup {"S", "Se", "Ue"}
  PROVE  Leads(ScanElements, h, r, w, h2, r2, w2)
<1>1. Leads(Get({"Ub"}), h, r, w, h, r \cup {"Ub"}, w)
  BY GetLeads
<1>2. Leads(Put({"Ue", "Se", "S"}), h, r \cup {"Ub"}, w,
            h \cup {"S", "Se", "Ue"}, r \cup {"Ub"}, w \cup {"S", "Se", "Ue"})
  BY PutLeads
<1>3. Leads(Sync, h \cup {"S", "Se", "Ue"}, r \cup {"Ub"}, w \cup {"S", "Se", "Ue"}, h2, r2, w2)
  BY SyncLeads
<1> QED BY <1>1, <1>2, <1>3, Then DEF ScanElements

(* ScanPass reads S, put before; first puts Ub and Ue; leaves S put; ends  *)
(* at a barrier.                                                           *)
LEMMA ScanPassLeads ==
  ASSUME NEW h, NEW r, NEW w, NEW h2, NEW r2, NEW w2, {"S"} \subseteq h, {"S"} \cap w = {},
         {"Ub", "Ue"} \cap r = {}, h2 \subseteq h \cup {"S"}
  PROVE  Leads(ScanPass, h, r, w, h2, r2, w2)
<1>1. Leads(ScanTiles, h, r, w, h \cup {"Ub", "Ue"}, {}, {})
  BY ScanTilesLeads
<1>2. Leads(ScanElements, h \cup {"Ub", "Ue"}, {}, {}, h \cup {"S", "Se", "Ue"}, {}, {})
  BY ScanElementsLeads
<1>3. Leads(Get({"Se", "Ue"}), h \cup {"S", "Se", "Ue"}, {}, {}, h \cup {"S"}, {"Se", "Ue"}, {})
  BY GetLeads
<1>4. Leads(Put({"S"}), h \cup {"S"}, {"Se", "Ue"}, {}, h \cup {"S"}, {"Se", "Ue"}, {"S"})
  BY PutLeads
<1>5. Leads(ScanTiles \o ScanElements \o Get({"Se", "Ue"}) \o Put({"S"}), h, r, w,
            h \cup {"S"}, {"Se", "Ue"}, {"S"})
  BY <1>1, <1>2, <1>3, <1>4, Then
<1>6. Leads(Sync, h \cup {"S"}, {"Se", "Ue"}, {"S"}, h2, r2, w2)
  BY SyncLeads
<1> QED BY <1>5, <1>6, Then DEF ScanPass

(* MlxScan first puts S; ends after a barrier with S touched.              *)
LEMMA MlxScanLeads ==
  ASSUME NEW h, NEW r, NEW w, NEW h2, NEW r2, NEW w2, {"S"} \cap r = {}, h2 \subseteq h, {"S"} \subseteq r2
  PROVE  Leads(MlxScan, h, r, w, h2, r2, w2)
<1>1. Leads(Put({"S"}), h, r, w, h \cup {"S"}, r, w \cup {"S"})
  BY PutLeads
<1>2. Leads(Sync, h \cup {"S"}, r, w \cup {"S"}, h \cup {"S"}, {}, {})
  BY SyncLeads
<1>3. Leads(Twice(ScanPass), h \cup {"S"}, {}, {}, h \cup {"S"}, {}, {})
  <2>1. Leads(ScanPass, h \cup {"S"}, {}, {}, h \cup {"S"}, {}, {})
    BY ScanPassLeads
  <2> QED BY <2>1, TwiceLeads
<1>4. Leads(Get({"S"}), h \cup {"S"}, {}, {}, h2, r2, w2)
  BY GetLeads
<1> QED BY <1>1, <1>2, <1>3, <1>4, Then DEF MlxScan

(* MlxStepSum reads k and q, put before; first puts parts; ends after a    *)
(* barrier with parts touched.                                             *)
LEMMA MlxStepSumLeads ==
  ASSUME NEW units \in {CubeUnits, RowUnits}, NEW h, NEW r, NEW w, NEW h2, NEW r2, NEW w2, {"k", "q"} \subseteq h,
         {"k", "q"} \cap w = {}, {"parts"} \cap r = {}, h2 \subseteq h, {"parts"} \subseteq r2
  PROVE  Leads(MlxStepSum(units), h, r, w, h2, r2, w2)
<1>1. Leads(Get({"q", "k"}), h, r, w, h, r \cup {"k", "q"}, w)
  BY GetLeads
<1>2. Leads(Put({"parts"}), h, r \cup {"k", "q"}, w, h \cup {"parts"}, r \cup {"k", "q"}, w \cup {"parts"})
  BY PutLeads
<1>3. Leads(Sync, h \cup {"parts"}, r \cup {"k", "q"}, w \cup {"parts"}, h \cup {"parts"}, {}, {})
  BY SyncLeads
<1>4. Leads(GetBy(units, {"parts"}), h \cup {"parts"}, {}, {}, h2, r2, w2)
  BY GetByLeads
<1> QED BY <1>1, <1>2, <1>3, <1>4, Then DEF MlxStepSum

(* MlxStep ends after a barrier with parts touched.                        *)
LEMMA MlxStepLeads ==
  ASSUME NEW h, NEW r, NEW w, NEW h2, NEW r2, NEW w2, h2 \subseteq h, {"parts"} \subseteq r2
  PROVE  Leads(MlxStep, h, r, w, h2, r2, w2)
<1>1. Leads(Twice(Sync \o Put({"q", "k"}) \o Sync \o MlxStepSum(CubeUnits) \o Sync \o MlxStepSum(RowUnits)), h, r,
            w,
            h, {"parts"}, {})
  <2>1. Leads((Sync \o Put({"q", "k"}) \o Sync \o MlxStepSum(CubeUnits) \o Sync \o MlxStepSum(RowUnits)), h, r \cup
              {"parts"}, w,
              h, {"parts"}, {})
    <3>1. Leads(Sync, h, r \cup {"parts"}, w, h, {}, {})
      BY SyncLeads
    <3>2. Leads(Put({"q", "k"}), h, {}, {}, h \cup {"k", "q"}, {}, {"k", "q"})
      BY PutLeads
    <3>3. Leads(Sync, h \cup {"k", "q"}, {}, {"k", "q"}, h \cup {"k", "q"}, {}, {})
      BY SyncLeads
    <3>4. Leads(MlxStepSum(CubeUnits), h \cup {"k", "q"}, {}, {}, h \cup {"k", "q"}, {"parts"}, {})
      BY MlxStepSumLeads
    <3>5. Leads(Sync \o Put({"q", "k"}) \o Sync \o MlxStepSum(CubeUnits), h, r \cup {"parts"}, w,
                h \cup {"k", "q"}, {"parts"}, {})
      BY <3>1, <3>2, <3>3, <3>4, Then
    <3>6. Leads(Sync, h \cup {"k", "q"}, {"parts"}, {}, h \cup {"k", "q"}, {}, {})
      BY SyncLeads
    <3>7. Leads(MlxStepSum(RowUnits), h \cup {"k", "q"}, {}, {}, h, {"parts"}, {})
      BY MlxStepSumLeads
    <3> QED BY <3>5, <3>6, <3>7, Then
  <2> QED BY <2>1, TwiceLeads
<1> QED BY <1>1, Weaken DEF MlxStep

(* RowState first puts ga, gm, gr, gs and gz; ends after a barrier with ga,*)
(* gm, gr, gs and gz touched.                                              *)
LEMMA RowStateLeads ==
  ASSUME NEW h, NEW r, NEW w, NEW h2, NEW r2, NEW w2, {"ga", "gm", "gr", "gs", "gz"} \cap r = {}, h2 \subseteq h,
         {"ga", "gm", "gr", "gs", "gz"} \subseteq r2
  PROVE  Leads(RowState, h, r, w, h2, r2, w2)
<1>1. Leads(PutBy(RowUnits, {"gm", "gs", "ga", "gr", "gz"}), h, r, w,
            h \cup {"ga", "gm", "gr", "gs", "gz"}, r, w \cup {"ga", "gm", "gr", "gs", "gz"})
  BY PutByLeads
<1>2. Leads(Sync, h \cup {"ga", "gm", "gr", "gs", "gz"}, r, w \cup {"ga", "gm", "gr", "gs", "gz"},
            h \cup {"ga", "gm", "gr", "gs", "gz"}, {}, {})
  BY SyncLeads
<1>3. Leads(GetBy(Lead, {"gm", "gs", "ga", "gr", "gz"}), h \cup {"ga", "gm", "gr", "gs", "gz"}, {}, {}, h2, r2, w2)
  BY GetByLeads
<1> QED BY <1>1, <1>2, <1>3, Then DEF RowState

(* RowWeights first puts gsum; ends after a barrier with gsum touched.     *)
LEMMA RowWeightsLeads ==
  ASSUME NEW h, NEW r, NEW w, NEW h2, NEW r2, NEW w2, {"gsum"} \cap r = {}, h2 \subseteq h, {"gsum"} \subseteq r2
  PROVE  Leads(RowWeights, h, r, w, h2, r2, w2)
<1>1. Leads(PutBy(RowUnits, {"gsum"}), h, r, w, h \cup {"gsum"}, r, w \cup {"gsum"})
  BY PutByLeads
<1>2. Leads(Sync, h \cup {"gsum"}, r, w \cup {"gsum"}, h \cup {"gsum"}, {}, {})
  BY SyncLeads
<1>3. Leads(GetBy(Lead, {"gsum"}), h \cup {"gsum"}, {}, {}, h2, r2, w2)
  BY GetByLeads
<1> QED BY <1>1, <1>2, <1>3, Then DEF RowWeights

(* MlxDecode first puts tm, to and ts; ends after a barrier with tm, to and*)
(* ts touched.                                                             *)
LEMMA MlxDecodeLeads ==
  ASSUME NEW h, NEW r, NEW w, NEW h2, NEW r2, NEW w2, {"tm", "to", "ts"} \cap r = {}, h2 \subseteq h,
         {"tm", "to", "ts"} \subseteq r2
  PROVE  Leads(MlxDecode, h, r, w, h2, r2, w2)
<1>1. Leads(PutBy(RowUnits, {"tm", "ts"}), h, r, w, h \cup {"tm", "ts"}, r, w \cup {"tm", "ts"})
  BY PutByLeads
<1>2. Leads(Put({"to"}), h \cup {"tm", "ts"}, r, w \cup {"tm", "ts"},
            h \cup {"tm", "to", "ts"}, r, w \cup {"tm", "to", "ts"})
  BY PutLeads
<1>3. Leads(Sync, h \cup {"tm", "to", "ts"}, r, w \cup {"tm", "to", "ts"}, h \cup {"tm", "to", "ts"}, {}, {})
  BY SyncLeads
<1>4. Leads(Get({"tm", "ts", "to"}), h \cup {"tm", "to", "ts"}, {}, {}, h2, r2, w2)
  BY GetLeads
<1> QED BY <1>1, <1>2, <1>3, <1>4, Then DEF MlxDecode
-----------------------------------------------------------------------------
(* In every kernel a barrier stands where a read and a put must not meet,  *)
(* and what is read was put.                                               *)
LEMMA ProgramsSynced ==
  \A k \in Programs : Synced(k.program)
<1>1. Leads(Plan, {}, {}, {}, {}, {}, {})
  BY PlanLeads
<1>2. Leads(StateForward, {}, {}, {}, {}, {}, {})
  BY StateForwardLeads
<1>3. Leads(StateBackward, {}, {}, {}, {}, {}, {})
  BY StateBackwardLeads
<1>4. Leads(Prep, {}, {}, {}, {}, {"bs", "rows", "tm_diag", "tm_row"}, {})
  BY PrepLeads
<1>5. Leads(Output, {}, {}, {}, {}, {}, {})
  BY OutputLeads
<1>6. Leads(DvLocal, {}, {}, {}, {}, {}, {})
  BY DvLocalLeads
<1>7. Leads(Dvb, {}, {}, {}, {}, {"red"}, {})
  BY DvbLeads
<1>8. Leads(DState, {}, {}, {}, {}, {"red"}, {})
  BY DStateLeads
<1>9. Synced(Plan) /\ Synced(StateForward) /\ Synced(StateBackward) /\ Synced(Prep) /\ Synced(Output) /\
      Synced(DvLocal) /\ Synced(Dvb) /\ Synced(DState)
  BY <1>1, <1>2, <1>3, <1>4, <1>5, <1>6, <1>7, <1>8, LeadsSynced
<1>10. Leads(DAttn, {}, {}, {}, {}, {"dpm", "ks", "qs", "r4"}, {})
  BY DAttnLeads
<1>11. Leads(DWy, {}, {}, {}, {}, {"red"}, {})
  BY DWyLeads
<1>12. Leads(CombineSums, {}, {}, {}, {}, {"dg", "rb"}, {})
  BY CombineSumsLeads
<1>13. Leads(StateForwardWide, {}, {}, {}, {}, {}, {})
  BY StateForwardWideLeads
<1>14. Leads(StateBackwardWide, {}, {}, {}, {}, {}, {})
  BY StateBackwardWideLeads
<1>15. Leads(DStateWide, {}, {}, {}, {}, {"red"}, {})
  BY DStateWideLeads
<1>16. Leads(TcPrep, {}, {}, {}, {}, {"s_t", "s_x"}, {})
  BY TcPrepLeads
<1>17. Leads(TcWu, {}, {}, {}, {}, {"s_t", "s_x"}, {})
  BY TcWuLeads
<1>18. Synced(DAttn) /\ Synced(DWy) /\ Synced(CombineSums) /\ Synced(StateForwardWide) /\
      Synced(StateBackwardWide) /\ Synced(DStateWide) /\ Synced(TcPrep) /\ Synced(TcWu)
  BY <1>10, <1>11, <1>12, <1>13, <1>14, <1>15, <1>16, <1>17, LeadsSynced
<1>19. Leads(TcStateForward, {}, {}, {}, {}, {}, {"s_k", "s_w"})
  BY TcStateForwardLeads
<1>20. Leads(TcOutput, {}, {}, {}, {}, {"s_q", "s_s", "s_v"}, {})
  BY TcOutputLeads
<1>21. Leads(TcDvLocal, {}, {}, {}, {}, {"s_x"}, {})
  BY TcDvLocalLeads
<1>22. Leads(TcStateBackward, {}, {}, {}, {}, {}, {"s_w", "s_x"})
  BY TcStateBackwardLeads
<1>23. Leads(ChunkRow, {}, {}, {}, {}, {"scratch2"}, {})
  BY ChunkRowLeads
<1>24. Leads(Candidates, {}, {}, {}, {}, {}, {})
  BY CandidatesLeads
<1>25. Leads(Refinement, {}, {}, {}, {}, {}, {})
  BY RefinementLeads
<1>26. Leads(Down, {}, {}, {}, {}, {"slice"}, {})
  BY DownLeads
<1>27. Synced(TcStateForward) /\ Synced(TcOutput) /\ Synced(TcDvLocal) /\ Synced(TcStateBackward) /\
      Synced(ChunkRow) /\ Synced(Candidates) /\ Synced(Refinement) /\ Synced(Down)
  BY <1>19, <1>20, <1>21, <1>22, <1>23, <1>24, <1>25, <1>26, LeadsSynced
<1>28. Leads(DecodeSplit, {}, {}, {}, {}, {"s_acc", "s_max", "s_sum"}, {})
  BY DecodeSplitLeads
<1>29. Leads(Substitution, {}, {}, {}, {}, {"lower"}, {})
  BY SubstitutionLeads
<1>30. Leads(MlxScan, {}, {}, {}, {}, {"S"}, {})
  BY MlxScanLeads
<1>31. Leads(MlxStep, {}, {}, {}, {}, {"parts"}, {})
  BY MlxStepLeads
<1>32. Leads(RowState, {}, {}, {}, {}, {"ga", "gm", "gr", "gs", "gz"}, {})
  BY RowStateLeads
<1>33. Leads(RowWeights, {}, {}, {}, {}, {"gsum"}, {})
  BY RowWeightsLeads
<1>34. Leads(MlxDecode, {}, {}, {}, {}, {"tm", "to", "ts"}, {})
  BY MlxDecodeLeads
<1>35. Synced(DecodeSplit) /\ Synced(Substitution) /\ Synced(MlxScan) /\ Synced(MlxStep) /\ Synced(RowState) /\
      Synced(RowWeights) /\ Synced(MlxDecode)
  BY <1>28, <1>29, <1>30, <1>31, <1>32, <1>33, <1>34, LeadsSynced
<1>36. ASSUME NEW norm \in BOOLEAN
      PROVE  Synced(Step(norm)) /\ Synced(OutputWide(norm)) /\ Synced(DvLocalWide(norm)) /\
      Synced(DAttnWide(norm)) /\ Synced(DWyWide(norm)) /\ Synced(TcDqk(norm)) /\ Synced(TcWy(norm))
  <2>1. Leads(Step(norm), {}, {}, {}, {}, {"out_parts"}, {})
    BY StepLeads
  <2>2. Leads(OutputWide(norm), {}, {}, {}, {}, {}, {})
    BY OutputWideLeads
  <2>3. Leads(DvLocalWide(norm), {}, {}, {}, {}, {}, {})
    BY DvLocalWideLeads
  <2>4. Leads(DAttnWide(norm), {}, {}, {}, {}, {}, {})
    BY DAttnWideLeads
  <2>5. Leads(DWyWide(norm), {}, {}, {}, {}, {"red"}, {})
    BY DWyWideLeads
  <2>6. Leads(TcDqk(norm), {}, {}, {}, {}, {"red"}, {})
    BY TcDqkLeads
  <2>7. Leads(TcWy(norm), {}, {}, {}, {}, {"rg"}, {})
    BY TcWyLeads
  <2>8. Synced(Step(norm)) /\ Synced(OutputWide(norm)) /\ Synced(DvLocalWide(norm)) /\ Synced(DAttnWide(norm)) /\
      Synced(DWyWide(norm)) /\ Synced(TcDqk(norm)) /\ Synced(TcWy(norm))
    BY <2>1, <2>2, <2>3, <2>4, <2>5, <2>6, <2>7, LeadsSynced
  <2> QED BY <2>8
<1> QED BY <1>9, <1>18, <1>27, <1>35, <1>36 DEF Programs

-----------------------------------------------------------------------------
(* Every unit that reads shares of a buffer finds in each what the kernel's  *)
(* text says was last put there, in every kernel, however many units a cube  *)
(* has and however far apart they run between barriers.                    *)
THEOREM ReadsAreExact == ASSUME CubeAssumption PROVE CubeSpec => []ReadsExact
<1>1. CubeInit => IInv
  BY InitHolds, ProgramsSynced DEF CubeInit
<1>2. IInv => Synced(Program)
  BY ProgramsSynced DEF IInv, CubeTypeOK, Program
<1>3. IInv /\ [CubeNext]_cubeVars => IInv'
  BY <1>2, StepKeeps
<1>4. IInv => ReadsExact
  BY <1>2, InvReads
<1> QED BY <1>1, <1>3, <1>4, PTL DEF CubeSpec
=============================================================================
