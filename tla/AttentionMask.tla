---------------------------- MODULE AttentionMask ----------------------------
(***************************************************************************)
(* Which keys a query of the attention operation sees, twice over.  The    *)
(* first half is the reference (dash-ops attention/reference.rs): a key is *)
(* hidden from a query pair by pair.  The second half is the arithmetic of *)
(* the GPU kernels (attention/kernels.rs), which never look at pairs: each *)
(* query sees one interval of keys, a block of queries sweeps one span of  *)
(* key tiles, a block of keys is swept by one range of queries, and a tile *)
(* is masked element by element only where it cuts somebody's interval.    *)
(*                                                                         *)
(* A call's mask is a record m:                                            *)
(*   tq, tk        how many queries and keys there are                     *)
(*   left, right   how far the options let a query see (Reach; unbounded   *)
(*                 is any number past tq + tk)                             *)
(*   kind          "none", "padding" or "packed"                           *)
(*   pad           the keys left out ("padding" only)                      *)
(*   seqs          the number of packed sequences ("packed" only), whose   *)
(*   cuq, cuk      offsets are functions on 0 .. seqs                      *)
(***************************************************************************)
EXTENDS Integers

Kinds == {"none", "padding", "packed"}

Packed(m) == m.kind = "packed"
Padded(m) == m.kind = "padding"

Least(a, b) == IF a <= b THEN a ELSE b
Greatest(a, b) == IF a <= b THEN b ELSE a

\* Offsets start at 0 and do not decrease; positions past the last one belong
\* to no sequence.
IsOffsets(cu, seqs, n) ==
  /\ cu \in [0 .. seqs -> 0 .. n]
  /\ cu[0] = 0
  /\ \A s, t \in 0 .. seqs : s <= t => cu[s] <= cu[t]

\* What a call checks of its mask: everything but the offsets' values, which
\* stay on the device.
IsCall(m) ==
  /\ m.tq \in Nat /\ m.tk \in Nat
  /\ m.left \in Nat /\ m.right \in Nat
  /\ m.kind \in Kinds
  /\ m.pad \subseteq 0 .. m.tk - 1
  /\ ~Padded(m) => m.pad = {}
  /\ m.seqs \in Nat
  /\ m.cuq \in [0 .. m.seqs -> Int] /\ m.cuk \in [0 .. m.seqs -> Int]

\* A call that keeps the contract.
IsMask(m) ==
  /\ IsCall(m)
  /\ Packed(m) => IsOffsets(m.cuq, m.seqs, m.tq) /\ IsOffsets(m.cuk, m.seqs, m.tk)

-----------------------------------------------------------------------------
(* The reference: hidden pair by pair. *)

\* A side of the window binds only when it reaches less than every position.
Binds(reach, m) == reach < m.tq + m.tk + 1

\* `rel` is the key's place in its sequence, `pos` the place the query is
\* aligned with.
OutsideWindow(m, pos, rel) ==
  \/ Binds(m.right, m) /\ rel > pos + m.right
  \/ Binds(m.left, m) /\ rel < pos - m.left

\* Sequence s holds position `at`: what the count of ends at or before it and
\* the two range tests come to.
Holds(cu, s, at) == cu[s] <= at /\ at < cu[s + 1]

PackedHidden(m, i, j) ==
  ~ \E s \in 0 .. m.seqs - 1 :
      /\ Holds(m.cuq, s, i)
      /\ Holds(m.cuk, s, j)
      /\ LET qLen == m.cuq[s + 1] - m.cuq[s]
             kLen == m.cuk[s + 1] - m.cuk[s]
         IN ~OutsideWindow(m, i - m.cuq[s] + kLen - qLen, j - m.cuk[s])

Hidden(m, i, j) ==
  \/ j \in m.pad
  \/ IF Packed(m) THEN PackedHidden(m, i, j)
                  ELSE OutsideWindow(m, i + m.tk - m.tq, j)

\* What the operation promises query i attends to.
Sees(m, i) == {j \in 0 .. m.tk - 1 : ~Hidden(m, i, j)}

-----------------------------------------------------------------------------
(* The kernels: intervals. *)

Unbounded(m) == m.tq + m.tk + 1

\* Mutant: the reach as the options give it, however large.
LeftUncut(m) == m.left

\* Mask::new: reaches are cut to a number that stands for no bound.
Left(m) == Least(m.left, Unbounded(m))
Right(m) == Least(m.right, Unbounded(m))

\* The interval of a query that sees no key, and of a row past the queries.
NoKeys(m) == <<m.tk, 0>>

\* Mutant: the query's own position falls off the end of its interval.
AlignedBoundsExclusive(m, row) ==
  LET pos == row + m.tk - m.tq
      lo == Greatest(0, pos - Left(m))
      hi == Least(m.tk, pos + Right(m))
  IN IF row >= m.tq \/ hi <= lo THEN NoKeys(m) ELSE <<lo, hi>>

AlignedBounds(m, row) ==
  LET pos == row + m.tk - m.tq
      lo == Greatest(0, pos - Left(m))
      hi == Least(m.tk, pos + Right(m) + 1)
  IN IF row >= m.tq \/ hi <= lo THEN NoKeys(m) ELSE <<lo, hi>>

\* The last s with cu[s] <= pos: -1 before the first offset, seqs from the
\* last one on.  (RowBoundsSearch has the binary search that finds it.)
SequenceOf(cu, seqs, pos) ==
  CHOOSE s \in -1 .. seqs : \A t \in 0 .. seqs : cu[t] <= pos <=> t <= s

\* The interval of query `row` once its sequence s is found.
BoundsInSequence(m, row, s) ==
  LET qLen == m.cuq[s + 1] - m.cuq[s]
      kLen == m.cuk[s + 1] - m.cuk[s]
      pos == row - m.cuq[s] + kLen - qLen
      lo == Greatest(m.cuk[s] + Greatest(0, pos - Left(m)), 0)
      hi == Least(m.cuk[s] + Least(kLen, pos + Right(m) + 1), m.tk)
  IN IF s \notin 0 .. m.seqs - 1 \/ hi <= lo THEN NoKeys(m) ELSE <<lo, hi>>

RowBounds(m, row) ==
  IF ~Packed(m) THEN AlignedBounds(m, row)
  ELSE IF row >= m.tq THEN NoKeys(m)
  ELSE BoundsInSequence(m, row, SequenceOf(m.cuq, m.seqs, row))

\* Key c is in query row's interval.
InBounds(m, row, c) == RowBounds(m, row)[1] <= c /\ c < RowBounds(m, row)[2]

-----------------------------------------------------------------------------
(* The kernels: which queries see a block of keys [k0, k1). *)

\* The first query of sequence s whose interval ends after k0, and one past
\* the last whose interval starts before k1.
FirstIn(m, s, k0) ==
  LET qLen == m.cuq[s + 1] - m.cuq[s]
      kLen == m.cuk[s + 1] - m.cuk[s]
  IN m.cuq[s] + Greatest(0, Least(k0 - m.cuk[s] - (kLen - qLen) - Right(m), qLen))

EndIn(m, s, k1) ==
  LET qLen == m.cuq[s + 1] - m.cuq[s]
      kLen == m.cuk[s + 1] - m.cuk[s]
  IN m.cuq[s] + Greatest(0, Least(k1 - m.cuk[s] - (kLen - qLen) + Left(m), qLen))

PackedRange(m, k0, k1) ==
  LET sa == SequenceOf(m.cuk, m.seqs, k0)
      sb == SequenceOf(m.cuk, m.seqs, k1 - 1)
  IN IF sa >= m.seqs THEN <<0, 0>>
     ELSE << IF sa >= 0 THEN FirstIn(m, sa, k0) ELSE 0,
             IF sb >= m.seqs THEN m.cuq[m.seqs]
             ELSE IF sb >= 0 THEN EndIn(m, sb, k1) ELSE 0 >>

AlignedRange(m, k0, k1) ==
  << k0 - (m.tk - m.tq) - Right(m), k1 - (m.tk - m.tq) + Left(m) >>

\* Mutant: the window's left side, not its right, opens the range.
QueryRangeSwapped(m, k0, k1) ==
  << Greatest(0, Least(k0 - (m.tk - m.tq) - Left(m), m.tq)),
     Greatest(0, Least(k1 - (m.tk - m.tq) + Right(m), m.tq)) >>

QueryRange(m, k0, k1) ==
  LET r == IF Packed(m) THEN PackedRange(m, k0, k1) ELSE AlignedRange(m, k0, k1)
  IN << Greatest(0, Least(r[1], m.tq)), Greatest(0, Least(r[2], m.tq)) >>

-----------------------------------------------------------------------------
(* The kernels: when a tile needs no mask. *)

\* Every interval b gives holds all of [start, start + keys): what the warp's
\* latest start and earliest end say.
AllRowsSee(b, rows, start, keys) ==
  \A r \in rows : b[r][1] <= start /\ start + keys <= b[r][2]

\* Mutant: the last tile is taken as whole although keys run out in it.
TileMaskedPastEnd(m, row0, rows, start, keys, b) ==
  LET pos == row0 + m.tk - m.tq
  IN ~ (pos + rows - 1 - Left(m) <= start /\ start + keys - 1 <= pos + Right(m))

\* The forward's tile: keys [start, start + keys) and a warp's `rows` rows from
\* row0, whose intervals b holds.
TileMasked(m, row0, rows, start, keys, b) ==
  IF Packed(m)
  THEN ~AllRowsSee(b, row0 .. row0 + rows - 1, start, keys)
  ELSE LET pos == row0 + m.tk - m.tq
       IN ~ /\ pos + rows - 1 - Left(m) <= start
            /\ start + keys - 1 <= pos + Right(m)
            /\ start + keys <= m.tk

\* The backward's step: keys [k0, k0 + block) and queries [q0, q0 + block), whose
\* first and last rows have the intervals first and last.  Packed, the first
\* must end after the block and the last start before it; the rows between are
\* not looked at.
StepMasked(m, q0, k0, block, first, last) ==
  IF Packed(m)
  THEN ~ (last[1] <= k0 /\ k0 + block <= first[2])
  ELSE LET pos == q0 + m.tk - m.tq
       IN ~ /\ q0 + block <= m.tq
            /\ k0 + block <= m.tk
            /\ pos + block - 1 - Left(m) <= k0
            /\ k0 + block - 1 <= pos + Right(m)

-----------------------------------------------------------------------------
(* The kernels: the key tiles a block of queries sweeps. *)

\* The start of the union of the intervals b gives its rows, and its end.
SpanLo(m, b) ==
  CHOOSE lo \in {m.tk} \cup {b[r][1] : r \in DOMAIN b} :
    lo <= m.tk /\ \A r \in DOMAIN b : lo <= b[r][1]

SpanHi(m, b) ==
  CHOOSE hi \in {0} \cup {b[r][2] : r \in DOMAIN b} :
    0 <= hi /\ \A r \in DOMAIN b : b[r][2] <= hi

\* Mutant: a last tile that is not full is left out.
TilesFloor(lo, hi, tile) ==
  << lo \div tile, IF hi > lo THEN hi \div tile - lo \div tile ELSE 0 >>

\* The first key tile and how many follow, from the span [lo, hi).
Tiles(lo, hi, tile) ==
  << lo \div tile,
     IF hi > lo THEN (hi + tile - 1) \div tile - lo \div tile ELSE 0 >>
==============================================================================
