--------------------------- MODULE RowBoundsSearch ---------------------------
(***************************************************************************)
(* One unit of a GPU kernel finding the keys its query row sees: row_bounds *)
(* of dash-ops attention/kernels.rs, with the binary search sequence_of     *)
(* taken one probe at a time.  Units share nothing they write here (each    *)
(* writes the interval of its own row), so one unit is the whole of it.     *)
(*                                                                         *)
(* The offsets of a packed call are a tensor on the device that nothing     *)
(* checks; Masks may hold calls whose offsets break the contract, and the   *)
(* properties say which promises survive that.                             *)
(***************************************************************************)
EXTENDS AttentionMask

CONSTANTS Masks,      \* the calls
          Overhang,   \* rows of the last block that are past the queries
          Block,      \* keys per block and queries per step of the backward
          HalfRange   \* 2^31: integers are in -HalfRange .. HalfRange - 1

ASSUME MasksAssumption == \A m \in Masks : IsCall(m)
ASSUME SizesAssumption ==
  /\ Overhang \in Nat /\ 4 * Overhang < HalfRange
  /\ Block \in Nat \ {0}
  /\ HalfRange \in Nat \ {0}

\* The kernels take a call only when its positions are this few.
ASSUME TakenAssumption == \A m \in Masks : 4 * (m.tq + m.tk) < HalfRange

VARIABLES mask,    \* the call
          row,     \* this unit's query row
          lo, hi,  \* what is left of the search
          bounds   \* the interval once known, before that <<>>

vars == <<mask, row, lo, hi, bounds>>

Init ==
  /\ mask \in Masks
  /\ row \in 0 .. mask.tq + Overhang - 1
  /\ lo = 0
  /\ hi = mask.seqs + 1
  /\ bounds = <<>>

Searches == Packed(mask) /\ row < mask.tq
Mid == (lo + hi) \div 2

\* Mutant: the upper half keeps its middle.
ProbeKeepsMid ==
  /\ bounds = <<>> /\ Searches /\ lo < hi
  /\ IF mask.cuq[Mid] <= row THEN lo' = Mid /\ UNCHANGED hi
                             ELSE hi' = Mid /\ UNCHANGED lo
  /\ UNCHANGED <<mask, row, bounds>>

\* One turn of the search.
Probe ==
  /\ bounds = <<>> /\ Searches /\ lo < hi
  /\ IF mask.cuq[Mid] <= row THEN lo' = Mid + 1 /\ UNCHANGED hi
                             ELSE hi' = Mid /\ UNCHANGED lo
  /\ UNCHANGED <<mask, row, bounds>>

\* The search is over: the interval within the sequence lo - 1.
Found ==
  /\ bounds = <<>> /\ Searches /\ lo >= hi
  /\ bounds' = BoundsInSequence(mask, row, lo - 1)
  /\ UNCHANGED <<mask, row, lo, hi>>

\* Arithmetic alone, or a row past the queries.
Unsearched ==
  /\ bounds = <<>> /\ ~Searches
  /\ bounds' = IF Packed(mask) THEN NoKeys(mask) ELSE AlignedBounds(mask, row)
  /\ UNCHANGED <<mask, row, lo, hi>>

Next == Probe \/ Found \/ Unsearched

Spec == Init /\ [][Next]_vars /\ WF_vars(Next)

-----------------------------------------------------------------------------

\* Each variable has its values: the search stays among the offsets there are.
TypeOK ==
  /\ IsCall(mask)
  /\ row \in Nat
  /\ lo \in 0 .. mask.seqs + 1
  /\ hi \in 0 .. mask.seqs + 1
  /\ bounds = <<>> \/ bounds \in Int \X Int

\* Whatever the offsets say, the search reads only offsets that exist, and an
\* interval that is not empty lies within the keys (cube.rs: "the kernel bounds
\* every index it forms ... whatever the offsets say").
InRange ==
  /\ lo <= hi /\ hi <= mask.seqs + 1
  /\ bounds # <<>> /\ row < mask.tq =>
       bounds = NoKeys(mask) \/ (0 <= bounds[1] /\ bounds[1] < bounds[2] /\ bounds[2] <= mask.tk)

\* The search ends at the sequence that holds the row: everything before lo is
\* at or before it, everything from hi on is past it.
SearchSplits ==
  IsMask(mask) /\ Searches =>
    /\ \A s \in 0 .. lo - 1 : mask.cuq[s] <= row
    /\ \A s \in hi .. mask.seqs : row < mask.cuq[s]
    /\ bounds # <<>> => lo - 1 = SequenceOf(mask.cuq, mask.seqs, row)

\* The interval, padding aside, is exactly the keys the reference lets the row
\* see; rows past the queries see none.
BoundsAreReference ==
  IsMask(mask) /\ bounds # <<>> =>
    (bounds[1] .. bounds[2] - 1) \ mask.pad = IF row < mask.tq THEN Sees(mask, row) ELSE {}

\* Intervals that are not empty never move back from one query to a later one:
\* what the backward's step test and query range rest on.
NeverMovesBack ==
  IsMask(mask) /\ bounds # <<>> /\ bounds # NoKeys(mask) =>
    \A r \in 0 .. row - 1 :
      RowBounds(mask, r) # NoKeys(mask) =>
        RowBounds(mask, r)[1] <= bounds[1] /\ RowBounds(mask, r)[2] <= bounds[2]

KeyBlocks == {k0 \in 0 .. mask.tk - 1 : k0 % Block = 0}

\* Every block of keys this row sees something of has the row in the range of
\* queries its cube sweeps: no gradient is missed.
RangeHoldsRow ==
  IsMask(mask) /\ bounds # <<>> /\ row < mask.tq =>
    \A k0 \in KeyBlocks :
      LET k1 == Least(k0 + Block, mask.tk)
          r == QueryRange(mask, k0, k1)
      IN bounds[1] < k1 /\ k0 < bounds[2] => r[1] <= row /\ row < r[2]

\* A step or a tile that goes unmasked has nothing to hide from this row,
\* padding aside (padded calls are always masked).
UnmaskedSeesAll ==
  IsMask(mask) /\ bounds # <<>> /\ row < mask.tq =>
    LET q0 == row - (row % Block)
        b == [r \in q0 .. q0 + Block - 1 |-> RowBounds(mask, r)]
    IN \A k0 \in KeyBlocks :
         \/ ~StepMasked(mask, q0, k0, Block, b[q0], b[q0 + Block - 1])
         \/ ~TileMasked(mask, q0, Block, k0, Block, b)
         => bounds[1] <= k0 /\ k0 + Block <= bounds[2]

Fits(x) == -HalfRange <= x /\ x < HalfRange

\* Nothing row_bounds computes for offsets that keep the contract leaves the
\* width of its integers ("at most tq + tk + 1 ... so that nothing below leaves
\* i32").
FitsWidth ==
  IsMask(mask) =>
    LET at == row + mask.tk - mask.tq
        s == lo - 1
        start == mask.cuk[s]
        pos == row - mask.cuq[s] + (mask.cuk[s + 1] - start) - (mask.cuq[s + 1] - mask.cuq[s])
    IN /\ Fits(at - Left(mask)) /\ Fits(at + Right(mask) + 1)
       /\ Packed(mask) /\ s \in 0 .. mask.seqs - 1 =>
            /\ Fits(pos - Left(mask)) /\ Fits(pos + Right(mask) + 1)
            /\ Fits(start + Greatest(0, pos - Left(mask)))
            /\ Fits(start + Least(mask.cuk[s + 1] - start, pos + Right(mask) + 1))

\* The search ends.
Ends == <>(bounds # <<>>)
==============================================================================
