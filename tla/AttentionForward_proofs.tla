----------------------- MODULE AttentionForward_proofs -----------------------
(***************************************************************************)
(* The forward kernel's cube, for every call within the contract, any       *)
(* number of warps, rows to a warp and keys to a tile: its barriers keep    *)
(* the shared tiles whole, and every row it writes is the reference's.      *)
(***************************************************************************)
EXTENDS AttentionForward, AttentionMask_proofs, FiniteSetTheorems

-----------------------------------------------------------------------------
(* The invariant, in the terms of one warp at a time: no part of it speaks   *)
(* of what another warp has stored, which InStep alone brings together.      *)

Whole == [r \in BlockRows |-> RowBounds(mask, r)]
Sweep == Tiles(SpanLo(mask, Whole), SpanHi(mask, Whole), TileKeys)

Loaded(w) == pc[w] \notin {"bounds", "load"}
AtTile(w) == pc[w] \in {"scores", "pv", "store"}

\* A warp waits at the three barriers only, and sweeps the block's tiles in order.
Placed(w) ==
  /\ w \in waiting => pc[w] \in {"load", "scores", "store"}
  /\ pc[w] = "bounds" => w \notin waiting
  /\ ~Loaded(w) => step[w] = 0
  /\ Loaded(w) => sweep[w] = Sweep
  /\ AtTile(w) => step[w] < Sweep[2]

BoundsFound(w) ==
  pc[w] # "bounds" => \A r \in RowsOf(w) : bounds[r] = RowBounds(mask, r)

\* The warp's own share of the shared tiles and of the next one.
ShareIn(w) ==
  /\ w \in queries <=> Loaded(w)
  /\ AtTile(w) =>
       /\ \A x \in Share(w) : /\ kTile[x] = Fetched(Start(w), mask.tk)[x]
                              /\ vTile[x] = Fetched(Start(w), mask.tk)[x]
       /\ \A x \in PadShare(w) : pTile[x] = Fetched(Start(w), mask.tk)[x]
  /\ pc[w] \in {"pv", "store"} =>
       next[w] = Fetched(Start(w) + TileKeys, IF More(w) THEN mask.tk ELSE 0)

\* The key up to which the warp's rows have their sums, and their maxima.
Summand(w) ==
  CASE ~Loaded(w) -> 0
    [] pc[w] \in {"scores", "pv"} -> Start(w)
    [] pc[w] = "store" -> Start(w) + TileKeys
    [] OTHER -> mask.tk
Scored(w) == IF pc[w] = "pv" THEN Start(w) + TileKeys ELSE Summand(w)

Before(r, end) == {c \in Sees(mask, r) : c < end}
SumOf(S) == [c \in Keys |-> IF c \in S THEN 1 ELSE 0]

SumsKnown(w) ==
  \A r \in RowsOf(w) : r < mask.tq =>
    /\ r \notin spoilt
    /\ acc[r] = SumOf(Before(r, Summand(w)))
    /\ top[r] = (Before(r, Scored(w)) # {})
    /\ pc[w] = "pv" =>
         probs[r] = [x \in Slots |-> IF Start(w) + x \in Sees(mask, r) THEN Start(w) + x ELSE Unseen]

RowValue(r) == [sum |-> SumOf(Sees(mask, r)), finite |-> Sees(mask, r) # {}]

OutputsKnown(w) ==
  \A r \in RowsOf(w) :
    out[r] = IF pc[w] = "done" /\ r < mask.tq THEN RowValue(r) ELSE Pending

WarpInv(w) ==
  Placed(w) /\ BoundsFound(w) /\ ShareIn(w) /\ SumsKnown(w) /\ OutputsKnown(w)

IInv == TypeOK /\ InStep /\ \A w \in Warps : WarpInv(w)
-----------------------------------------------------------------------------
(* The block: its rows, its warps, its slots. *)

Geometry == mask \in Masks /\ cube \in 0 .. QBlocks - 1

\* The numbers a cube is cut by.
LEMMA Numbers ==
  ASSUME Geometry
  PROVE  /\ IsMask(mask) /\ IsCall(mask) /\ mask.tq \in Nat /\ mask.tk \in Nat
         /\ BlockQ \in Nat \ {0} /\ Q0 \in Nat
         /\ NumWarps \in Nat \ {0} /\ RowsPerWarp \in Nat \ {0} /\ TileKeys \in Nat \ {0}
<1>1. /\ IsMask(mask) /\ IsCall(mask) /\ mask.tq \in Nat /\ mask.tk \in Nat
  BY MasksAssumption, CallNumbers DEF Geometry, IsMask
<1>2. BlockQ \in Nat /\ BlockQ > 0
  <2>1. 1 * RowsPerWarp <= NumWarps * RowsPerWarp
    BY SizesAssumption, TimesOnward
  <2>2. NumWarps * RowsPerWarp \in Nat
    BY SizesAssumption
  <2> QED BY <2>1, <2>2, SizesAssumption DEF BlockQ
<1>3. QBlocks \in Nat
  BY <1>1, <1>2, RoundedUp DEF QBlocks
<1>4. QBlocks - 1 - cube \in Nat
  BY <1>3 DEF Geometry
<1>5. Q0 \in Nat
  BY <1>2, <1>4 DEF Q0
<1> QED BY <1>1, <1>2, <1>5, SizesAssumption

\* A warp's rows follow one another, and are of the block.
LEMMA WarpRows ==
  ASSUME Geometry, NEW w \in Warps
  PROVE  /\ Row0(w) \in Nat /\ RowsOf(w) \subseteq BlockRows /\ BlockRows \subseteq Nat
         /\ RowsOf(w) = Row0(w) .. Row0(w) + RowsPerWarp - 1
<1>1. w * RowsPerWarp \in Nat /\ w * RowsPerWarp + RowsPerWarp <= NumWarps * RowsPerWarp
  <2>1. (w + 1) * RowsPerWarp <= NumWarps * RowsPerWarp
    BY SizesAssumption, TimesOnward DEF Warps
  <2>2. (w + 1) * RowsPerWarp = w * RowsPerWarp + RowsPerWarp
    BY SizesAssumption DEF Warps
  <2>3. w * RowsPerWarp \in Nat
    BY SizesAssumption DEF Warps
  <2> QED BY <2>1, <2>2, <2>3
<1>2. Row0(w) \in Nat /\ Row0(w) >= Q0 /\ Row0(w) + RowsPerWarp <= Q0 + BlockQ
  BY <1>1, Numbers DEF Row0, BlockQ
<1> QED BY <1>2, Numbers DEF RowsOf, BlockRows

\* No row is two warps'.
LEMMA RowsApart ==
  ASSUME Geometry, NEW v \in Warps, NEW w \in Warps, v # w
  PROVE  RowsOf(v) \cap RowsOf(w) = {}
<1>1. ASSUME NEW a \in Warps, NEW b \in Warps, a < b PROVE Row0(a) + RowsPerWarp <= Row0(b)
  <2>1. (a + 1) * RowsPerWarp <= b * RowsPerWarp
    BY <1>1, SizesAssumption, TimesOnward DEF Warps
  <2>2. (a + 1) * RowsPerWarp = a * RowsPerWarp + RowsPerWarp
    BY SizesAssumption DEF Warps
  <2>3. a * RowsPerWarp \in Nat /\ b * RowsPerWarp \in Nat
    BY SizesAssumption DEF Warps
  <2> QED BY <2>1, <2>2, <2>3, Numbers DEF Row0
<1>2. v < w \/ w < v
  BY DEF Warps
<1>3. Row0(v) \in Nat /\ Row0(w) \in Nat
  BY WarpRows
<1> QED BY <1>1, <1>2, <1>3, Numbers DEF RowsOf

\* Every row is some warp's.
LEMMA RowsCovered ==
  ASSUME Geometry, NEW r \in BlockRows
  PROVE  \E w \in Warps : r \in RowsOf(w)
<1> DEFINE a == r - Q0
           w == a \div RowsPerWarp
<1>1. a \in Nat /\ a < NumWarps * RowsPerWarp /\ r = Q0 + a
  BY Numbers DEF BlockRows, BlockQ
<1> HIDE DEF a
<1>2. /\ w \in Nat /\ a % RowsPerWarp \in 0 .. RowsPerWarp - 1
      /\ a = w * RowsPerWarp + (a % RowsPerWarp)
  BY <1>1, SizesAssumption, Divided
<1>3. w < NumWarps
  BY <1>1, SizesAssumption, DividedBelow
<1> HIDE DEF w
<1>4. w \in Warps
  BY <1>2, <1>3, SizesAssumption DEF Warps
<1>5. w * RowsPerWarp \in Nat
  BY <1>2, SizesAssumption
<1>6. r \in RowsOf(w)
  BY <1>1, <1>2, <1>5, Numbers DEF RowsOf, Row0
<1> QED BY <1>4, <1>6

\* The warps' shares cover the tile; the first warp has all of the padding's.
LEMMA SlotsCovered ==
  /\ \A x \in Slots : \E w \in Warps : x \in Share(w)
  /\ 0 \in Warps /\ PadShare(0) = Slots
<1>1. ASSUME NEW x \in Slots PROVE \E w \in Warps : x \in Share(w)
  <2>1. x % NumWarps \in 0 .. NumWarps - 1
    BY SizesAssumption, Divided DEF Slots
  <2> QED BY <2>1 DEF Warps, Share
<1> QED BY <1>1, SizesAssumption DEF Warps, PadShare
-----------------------------------------------------------------------------
(* The sweep reaches every key some row of the block sees. *)

\* The tiles of the sweep hold every key of every row's interval.
LEMMA SweepHolds ==
  ASSUME Geometry
  PROVE  /\ Sweep \in Nat \X Nat
         /\ \A r \in BlockRows, c \in Int : InBounds(mask, r, c) =>
              Sweep[1] * TileKeys <= c /\ c < (Sweep[1] + Sweep[2]) * TileKeys
<1>1. IsMask(mask) /\ BlockRows \subseteq Nat /\ TileKeys \in Nat \ {0}
  BY Numbers DEF BlockRows
<1> QED BY <1>1, TilesHoldRows DEF Sweep, Whole

\* A key a row sees is a key, and in the row's interval.
LEMMA SeenInBounds ==
  ASSUME Geometry, NEW r \in BlockRows, r < mask.tq
  PROVE  /\ Sees(mask, r) \subseteq Keys
         /\ \A c \in Int : c \in Sees(mask, r) <=> InBounds(mask, r, c) /\ c \notin mask.pad
BY Numbers, SeenIsInBounds DEF BlockRows, Keys

\* So it is in the sweep.
LEMMA SeenInSweep ==
  ASSUME Geometry, NEW r \in BlockRows, r < mask.tq, NEW c \in Sees(mask, r)
  PROVE  /\ c \in Keys /\ Sweep[1] * TileKeys <= c
         /\ c < (Sweep[1] + Sweep[2]) * TileKeys
<1>1. c \in Keys /\ c \in Int /\ InBounds(mask, r, c)
  BY SeenInBounds DEF Keys
<1> QED BY <1>1, SweepHolds

\* A warp that has its rows' intervals and whose tile is whole sees through a slot
\* exactly the key that is there, by whichever of the two tests it goes.
LEMMA SlotSeen ==
  ASSUME Geometry, NEW w \in Warps, NEW r \in RowsOf(w), r < mask.tq, NEW x \in Slots,
         Start(w) \in Nat,
         \A q \in RowsOf(w) : bounds[q] = RowBounds(mask, q),
         pTile[x] = Fetched(Start(w), mask.tk)[x]
  PROVE  SeesSlot(w, r, x) <=> Start(w) + x \in Sees(mask, r)
<1> DEFINE k == Start(w) + x
           masked == TileMasked(mask, Row0(w), RowsPerWarp, Start(w), TileKeys, bounds)
<1>1. /\ IsMask(mask) /\ IsCall(mask) /\ mask.tq \in Nat /\ mask.tk \in Nat
      /\ RowsPerWarp \in Nat \ {0} /\ TileKeys \in Nat \ {0}
      /\ r \in BlockRows /\ r \in Nat /\ Row0(w) \in Nat
      /\ Row0(w) <= r /\ r <= Row0(w) + RowsPerWarp - 1
  BY Numbers, WarpRows
<1>2. k \in Nat /\ x \in Nat /\ x < TileKeys
  BY <1>1 DEF Slots
<1>3. /\ mask.pad \subseteq 0 .. mask.tk - 1
      /\ ~Padded(mask) => mask.pad = {}
  BY <1>1 DEF IsCall
<1>4. k \in Sees(mask, r) <=> InBounds(mask, r, k) /\ k \notin mask.pad
  BY <1>1, <1>2, SeenInBounds
<1>5. CASE Padded(mask) \/ masked
  <2>1. SeesSlot(w, r, x) <=> InBounds(mask, r, k) /\ ~PaddingIn(x)
    BY <1>5 DEF SeesSlot, InBounds
  <2>2. pTile[x] = IF k < mask.tk THEN k ELSE Zero
    BY DEF Fetched
  <2>3. InBounds(mask, r, k) => k < mask.tk
    <3>1. RowBounds(mask, r)[2] \in Nat /\ RowBounds(mask, r)[2] <= mask.tk
      BY <1>1, BoundsInKeys
    <3> QED BY <1>1, <1>2, <3>1 DEF InBounds
  <2>4. k < mask.tk => (PaddingIn(x) <=> k \in mask.pad)
    BY <1>2, <1>3, <2>2 DEF PaddingIn
  <2> QED BY <1>4, <2>1, <2>3, <2>4
<1>6. CASE ~Padded(mask) /\ ~masked
  <2>1. SeesSlot(w, r, x)
    BY <1>6 DEF SeesSlot
  <2>2. \A q \in Row0(w) .. Row0(w) + RowsPerWarp - 1 : bounds[q] = RowBounds(mask, q)
    BY WarpRows
  <2>3. RowBounds(mask, r)[1] <= Start(w) /\ Start(w) + TileKeys <= RowBounds(mask, r)[2]
    BY <1>1, <1>6, <2>2, UnmaskedTile
  <2>4. RowBounds(mask, r)[1] \in Nat /\ RowBounds(mask, r)[2] \in Nat
    BY <1>1, BoundsInKeys
  <2>5. InBounds(mask, r, k)
    BY <1>1, <1>2, <2>3, <2>4 DEF InBounds
  <2> QED BY <1>3, <1>4, <1>6, <2>1, <2>5
<1> QED BY <1>5, <1>6
-----------------------------------------------------------------------------
(* What one warp's step leaves of the others. *)

\* What is worked out from the call alone stays while the call does.
LEMMA Fixed ==
  ASSUME UNCHANGED call
  PROVE  /\ mask' = mask /\ cube' = cube /\ QBlocks' = QBlocks
         /\ BlockRows' = BlockRows /\ Keys' = Keys /\ Sweep' = Sweep /\ Tile' = Tile
         /\ \A w \in Warps : RowsOf(w)' = RowsOf(w)
         /\ \A r : RowValue(r)' = RowValue(r)
         /\ \A r, e : Before(r, e)' = Before(r, e)
         /\ \A S : SumOf(S)' = SumOf(S)
<1>1. mask' = mask /\ cube' = cube
  BY DEF call
<1>2. Q0' = Q0 /\ QBlocks' = QBlocks
  BY <1>1 DEF Q0, QBlocks
<1>3. BlockRows' = BlockRows /\ Keys' = Keys /\ Tile' = Tile
  BY <1>1, <1>2 DEF BlockRows, Keys, Tile
<1>4. Sweep' = Sweep
  BY <1>1, <1>3 DEF Sweep, Whole
<1>5. \A w \in Warps : RowsOf(w)' = RowsOf(w)
  BY <1>2 DEF RowsOf, Row0
<1>6. /\ \A r : RowValue(r)' = RowValue(r)
      /\ \A r, e : Before(r, e)' = Before(r, e)
      /\ \A S : SumOf(S)' = SumOf(S)
  BY <1>1, <1>3 DEF RowValue, SumOf, Before
<1> QED BY <1>1, <1>2, <1>3, <1>4, <1>5, <1>6

\* All that v's invariant speaks of, but for its leaving a barrier.
Untouched(v) ==
  /\ UNCHANGED call
  /\ pc'[v] = pc[v] /\ (v \in waiting' => v \in waiting)
  /\ sweep'[v] = sweep[v] /\ step'[v] = step[v] /\ next'[v] = next[v]
  /\ v \in queries' <=> v \in queries
  /\ \A r \in RowsOf(v) :
       /\ bounds'[r] = bounds[r] /\ probs'[r] = probs[r] /\ acc'[r] = acc[r]
       /\ top'[r] = top[r] /\ out'[r] = out[r]
       /\ r \in spoilt' <=> r \in spoilt
  /\ \A x \in Share(v) : kTile'[x] = kTile[x] /\ vTile'[x] = vTile[x]
  /\ \A x \in PadShare(v) : pTile'[x] = pTile[x]

\* A warp a step left alone keeps its part of the invariant.
LEMMA UntouchedKeeps ==
  ASSUME NEW v \in Warps, WarpInv(v), Untouched(v)
  PROVE  WarpInv(v)'
<1>1. /\ mask' = mask /\ Keys' = Keys /\ Sweep' = Sweep /\ RowsOf(v)' = RowsOf(v)
      /\ \A r : RowValue(r)' = RowValue(r)
      /\ \A r, e : Before(r, e)' = Before(r, e)
      /\ \A S : SumOf(S)' = SumOf(S)
  BY Fixed DEF Untouched
<1>2. /\ Start(v)' = Start(v) /\ More(v)' = More(v)
      /\ Loaded(v)' = Loaded(v) /\ AtTile(v)' = AtTile(v)
  BY DEF Untouched, Start, More, Loaded, AtTile
<1>3. Summand(v)' = Summand(v) /\ Scored(v)' = Scored(v)
  BY <1>1, <1>2 DEF Summand, Scored, Untouched
<1>4. Placed(v)'
  BY <1>1, <1>2 DEF WarpInv, Placed, Untouched
<1>5. BoundsFound(v)'
  BY <1>1 DEF WarpInv, BoundsFound, Untouched
<1>6. ShareIn(v)'
  BY <1>1, <1>2 DEF WarpInv, ShareIn, Untouched
<1>7. SumsKnown(v)'
  BY <1>1, <1>2, <1>3 DEF WarpInv, SumsKnown, Untouched
<1>8. OutputsKnown(v)'
  BY <1>1 DEF WarpInv, OutputsKnown, Untouched
<1> QED BY <1>4, <1>5, <1>6, <1>7, <1>8 DEF WarpInv

\* A warp whose own step keeps its stage keeps everybody's in step.
LEMMA StagesKept ==
  ASSUME TypeOK, InStep, NEW w \in Warps, NEW at \in Places, Goes(w, at),
         waiting' \in {waiting, waiting \cup {w}},
         \A v \in Warps : v # w => step'[v] = step[v] /\ sweep'[v] = sweep[v],
         Stage(w)' = Stage(w)
  PROVE  InStep'
<1>1. \A v \in Warps : v # w => pc'[v] = pc[v] /\ (v \in waiting' <=> v \in waiting)
  BY DEF TypeOK, Goes
<1>2. \A v \in Warps : v # w => Stage(v)' = Stage(v)
  BY <1>1 DEF Stage
<1> QED BY <1>2 DEF InStep

-----------------------------------------------------------------------------
(* What the barriers bring together. *)

\* Once one warp is past the first barrier every interval of the block is in.
LEMMA BlockBounded ==
  ASSUME IInv, NEW w \in Warps, pc[w] # "bounds", w \notin waiting
  PROVE  bounds = Whole
<1>0. Geometry
  BY DEF IInv, TypeOK, Geometry
<1>1. Stage(w) # 0
  <2>1. step[w] \in Nat /\ sweep[w][2] \in Nat /\ pc[w] \in Places
    BY DEF IInv, TypeOK
  <2> QED BY <2>1 DEF Stage, Places
<1>2. \A v \in Warps : pc[v] # "bounds"
  BY <1>1 DEF IInv, InStep, Stage
<1>3. ASSUME NEW r \in BlockRows PROVE bounds[r] = RowBounds(mask, r)
  <2>1. PICK v \in Warps : r \in RowsOf(v)
    BY <1>0, RowsCovered
  <2> QED BY <1>2, <2>1 DEF IInv, WarpInv, BoundsFound
<1>4. bounds \in [BlockRows -> Int \X Int]
  BY DEF IInv, TypeOK
<1> QED BY <1>3, <1>4 DEF Whole

\* A step of a tile is as far on as every other warp's.
LEMMA SameTile ==
  ASSUME IInv, NEW w \in Warps, pc[w] \in {"scores", "pv"}, w \notin waiting, NEW v \in Warps
  PROVE  AtTile(v) /\ Loaded(v) /\ Start(v) = Start(w)
<1>1. /\ pc[v] \in Places /\ step[v] \in Nat /\ step[w] \in Nat /\ Placed(v) /\ Placed(w)
      /\ sweep[v][2] \in Nat
  BY DEF IInv, WarpInv, TypeOK
<1>2. Stage(w) = 2 * step[w] + 2
  BY DEF Stage
<1>3. Stage(v) = Stage(w)
  BY DEF IInv, InStep
<1>4. AtTile(v) /\ step[v] = step[w]
  <2>1. CASE pc[v] \in {"bounds", "load", "write", "done"}
    BY <1>1, <1>2, <1>3, <2>1 DEF Stage
  <2>2. CASE pc[v] \in {"scores", "store"}
    BY <1>1, <1>2, <1>3, <2>2 DEF Stage, AtTile
  <2>3. CASE pc[v] = "pv"
    BY <1>1, <1>2, <1>3, <2>3 DEF Stage, AtTile
  <2> QED BY <1>1, <2>1, <2>2, <2>3 DEF Places
<1> QED BY <1>1, <1>4 DEF AtTile, Loaded, Placed, Start

\* A warp that scores or sums does so on a tile every warp has filled.
LEMMA TileIsWhole ==
  ASSUME IInv, NEW w \in Warps, pc[w] \in {"scores", "pv"}, w \notin waiting
  PROVE  /\ queries = Warps
         /\ kTile = Fetched(Start(w), mask.tk) /\ vTile = kTile /\ pTile = kTile
<1>1. \A v \in Warps : AtTile(v) /\ Loaded(v) /\ Start(v) = Start(w) /\ ShareIn(v)
  BY SameTile DEF IInv, WarpInv
<1>2. ASSUME NEW x \in Slots
      PROVE  /\ kTile[x] = Fetched(Start(w), mask.tk)[x]
             /\ vTile[x] = Fetched(Start(w), mask.tk)[x]
             /\ pTile[x] = Fetched(Start(w), mask.tk)[x]
  <2>1. PICK v \in Warps : x \in Share(v)
    BY SlotsCovered
  <2>2. 0 \in Warps /\ x \in PadShare(0)
    BY SlotsCovered
  <2> QED BY <1>1, <2>1, <2>2 DEF ShareIn
<1>3. kTile \in Tile /\ vTile \in Tile /\ pTile \in Tile /\ queries \subseteq Warps
  BY DEF IInv, TypeOK
<1>4. queries = Warps
  BY <1>1, <1>3 DEF ShareIn
<1> QED BY <1>2, <1>3, <1>4 DEF Tile, Fetched
-----------------------------------------------------------------------------
(* The steps. *)

\* No slot is in two warps' shares.
LEMMA SharesApart ==
  ASSUME NEW v \in Warps, NEW w \in Warps
  PROVE  /\ Share(v) \subseteq Slots /\ PadShare(v) \subseteq Slots
         /\ v # w => Share(v) \cap Share(w) = {} /\ PadShare(v) \cap PadShare(w) = {}
BY DEF Share, PadShare

\* A warp goes on; the others stay where they are.
LEMMA Moved ==
  ASSUME TypeOK, NEW w \in Warps, NEW at \in Places, Goes(w, at)
  PROVE  /\ pc' \in [Warps -> Places] /\ pc'[w] = at
         /\ \A v \in Warps : v # w => pc'[v] = pc[v]
BY DEF TypeOK, Goes

\* The invariant after a step of w that leaves the other warps alone.
LEMMA Assembled ==
  ASSUME IInv, NEW w \in Warps, TypeOK', InStep', WarpInv(w)',
         \A v \in Warps : v # w => Untouched(v)
  PROVE  IInv'
<1>1. \A v \in Warps : WarpInv(v)'
  BY UntouchedKeeps DEF IInv
<1> QED BY <1>1 DEF IInv

\* Where a warp at a tile is.
LEMMA StartIs ==
  ASSUME IInv, NEW w \in Warps, AtTile(w)
  PROVE  /\ sweep[w] = Sweep /\ Sweep \in Nat \X Nat /\ step[w] \in Nat /\ step[w] < Sweep[2]
         /\ Start(w) = (Sweep[1] + step[w]) * TileKeys
         /\ Start(w) \in Nat
         /\ (Sweep[1] + (step[w] + 1)) * TileKeys = Start(w) + TileKeys
<1>1. Sweep \in Nat \X Nat
  BY SweepHolds DEF IInv, TypeOK, Geometry
<1>2. sweep[w] = Sweep /\ step[w] \in Nat /\ step[w] < Sweep[2]
  BY DEF IInv, WarpInv, Placed, TypeOK, AtTile, Loaded
<1>3. Start(w) = (Sweep[1] + step[w]) * TileKeys
  BY <1>2 DEF Start
<1>4. (Sweep[1] + step[w]) * TileKeys \in Nat
  BY <1>1, <1>2, SizesAssumption
<1>5. (Sweep[1] + (step[w] + 1)) * TileKeys = (Sweep[1] + step[w]) * TileKeys + TileKeys
  BY <1>1, <1>2, SizesAssumption
<1> QED BY <1>1, <1>2, <1>3, <1>4, <1>5

\* A warp finds its rows' intervals.
LEMMA FindBoundsOK ==
  ASSUME IInv, NEW w \in Warps, FindBounds(w)
  PROVE  IInv'
<1> USE DEF FindBounds, Runs, Waits, Goes
<1>0. Geometry /\ TypeOK /\ InStep /\ WarpInv(w) /\ UNCHANGED call
  BY DEF IInv, TypeOK, Geometry
<1>1. /\ mask' = mask /\ cube' = cube /\ QBlocks' = QBlocks
      /\ BlockRows' = BlockRows /\ Keys' = Keys /\ Tile' = Tile
      /\ RowsOf(w)' = RowsOf(w)
  BY <1>0, Fixed
<1>2. TypeOK'
  <2>1. \A r \in RowsOf(w) : RowBounds(mask, r) \in Int \X Int
    <3>1. IsMask(mask) /\ RowsOf(w) \subseteq Nat
      BY <1>0, Numbers, WarpRows
    <3>2. \A r \in RowsOf(w) : RowBounds(mask, r) \in Nat \X Nat
      BY <3>1, BoundsInKeys
    <3> QED BY <3>2
  <2>2. bounds' \in [BlockRows -> Int \X Int]
    BY <1>0, <2>1 DEF TypeOK
  <2>3. pc' \in [Warps -> Places] /\ waiting' \subseteq Warps
    BY <1>0 DEF TypeOK, Places
  <2> QED BY <1>0, <1>1, <2>2, <2>3 DEF TypeOK, tiles, sums
<1>3. InStep'
  <2>1. Stage(w)' = Stage(w)
    BY <1>0 DEF Stage, TypeOK
  <2> QED BY <1>0, <2>1, StagesKept DEF Places
<1>4. WarpInv(w)'
  <2>1. pc'[w] = "load" /\ pc[w] = "bounds" /\ w \in waiting'
    BY <1>0 DEF TypeOK
  <2>2. Placed(w)'
    BY <1>0, <2>1 DEF Placed, Loaded, AtTile, WarpInv
  <2>3. BoundsFound(w)'
    <3>1. \A r \in RowsOf(w) : bounds'[r] = RowBounds(mask, r)
      BY <1>0, WarpRows
    <3> QED BY <1>1, <3>1 DEF BoundsFound
  <2>4. ShareIn(w)'
    BY <1>0, <2>1 DEF WarpInv, ShareIn, Loaded, AtTile
  <2>5. SumsKnown(w)'
    <3>1. Summand(w)' = Summand(w) /\ Scored(w)' = Scored(w)
      BY <2>1 DEF Summand, Scored, Loaded
    <3> QED BY <1>0, <1>1, <2>1, <3>1, Fixed DEF WarpInv, SumsKnown, sums
  <2>6. OutputsKnown(w)'
    BY <1>0, <1>1, <2>1, Fixed DEF WarpInv, OutputsKnown
  <2> QED BY <2>2, <2>3, <2>4, <2>5, <2>6 DEF WarpInv
<1>5. \A v \in Warps : v # w => Untouched(v)
  <2> SUFFICES ASSUME NEW v \in Warps, v # w PROVE Untouched(v)
    OBVIOUS
  <2>1. \A r \in RowsOf(v) : bounds'[r] = bounds[r]
    BY <1>0, WarpRows, RowsApart
  <2>2. pc'[v] = pc[v] /\ (v \in waiting' => v \in waiting)
    BY <1>0 DEF TypeOK
  <2> QED BY <1>0, <2>1, <2>2 DEF Untouched, tiles, sums
<1> QED BY <1>2, <1>3, <1>4, <1>5, Assembled

\* The tiles after a warp's stores.
LEMMA StoredIn ==
  ASSUME IInv, NEW w \in Warps, NEW new \in Tile,
         kTile' = Stored(kTile, w, new), vTile' = Stored(vTile, w, new),
         pTile' = StoredPad(pTile, w, new)
  PROVE  /\ kTile' \in Tile /\ vTile' \in Tile /\ pTile' \in Tile
         /\ \A x \in Share(w) : kTile'[x] = new[x] /\ vTile'[x] = new[x]
         /\ \A x \in PadShare(w) : pTile'[x] = new[x]
         /\ \A v \in Warps : v # w =>
              /\ \A x \in Share(v) : kTile'[x] = kTile[x] /\ vTile'[x] = vTile[x]
              /\ \A x \in PadShare(v) : pTile'[x] = pTile[x]
<1>1. kTile \in Tile /\ vTile \in Tile /\ pTile \in Tile
  BY DEF IInv, TypeOK
<1>2. kTile' \in Tile /\ vTile' \in Tile /\ pTile' \in Tile
  BY <1>1 DEF Stored, StoredPad, Tile
<1>3. /\ \A x \in Share(w) : kTile'[x] = new[x] /\ vTile'[x] = new[x]
      /\ \A x \in PadShare(w) : pTile'[x] = new[x]
  BY SharesApart DEF Stored, StoredPad
<1>4. ASSUME NEW v \in Warps, v # w
      PROVE  /\ \A x \in Share(v) : kTile'[x] = kTile[x] /\ vTile'[x] = vTile[x]
             /\ \A x \in PadShare(v) : pTile'[x] = pTile[x]
  <2>1. /\ Share(v) \subseteq Slots /\ PadShare(v) \subseteq Slots
        /\ Share(v) \cap Share(w) = {} /\ PadShare(v) \cap PadShare(w) = {}
    BY <1>4, SharesApart
  <2> QED BY <2>1 DEF Stored, StoredPad
<1> QED BY <1>2, <1>3, <1>4

\* What is fetched is keys, and zeros past them.
LEMMA FetchedIsTile ==
  ASSUME Geometry, NEW key0 \in Nat, NEW limit \in {0, mask.tk}
  PROVE  Fetched(key0, limit) \in Tile
BY Numbers DEF Fetched, Tile, Keys, Slots

\* No row has a key before the sweep, and none at all when there is no tile.
LEMMA NoneBefore ==
  ASSUME Geometry, NEW r \in BlockRows, r < mask.tq
  PROVE  /\ Before(r, 0) = {} /\ Before(r, Sweep[1] * TileKeys) = {}
         /\ Sweep[2] = 0 => Sees(mask, r) = {}
<1>1. \A c \in Sees(mask, r) : /\ c \in Nat /\ Sweep[1] * TileKeys <= c
                               /\ c < (Sweep[1] + Sweep[2]) * TileKeys
  BY SeenInSweep DEF Keys
<1>2. Sweep \in Nat \X Nat /\ Sweep[1] * TileKeys \in Nat
  BY SweepHolds, SizesAssumption
<1>3. Sweep[2] = 0 => (Sweep[1] + Sweep[2]) * TileKeys = Sweep[1] * TileKeys
  BY <1>2
<1> QED BY <1>1, <1>2, <1>3 DEF Before
\* A warp stores its share of a tile.
LEMMA LoadOK ==
  ASSUME IInv, NEW w \in Warps, Load(w)
  PROVE  IInv'
<1> DEFINE new == Fetched(Sweep[1] * TileKeys, IF Sweep[2] > 0 THEN mask.tk ELSE 0)
<1>0. Geometry /\ TypeOK /\ InStep /\ WarpInv(w) /\ UNCHANGED call /\ pc[w] = "load" /\ w \notin waiting
  BY DEF IInv, TypeOK, Geometry, Load, Runs
<1>1. /\ mask' = mask /\ cube' = cube /\ QBlocks' = QBlocks
      /\ BlockRows' = BlockRows /\ Keys' = Keys /\ Tile' = Tile /\ Sweep' = Sweep
      /\ RowsOf(w)' = RowsOf(w)
  BY <1>0, Fixed
<1>2. bounds = Whole
  BY <1>0, BlockBounded
<1>3. /\ sweep' = [sweep EXCEPT ![w] = Sweep]
      /\ queries' = queries \cup {w}
      /\ kTile' = Stored(kTile, w, new)
      /\ vTile' = Stored(vTile, w, new)
      /\ pTile' = StoredPad(pTile, w, new)
      /\ IF Sweep[2] > 0 THEN Waits(w, "scores") ELSE GoesOn(w, "write")
      /\ UNCHANGED <<bounds, step, next, probs, sums, out>>
  BY <1>2 DEF Load, Sweep
<1>4. /\ Sweep \in Nat \X Nat /\ Sweep[1] * TileKeys \in Nat
      /\ (Sweep[1] + 0) * TileKeys = Sweep[1] * TileKeys
      /\ step[w] = 0
  BY <1>0, SweepHolds, SizesAssumption DEF WarpInv, Placed, Loaded
<1>5. new \in Tile
  BY <1>0, <1>4, FetchedIsTile
<1> HIDE DEF new
<1>6. /\ kTile' \in Tile /\ vTile' \in Tile /\ pTile' \in Tile
      /\ \A x \in Share(w) : kTile'[x] = new[x] /\ vTile'[x] = new[x]
      /\ \A x \in PadShare(w) : pTile'[x] = new[x]
      /\ \A v \in Warps : v # w =>
           /\ \A x \in Share(v) : kTile'[x] = kTile[x] /\ vTile'[x] = vTile[x]
           /\ \A x \in PadShare(v) : pTile'[x] = pTile[x]
  BY <1>3, <1>5, StoredIn
<1>7. /\ sweep' \in [Warps -> Nat \X Nat] /\ sweep'[w] = Sweep /\ step'[w] = 0
      /\ \A v \in Warps : v # w => sweep'[v] = sweep[v]
  BY <1>0, <1>3, <1>4 DEF TypeOK
<1>8. /\ pc' \in [Warps -> Places] /\ waiting' \subseteq Warps
      /\ \A v \in Warps : v # w => pc'[v] = pc[v] /\ (v \in waiting' => v \in waiting)
      /\ Sweep[2] > 0 => pc'[w] = "scores" /\ waiting' = waiting \cup {w}
      /\ Sweep[2] = 0 => pc'[w] = "write" /\ waiting' = waiting
  <2>1. CASE Sweep[2] > 0
    <3>1. Waits(w, "scores")
      BY <1>3, <2>1
    <3> QED BY <1>0, <1>4, <2>1, <3>1, Moved DEF Waits, Places, TypeOK
  <2>2. CASE Sweep[2] = 0
    <3>1. GoesOn(w, "write")
      BY <1>3, <2>2
    <3> QED BY <1>0, <1>4, <2>2, <3>1, Moved DEF GoesOn, Places, TypeOK
  <2> QED BY <1>4, <2>1, <2>2
<1>9. TypeOK'
  BY <1>0, <1>1, <1>3, <1>6, <1>7, <1>8 DEF TypeOK, sums
<1>10. InStep'
  <2>1. Stage(w) = 1
    BY <1>0 DEF Stage
  <2>2. Stage(w)' = 1
    <3>1. CASE Sweep[2] > 0
      BY <1>7, <1>8, <3>1 DEF Stage
    <3>2. CASE Sweep[2] = 0
      BY <1>7, <1>8, <3>2 DEF Stage
    <3> QED BY <1>4, <3>1, <3>2
  <2>3. \E at \in Places : Goes(w, at)
    BY <1>3 DEF Waits, GoesOn, Places
  <2>4. waiting' \in {waiting, waiting \cup {w}}
    BY <1>3 DEF Waits, GoesOn
  <2> QED BY <1>0, <1>3, <1>7, <2>1, <2>2, <2>3, <2>4, StagesKept
<1>11. WarpInv(w)'
  <2>0. Loaded(w)' /\ pc'[w] \in {"scores", "write"} /\ (AtTile(w)' <=> Sweep[2] > 0)
    BY <1>4, <1>8 DEF Loaded, AtTile
  <2>1. Start(w)' = Sweep[1] * TileKeys
    BY <1>4, <1>7 DEF Start
  <2>2. Placed(w)'
    BY <1>1, <1>4, <1>7, <1>8, <1>0, <2>0 DEF Placed
  <2>3. BoundsFound(w)'
    BY <1>0, <1>1, <1>3 DEF WarpInv, BoundsFound
  <2>4. ShareIn(w)'
    <3>1. w \in queries'
      BY <1>3
    <3>2. Sweep[2] > 0 => new = Fetched(Start(w)', mask.tk)
      BY <2>1 DEF new
    <3> QED BY <1>1, <1>6, <2>0, <3>1, <3>2 DEF ShareIn
  <2>5. SumsKnown(w)'
    <3> SUFFICES ASSUME NEW r \in RowsOf(w), r < mask.tq
                 PROVE  /\ r \notin spoilt'
                        /\ acc'[r] = SumOf(Before(r, Summand(w)'))
                        /\ top'[r] = (Before(r, Scored(w)') # {})
      BY <1>1, <2>0, Fixed, <1>0 DEF SumsKnown
    <3>1. r \in BlockRows
      BY <1>0, WarpRows
    <3>2. /\ r \notin spoilt /\ acc[r] = SumOf(Before(r, 0)) /\ top[r] = (Before(r, 0) # {})
      BY <1>0 DEF WarpInv, SumsKnown, Summand, Scored, Loaded
    <3>3. Before(r, 0) = {} /\ Before(r, Sweep[1] * TileKeys) = {}
      BY <1>0, <3>1, NoneBefore
    <3>4. CASE Sweep[2] > 0
      <4>1. Summand(w)' = Sweep[1] * TileKeys /\ Scored(w)' = Sweep[1] * TileKeys
        BY <1>8, <2>0, <2>1, <3>4 DEF Summand, Scored
      <4> QED BY <1>3, <3>2, <3>3, <4>1 DEF sums
    <3>5. CASE Sweep[2] = 0
      <4>1. Summand(w)' = mask.tk /\ Scored(w)' = mask.tk
        BY <1>1, <1>8, <2>0, <3>5 DEF Summand, Scored
      <4>2. Before(r, mask.tk) = {}
        BY <1>0, <3>1, <3>5, NoneBefore DEF Before
      <4> QED BY <1>3, <3>2, <3>3, <4>1, <4>2 DEF sums
    <3> QED BY <1>4, <3>4, <3>5
  <2>6. OutputsKnown(w)'
    BY <1>0, <1>1, <1>3, <2>0, Fixed DEF WarpInv, OutputsKnown
  <2> QED BY <2>2, <2>3, <2>4, <2>5, <2>6 DEF WarpInv
<1>12. \A v \in Warps : v # w => Untouched(v)
  BY <1>0, <1>3, <1>6, <1>7, <1>8 DEF Untouched, sums
<1> QED BY <1>9, <1>10, <1>11, <1>12, Assembled

\* A warp writes its rows.
LEMMA WriteOK ==
  ASSUME IInv, NEW w \in Warps, Write(w)
  PROVE  IInv'
<1>0. /\ Geometry /\ TypeOK /\ InStep /\ WarpInv(w) /\ UNCHANGED call
      /\ pc[w] = "write" /\ w \notin waiting /\ Goes(w, "done") /\ waiting' = waiting
      /\ UNCHANGED <<bounds, queries, tiles, sweep, step, next, probs, sums>>
  BY DEF IInv, TypeOK, Geometry, Write, Runs, GoesOn
<1>1. /\ mask' = mask /\ cube' = cube /\ QBlocks' = QBlocks
      /\ BlockRows' = BlockRows /\ Keys' = Keys /\ Tile' = Tile /\ Sweep' = Sweep
      /\ RowsOf(w)' = RowsOf(w)
  BY <1>0, Fixed
<1>2. /\ pc' \in [Warps -> Places] /\ pc'[w] = "done"
      /\ \A v \in Warps : v # w => pc'[v] = pc[v]
  BY <1>0, Moved DEF Places
<1>3. RowsOf(w) \subseteq BlockRows
  BY <1>0, WarpRows
<1>4. \A r \in RowsOf(w) : out'[r] = IF r < mask.tq THEN RowValue(r) ELSE Pending
  <2> SUFFICES ASSUME NEW r \in RowsOf(w)
               PROVE  out'[r] = IF r < mask.tq THEN RowValue(r) ELSE Pending
    OBVIOUS
  <2>1. out'[r] = IF r < mask.tq THEN [sum |-> acc[r], finite |-> top[r]] ELSE out[r]
    BY <1>3 DEF Write
  <2>2. out[r] = Pending
    BY <1>0 DEF WarpInv, OutputsKnown
  <2>3. ASSUME r < mask.tq PROVE acc[r] = SumOf(Sees(mask, r)) /\ top[r] = (Sees(mask, r) # {})
    <3>1. Summand(w) = mask.tk /\ Scored(w) = mask.tk
      BY <1>0 DEF Summand, Scored, Loaded
    <3>2. Before(r, mask.tk) = Sees(mask, r)
      BY <1>0, Numbers DEF Before, Sees
    <3> QED BY <1>0, <2>3, <3>1, <3>2 DEF WarpInv, SumsKnown
  <2> QED BY <2>1, <2>2, <2>3 DEF RowValue
<1>5. TypeOK'
  <2>1. out' \in [BlockRows -> [sum : [Keys -> Nat], finite : BOOLEAN] \cup {Pending}]
    <3>1. \A r \in BlockRows : [sum |-> acc[r], finite |-> top[r]]
                                 \in [sum : [Keys -> Nat], finite : BOOLEAN]
      BY <1>0 DEF TypeOK
    <3>2. \A r \in BlockRows : out[r] \in [sum : [Keys -> Nat], finite : BOOLEAN] \cup {Pending}
      BY <1>0 DEF TypeOK
    <3> QED BY <3>1, <3>2 DEF Write
  <2> QED BY <1>0, <1>1, <1>2, <2>1 DEF TypeOK, sums, tiles
<1>6. InStep'
  <2>1. Stage(w)' = Stage(w)
    BY <1>0, <1>2 DEF Stage
  <2> QED BY <1>0, <2>1, StagesKept DEF Places
<1>7. WarpInv(w)'
  <2>1. Loaded(w)' /\ ~AtTile(w)' /\ Loaded(w)
    BY <1>0, <1>2 DEF Loaded, AtTile
  <2>2. Placed(w)'
    BY <1>0, <1>1, <1>2, <2>1 DEF WarpInv, Placed
  <2>3. BoundsFound(w)' /\ ShareIn(w)'
    BY <1>0, <1>1, <1>2, <2>1 DEF WarpInv, BoundsFound, ShareIn
  <2>4. SumsKnown(w)'
    <3>1. Summand(w)' = mask.tk /\ Scored(w)' = mask.tk
      BY <1>1, <1>2, <2>1 DEF Summand, Scored
    <3>2. Summand(w) = mask.tk /\ Scored(w) = mask.tk
      BY <1>0, <2>1 DEF Summand, Scored
    <3> QED BY <1>0, <1>1, <1>2, <3>1, <3>2, Fixed DEF WarpInv, SumsKnown, sums
  <2>5. OutputsKnown(w)'
    BY <1>0, <1>1, <1>2, <1>4, Fixed DEF OutputsKnown
  <2> QED BY <2>2, <2>3, <2>4, <2>5 DEF WarpInv
<1>8. \A v \in Warps : v # w => Untouched(v)
  <2> SUFFICES ASSUME NEW v \in Warps, v # w PROVE Untouched(v)
    OBVIOUS
  <2>1. \A r \in RowsOf(v) : out'[r] = out[r]
    BY <1>0, WarpRows, RowsApart DEF Write
  <2> QED BY <1>0, <1>2, <2>1 DEF Untouched, tiles, sums
<1> QED BY <1>5, <1>6, <1>7, <1>8, Assembled
\* What the maximum and the probabilities of a row come to, over a tile.
LEMMA TileSeen ==
  ASSUME Geometry, NEW r \in BlockRows, r < mask.tq, NEW k0 \in Nat
  PROVE  Before(r, k0 + TileKeys) # {} <=>
           Before(r, k0) # {} \/ \E x \in Slots : k0 + x \in Sees(mask, r)
<1>1. TileKeys \in Nat /\ \A c \in Sees(mask, r) : c \in Nat
  BY Numbers, SeenInBounds DEF Keys
<1>2. ASSUME NEW c \in Sees(mask, r), c < k0 + TileKeys, ~(c < k0)
      PROVE  \E x \in Slots : k0 + x \in Sees(mask, r)
  <2>1. c - k0 \in Slots /\ k0 + (c - k0) = c
    BY <1>1, <1>2 DEF Slots
  <2> QED BY <2>1
<1>3. \A x \in Slots : x \in Nat /\ x < TileKeys
  BY <1>1 DEF Slots
<1>4. ASSUME Before(r, k0 + TileKeys) # {}
      PROVE  Before(r, k0) # {} \/ \E x \in Slots : k0 + x \in Sees(mask, r)
  BY <1>2, <1>4 DEF Before
<1>5. ASSUME NEW c \in Before(r, k0) PROVE c \in Before(r, k0 + TileKeys)
  BY <1>1 DEF Before
<1>6. ASSUME NEW x \in Slots, k0 + x \in Sees(mask, r) PROVE k0 + x \in Before(r, k0 + TileKeys)
  BY <1>1, <1>3, <1>6 DEF Before
<1> QED BY <1>4, <1>5, <1>6

\* A warp scores the tile.
LEMMA ScoresOK ==
  ASSUME IInv, NEW w \in Warps, Scores(w)
  PROVE  IInv'
<1> DEFINE newTop(r) == top[r] \/ \E x \in Slots : SeesSlot(w, r, x)
<1>0. /\ Geometry /\ TypeOK /\ InStep /\ WarpInv(w) /\ UNCHANGED call
      /\ pc[w] = "scores" /\ w \notin waiting /\ Goes(w, "pv") /\ waiting' = waiting
      /\ UNCHANGED <<bounds, queries, tiles, sweep, step, out>>
  BY DEF IInv, TypeOK, Geometry, Scores, Runs, GoesOn
<1>a. /\ next' = [next EXCEPT ![w] = Fetched(Start(w) + TileKeys, IF More(w) THEN mask.tk ELSE 0)]
      /\ probs' = [r \in BlockRows |->
                     IF r \in RowsOf(w)
                     THEN [x \in Slots |-> IF SeesSlot(w, r, x) THEN kTile[x] ELSE Unseen]
                     ELSE probs[r]]
      /\ top' = [r \in BlockRows |-> IF r \in RowsOf(w) THEN newTop(r) ELSE top[r]]
      /\ acc' = [r \in BlockRows |->
                   IF r \in RowsOf(w) /\ ~top[r] THEN [c \in Keys |-> 0] ELSE acc[r]]
      /\ spoilt' = spoilt
  BY DEF Scores, Rescaled
<1>1. /\ mask' = mask /\ cube' = cube /\ QBlocks' = QBlocks
      /\ BlockRows' = BlockRows /\ Keys' = Keys /\ Tile' = Tile /\ Sweep' = Sweep
      /\ RowsOf(w)' = RowsOf(w)
  BY <1>0, Fixed
<1>2. /\ pc' \in [Warps -> Places] /\ pc'[w] = "pv"
      /\ \A v \in Warps : v # w => pc'[v] = pc[v]
  BY <1>0, Moved DEF Places
<1>3. RowsOf(w) \subseteq BlockRows
  BY <1>0, WarpRows
<1>4. AtTile(w) /\ Loaded(w) /\ AtTile(w)' /\ Loaded(w)'
  BY <1>0, <1>2 DEF AtTile, Loaded
<1>5. Start(w) \in Nat /\ Start(w)' = Start(w) /\ More(w)' = More(w)
  BY <1>0, <1>4, StartIs DEF Start, More
<1>6. kTile = Fetched(Start(w), mask.tk) /\ pTile = Fetched(Start(w), mask.tk)
  BY <1>0, TileIsWhole
<1>7. next' \in [Warps -> Tile]
      /\ next'[w] = Fetched(Start(w) + TileKeys, IF More(w) THEN mask.tk ELSE 0)
      /\ \A v \in Warps : v # w => next'[v] = next[v]
  <2>1. Fetched(Start(w) + TileKeys, IF More(w) THEN mask.tk ELSE 0) \in Tile
    BY <1>0, <1>5, FetchedIsTile, SizesAssumption
  <2> QED BY <1>0, <1>a, <2>1 DEF TypeOK
<1>8. TypeOK'
  <2>1. probs' \in [BlockRows -> [Slots -> Keys \cup {Zero, Junk, Unseen}]]
    <3>1. kTile \in [Slots -> Keys \cup {Zero, Junk}]
      BY <1>0 DEF TypeOK, Tile
    <3> QED BY <1>0, <1>a, <3>1 DEF TypeOK
  <2>2. top' \in [BlockRows -> BOOLEAN]
    BY <1>0, <1>a DEF TypeOK
  <2>3. acc' \in [BlockRows -> [Keys -> Nat]]
    BY <1>0, <1>a DEF TypeOK
  <2> QED BY <1>0, <1>a, <1>1, <1>2, <1>7, <2>1, <2>2, <2>3 DEF TypeOK, tiles
<1>9. InStep'
  <2>1. Stage(w)' = Stage(w)
    BY <1>0, <1>2 DEF Stage
  <2> QED BY <1>0, <2>1, StagesKept DEF Places
<1>10. WarpInv(w)'
  <2>1. Placed(w)'
    BY <1>0, <1>1, <1>2, <1>4 DEF WarpInv, Placed
  <2>2. BoundsFound(w)'
    BY <1>0, <1>1 DEF WarpInv, BoundsFound
  <2>3. ShareIn(w)'
    BY <1>0, <1>1, <1>4, <1>5, <1>7 DEF WarpInv, ShareIn, tiles
  <2>4. SumsKnown(w)'
    <3> SUFFICES ASSUME NEW r \in RowsOf(w), r < mask.tq
                 PROVE  /\ r \notin spoilt'
                        /\ acc'[r] = SumOf(Before(r, Summand(w)'))
                        /\ top'[r] = (Before(r, Scored(w)') # {})
                        /\ probs'[r] = [x \in Slots |-> IF Start(w) + x \in Sees(mask, r)
                                                        THEN Start(w) + x ELSE Unseen]
      BY <1>0, <1>1, <1>5, Fixed DEF SumsKnown
    <3>1. r \in BlockRows
      BY <1>3
    <3>2. /\ Summand(w) = Start(w) /\ Scored(w) = Start(w)
          /\ Summand(w)' = Start(w) /\ Scored(w)' = Start(w) + TileKeys
      BY <1>0, <1>2, <1>4, <1>5 DEF Summand, Scored
    <3>3. /\ r \notin spoilt /\ acc[r] = SumOf(Before(r, Start(w)))
          /\ top[r] = (Before(r, Start(w)) # {})
      BY <1>0, <3>2 DEF WarpInv, SumsKnown
    <3>4. \A q \in RowsOf(w) : bounds[q] = RowBounds(mask, q)
      BY <1>0 DEF WarpInv, BoundsFound
    <3>5. \A x \in Slots : SeesSlot(w, r, x) <=> Start(w) + x \in Sees(mask, r)
      BY <1>0, <1>5, <1>6, <3>4, SlotSeen
    <3>6. acc'[r] = SumOf(Before(r, Start(w)))
      BY <1>a, <3>1, <3>3 DEF SumOf
    <3>7. top'[r] = (Before(r, Start(w) + TileKeys) # {})
      <4>1. top'[r] = newTop(r)
        BY <1>a, <3>1
      <4>2. newTop(r) = (Before(r, Start(w) + TileKeys) # {})
        BY <1>0, <1>5, <3>1, <3>3, <3>5, TileSeen
      <4> QED BY <4>1, <4>2
    <3>8. probs'[r] = [x \in Slots |-> IF Start(w) + x \in Sees(mask, r)
                                       THEN Start(w) + x ELSE Unseen]
      <4>1. probs'[r] = [x \in Slots |-> IF SeesSlot(w, r, x) THEN kTile[x] ELSE Unseen]
        BY <1>a, <3>1
      <4>2. ASSUME NEW x \in Slots, Start(w) + x \in Sees(mask, r) PROVE kTile[x] = Start(w) + x
        <5>1. Start(w) + x < mask.tk
          BY <1>0, <3>1, <4>2, SeenInBounds, Numbers DEF Keys
        <5> QED BY <1>6, <5>1 DEF Fetched
      <4> QED BY <3>5, <4>1, <4>2
    <3> QED BY <1>a, <3>2, <3>3, <3>6, <3>7, <3>8
  <2>5. OutputsKnown(w)'
    BY <1>0, <1>1, <1>2, Fixed DEF WarpInv, OutputsKnown
  <2> QED BY <2>1, <2>2, <2>3, <2>4, <2>5 DEF WarpInv
<1>11. \A v \in Warps : v # w => Untouched(v)
  <2> SUFFICES ASSUME NEW v \in Warps, v # w PROVE Untouched(v)
    OBVIOUS
  <2>1. \A r \in RowsOf(v) : r \in BlockRows /\ r \notin RowsOf(w)
    BY <1>0, WarpRows, RowsApart
  <2>2. \A r \in RowsOf(v) : /\ probs'[r] = probs[r] /\ acc'[r] = acc[r] /\ top'[r] = top[r]
    BY <1>a, <2>1
  <2> QED BY <1>0, <1>a, <1>2, <1>7, <2>2 DEF Untouched, tiles
<1> QED BY <1>8, <1>9, <1>10, <1>11, Assembled
\* What P V adds to a row's sum.
LEMMA TileSummed ==
  ASSUME Geometry, NEW r \in BlockRows, r < mask.tq, NEW k0 \in Nat,
         acc[r] = SumOf(Before(r, k0)),
         probs[r] = [x \in Slots |-> IF k0 + x \in Sees(mask, r) THEN k0 + x ELSE Unseen],
         vTile = Fetched(k0, mask.tk)
  PROVE  Summed(r) = SumOf(Before(r, k0 + TileKeys)) /\ ~Mismatched(r)
<1>1. /\ mask.tk \in Nat /\ TileKeys \in Nat /\ Sees(mask, r) \subseteq Keys
      /\ \A x \in Slots : x \in Nat /\ x < TileKeys
      /\ \A c \in Keys : c \in Nat /\ c < mask.tk
  BY Numbers, SeenInBounds DEF Keys, Slots
<1>2. Taken(r) = {x \in Slots : k0 + x \in Sees(mask, r)}
  <2>1. ASSUME NEW x \in Slots PROVE probs[r][x] # Unseen <=> k0 + x \in Sees(mask, r)
    BY <1>1, MarksAssumption
  <2> QED BY <2>1 DEF Taken
<1>3. ASSUME NEW x \in Taken(r)
      PROVE  probs[r][x] = k0 + x /\ vTile[x] = k0 + x /\ k0 + x \in Keys
  BY <1>1, <1>2, <1>3 DEF Fetched
<1>4. ASSUME NEW c \in Keys
      PROVE  acc[r][c] + Cardinality({x \in Taken(r) : probs[r][x] = c})
             = SumOf(Before(r, k0 + TileKeys))[c]
  <2> DEFINE T == {x \in Taken(r) : probs[r][x] = c}
  <2>1. acc[r][c] = IF c \in Before(r, k0) THEN 1 ELSE 0
    BY DEF SumOf
  <2>2. CASE c \in Sees(mask, r) /\ k0 <= c /\ c < k0 + TileKeys
    <3>1. c - k0 \in Slots /\ k0 + (c - k0) = c
      BY <1>1, <2>2 DEF Slots
    <3>2. c - k0 \in T
      BY <1>2, <1>3, <2>2, <3>1
    <3>3. \A x \in T : x = c - k0
      BY <1>1, <1>2, <1>3
    <3>4. T = {c - k0}
      BY <3>2, <3>3
    <3>5. Cardinality(T) = 1
      BY <3>4, FS_Singleton
    <3>6. c \notin Before(r, k0) /\ c \in Before(r, k0 + TileKeys)
      BY <1>1, <2>2 DEF Before
    <3> QED BY <2>1, <3>5, <3>6 DEF SumOf
  <2>3. CASE ~(c \in Sees(mask, r) /\ k0 <= c /\ c < k0 + TileKeys)
    <3>1. ASSUME NEW x \in T PROVE FALSE
      <4>1. x \in Slots /\ k0 + x = c /\ c \in Sees(mask, r)
        BY <1>2, <1>3
      <4> QED BY <1>1, <2>3, <4>1
    <3>2. Cardinality(T) = 0
      BY <3>1, FS_EmptySet
    <3>3. c \in Before(r, k0) <=> c \in Before(r, k0 + TileKeys)
      BY <1>1, <2>3 DEF Before
    <3> QED BY <2>1, <3>2, <3>3 DEF SumOf
  <2> QED BY <2>2, <2>3
<1>5. Summed(r) = SumOf(Before(r, k0 + TileKeys))
  BY <1>4 DEF Summed, SumOf
<1> QED BY <1>3, <1>5 DEF Mismatched

\* A warp adds the tile's values to its rows.
LEMMA AccumulateOK ==
  ASSUME IInv, NEW w \in Warps, Accumulate(w)
  PROVE  IInv'
<1>0. /\ Geometry /\ TypeOK /\ InStep /\ WarpInv(w) /\ UNCHANGED call
      /\ pc[w] = "pv" /\ w \notin waiting /\ Goes(w, "store") /\ waiting' = waiting \cup {w}
      /\ acc' = [r \in BlockRows |-> IF r \in RowsOf(w) THEN Summed(r) ELSE acc[r]]
      /\ spoilt' = spoilt \cup {r \in RowsOf(w) : Mismatched(r)}
      /\ UNCHANGED <<bounds, queries, tiles, sweep, step, next, probs, top, out>>
  BY DEF IInv, TypeOK, Geometry, Accumulate, Runs, Waits
<1>1. /\ mask' = mask /\ cube' = cube /\ QBlocks' = QBlocks
      /\ BlockRows' = BlockRows /\ Keys' = Keys /\ Tile' = Tile /\ Sweep' = Sweep
      /\ RowsOf(w)' = RowsOf(w)
  BY <1>0, Fixed
<1>2. /\ pc' \in [Warps -> Places] /\ pc'[w] = "store"
      /\ \A v \in Warps : v # w => pc'[v] = pc[v]
  BY <1>0, Moved DEF Places
<1>3. RowsOf(w) \subseteq BlockRows
  BY <1>0, WarpRows
<1>4. AtTile(w) /\ Loaded(w) /\ AtTile(w)' /\ Loaded(w)'
  BY <1>0, <1>2 DEF AtTile, Loaded
<1>5. Start(w) \in Nat /\ Start(w)' = Start(w) /\ More(w)' = More(w)
  BY <1>0, <1>4, StartIs DEF Start, More
<1>6. TypeOK'
  <2>1. ASSUME NEW r \in BlockRows PROVE Summed(r) \in [Keys -> Nat]
    <3>1. \A c \in Keys : acc[r][c] \in Nat
      BY <1>0 DEF TypeOK
    <3>2. \A c \in Keys : Cardinality({x \in Taken(r) : probs[r][x] = c}) \in Nat
      <4>1. IsFiniteSet(Slots)
        BY SizesAssumption, FS_Interval DEF Slots
      <4> SUFFICES ASSUME NEW c \in Keys
                   PROVE  Cardinality({x \in Taken(r) : probs[r][x] = c}) \in Nat
        OBVIOUS
      <4>2. {x \in Taken(r) : probs[r][x] = c} \subseteq Slots
        BY DEF Taken
      <4> QED BY <4>1, <4>2, FS_Subset, FS_CardinalityType
    <3> QED BY <3>1, <3>2 DEF Summed
  <2>2. acc' \in [BlockRows -> [Keys -> Nat]]
    BY <1>0, <2>1 DEF TypeOK
  <2>3. spoilt' \subseteq BlockRows /\ waiting' \subseteq Warps
    BY <1>0, <1>3 DEF TypeOK
  <2> QED BY <1>0, <1>1, <1>2, <2>2, <2>3 DEF TypeOK, tiles
<1>7. InStep'
  <2>1. Stage(w)' = Stage(w)
    BY <1>0, <1>2 DEF Stage
  <2> QED BY <1>0, <2>1, StagesKept DEF Places
<1>8. WarpInv(w)'
  <2>1. Placed(w)'
    BY <1>0, <1>1, <1>2, <1>4 DEF WarpInv, Placed
  <2>2. BoundsFound(w)'
    BY <1>0, <1>1 DEF WarpInv, BoundsFound
  <2>3. ShareIn(w)'
    BY <1>0, <1>1, <1>4, <1>5 DEF WarpInv, ShareIn, tiles
  <2>4. SumsKnown(w)'
    <3> SUFFICES ASSUME NEW r \in RowsOf(w), r < mask.tq
                 PROVE  /\ r \notin spoilt'
                        /\ acc'[r] = SumOf(Before(r, Summand(w)'))
                        /\ top'[r] = (Before(r, Scored(w)') # {})
      BY <1>0, <1>1, <1>2, Fixed DEF SumsKnown
    <3>1. r \in BlockRows
      BY <1>3
    <3>2. /\ Summand(w) = Start(w) /\ Scored(w) = Start(w) + TileKeys
          /\ Summand(w)' = Start(w) + TileKeys /\ Scored(w)' = Start(w) + TileKeys
      BY <1>0, <1>2, <1>4, <1>5 DEF Summand, Scored
    <3>3. /\ r \notin spoilt /\ acc[r] = SumOf(Before(r, Start(w)))
          /\ top[r] = (Before(r, Start(w) + TileKeys) # {})
          /\ probs[r] = [x \in Slots |-> IF Start(w) + x \in Sees(mask, r)
                                         THEN Start(w) + x ELSE Unseen]
      BY <1>0, <3>2 DEF WarpInv, SumsKnown
    <3>4. vTile = Fetched(Start(w), mask.tk)
      BY <1>0, TileIsWhole
    <3>5. Summed(r) = SumOf(Before(r, Start(w) + TileKeys)) /\ ~Mismatched(r)
      BY <1>0, <1>5, <3>1, <3>3, <3>4, TileSummed
    <3> QED BY <1>0, <3>1, <3>2, <3>3, <3>5
  <2>5. OutputsKnown(w)'
    BY <1>0, <1>1, <1>2, Fixed DEF WarpInv, OutputsKnown
  <2> QED BY <2>1, <2>2, <2>3, <2>4, <2>5 DEF WarpInv
<1>9. \A v \in Warps : v # w => Untouched(v)
  <2> SUFFICES ASSUME NEW v \in Warps, v # w PROVE Untouched(v)
    OBVIOUS
  <2>1. \A r \in RowsOf(v) : r \in BlockRows /\ r \notin RowsOf(w)
    BY <1>0, WarpRows, RowsApart
  <2>2. \A r \in RowsOf(v) : acc'[r] = acc[r] /\ (r \in spoilt' <=> r \in spoilt)
    BY <1>0, <2>1
  <2> QED BY <1>0, <1>2, <2>2 DEF Untouched, tiles
<1> QED BY <1>6, <1>7, <1>8, <1>9, Assembled

\* A warp stores its share of the next tile.
LEMMA StoreOK ==
  ASSUME IInv, NEW w \in Warps, Store(w)
  PROVE  IInv'
<1>0. /\ Geometry /\ TypeOK /\ InStep /\ WarpInv(w) /\ UNCHANGED call
      /\ pc[w] = "store" /\ w \notin waiting
      /\ kTile' = Stored(kTile, w, next[w]) /\ vTile' = Stored(vTile, w, next[w])
      /\ pTile' = StoredPad(pTile, w, next[w])
      /\ IF More(w)
         THEN step' = [step EXCEPT ![w] = step[w] + 1] /\ Waits(w, "scores")
         ELSE step' = step /\ GoesOn(w, "write")
      /\ UNCHANGED <<bounds, queries, sweep, next, probs, sums, out>>
  BY DEF IInv, TypeOK, Geometry, Store, Runs
<1>1. /\ mask' = mask /\ cube' = cube /\ QBlocks' = QBlocks
      /\ BlockRows' = BlockRows /\ Keys' = Keys /\ Tile' = Tile /\ Sweep' = Sweep
      /\ RowsOf(w)' = RowsOf(w)
  BY <1>0, Fixed
<1>2. /\ pc' \in [Warps -> Places] /\ waiting' \subseteq Warps
      /\ waiting' \in {waiting, waiting \cup {w}}
      /\ \E at \in Places : Goes(w, at)
      /\ \A v \in Warps : v # w => pc'[v] = pc[v]
      /\ More(w) => pc'[w] = "scores" /\ waiting' = waiting \cup {w}
      /\ ~More(w) => pc'[w] = "write" /\ waiting' = waiting
  <2>1. CASE More(w)
    <3>1. Waits(w, "scores")
      BY <1>0, <2>1
    <3> QED BY <1>0, <2>1, <3>1, Moved DEF Waits, Places, TypeOK
  <2>2. CASE ~More(w)
    <3>1. GoesOn(w, "write")
      BY <1>0, <2>2
    <3> QED BY <1>0, <2>2, <3>1, Moved DEF GoesOn, Places, TypeOK
  <2> QED BY <2>1, <2>2
<1>3. next[w] \in Tile
  BY <1>0 DEF TypeOK
<1>4. /\ kTile' \in Tile /\ vTile' \in Tile /\ pTile' \in Tile
      /\ \A x \in Share(w) : kTile'[x] = next[w][x] /\ vTile'[x] = next[w][x]
      /\ \A x \in PadShare(w) : pTile'[x] = next[w][x]
      /\ \A v \in Warps : v # w =>
           /\ \A x \in Share(v) : kTile'[x] = kTile[x] /\ vTile'[x] = vTile[x]
           /\ \A x \in PadShare(v) : pTile'[x] = pTile[x]
  BY <1>0, <1>3, StoredIn
<1>5. AtTile(w) /\ Loaded(w) /\ Loaded(w)' /\ (AtTile(w)' <=> More(w))
  BY <1>0, <1>2 DEF AtTile, Loaded
<1>6. /\ sweep[w] = Sweep /\ Sweep \in Nat \X Nat /\ step[w] \in Nat /\ step[w] < Sweep[2]
      /\ Start(w) \in Nat
      /\ (Sweep[1] + (step[w] + 1)) * TileKeys = Start(w) + TileKeys
      /\ More(w) <=> step[w] + 1 < Sweep[2]
  BY <1>5, StartIs DEF More
<1>7. /\ step' \in [Warps -> Nat]
      /\ \A v \in Warps : v # w => step'[v] = step[v]
      /\ step'[w] = IF More(w) THEN step[w] + 1 ELSE step[w]
  BY <1>0, <1>6 DEF TypeOK
<1>8. TypeOK'
  BY <1>0, <1>1, <1>2, <1>4, <1>7 DEF TypeOK, sums
<1>9. InStep'
  <2>1. Stage(w) = 2 * step[w] + 3
    BY <1>0 DEF Stage
  <2>2. CASE More(w)
    <3>1. Stage(w)' = 2 * (step[w] + 1) + 1
      BY <1>2, <1>7, <2>2 DEF Stage
    <3>2. Stage(w)' = Stage(w)
      BY <1>6, <2>1, <3>1
    <3> QED BY <1>0, <1>2, <1>7, <3>2, StagesKept
  <2>3. CASE ~More(w)
    <3>1. Stage(w)' = 2 * Sweep[2] + 1
      BY <1>0, <1>2, <1>6, <2>3 DEF Stage
    <3>2. Stage(w)' = Stage(w)
      BY <1>6, <2>1, <2>3, <3>1
    <3> QED BY <1>0, <1>2, <1>7, <3>2, StagesKept
  <2> QED BY <2>2, <2>3
<1>10. WarpInv(w)'
  <2>1. Placed(w)'
    BY <1>0, <1>1, <1>2, <1>5, <1>6, <1>7 DEF Placed
  <2>2. BoundsFound(w)'
    BY <1>0, <1>1 DEF WarpInv, BoundsFound
  <2>3. More(w) => Start(w)' = Start(w) + TileKeys
    BY <1>0, <1>6, <1>7 DEF Start
  <2>4. ShareIn(w)'
    <3>1. More(w) => next[w] = Fetched(Start(w)', mask.tk)
      BY <1>0, <2>3 DEF WarpInv, ShareIn
    <3>2. w \in queries'
      BY <1>0, <1>5 DEF WarpInv, ShareIn
    <3>3. pc'[w] \notin {"pv", "store"}
      BY <1>2
    <3> QED BY <1>1, <1>4, <1>5, <3>1, <3>2, <3>3 DEF ShareIn
  <2>5. SumsKnown(w)'
    <3> SUFFICES ASSUME NEW r \in RowsOf(w), r < mask.tq
                 PROVE  /\ r \notin spoilt'
                        /\ acc'[r] = SumOf(Before(r, Summand(w)'))
                        /\ top'[r] = (Before(r, Scored(w)') # {})
      BY <1>0, <1>1, <1>2, Fixed DEF SumsKnown
    <3>1. Summand(w) = Start(w) + TileKeys /\ Scored(w) = Start(w) + TileKeys
      BY <1>0, <1>5 DEF Summand, Scored
    <3>2. /\ r \notin spoilt /\ acc[r] = SumOf(Before(r, Start(w) + TileKeys))
          /\ top[r] = (Before(r, Start(w) + TileKeys) # {})
      BY <1>0, <3>1 DEF WarpInv, SumsKnown
    <3>3. CASE More(w)
      <4>1. Summand(w)' = Start(w) + TileKeys /\ Scored(w)' = Start(w) + TileKeys
        BY <1>2, <1>5, <2>3, <3>3 DEF Summand, Scored
      <4> QED BY <1>0, <3>2, <4>1 DEF sums
    <3>4. CASE ~More(w)
      <4>1. Summand(w)' = mask.tk /\ Scored(w)' = mask.tk
        BY <1>1, <1>2, <1>5, <3>4 DEF Summand, Scored
      <4>2. Before(r, mask.tk) = Before(r, Start(w) + TileKeys)
        <5>1. r \in BlockRows
          BY <1>0, WarpRows
        <5>2. step[w] + 1 = Sweep[2]
          BY <1>6, <3>4
        <5>3. \A c \in Sees(mask, r) : c < Start(w) + TileKeys /\ c < mask.tk
          BY <1>0, <1>6, <5>1, <5>2, SeenInSweep, Numbers DEF Keys
        <5> QED BY <5>3 DEF Before
      <4> QED BY <1>0, <3>2, <4>1, <4>2 DEF sums
    <3> QED BY <3>3, <3>4
  <2>6. OutputsKnown(w)'
    BY <1>0, <1>1, <1>2, Fixed DEF WarpInv, OutputsKnown
  <2> QED BY <2>1, <2>2, <2>4, <2>5, <2>6 DEF WarpInv
<1>11. \A v \in Warps : v # w => Untouched(v)
  BY <1>0, <1>2, <1>4, <1>7 DEF Untouched, sums
<1> QED BY <1>8, <1>9, <1>10, <1>11, Assembled
\* A barrier opens.
LEMMA ReleaseOK ==
  ASSUME IInv, Release
  PROVE  IInv'
<1>0. /\ Geometry /\ TypeOK /\ InStep /\ UNCHANGED call /\ waiting' = {}
      /\ UNCHANGED <<pc, bounds, queries, tiles, sweep, step, next, probs, sums, out>>
  BY DEF IInv, TypeOK, Geometry, Release
<1>1. \A v \in Warps : pc[v] \in Places /\ step[v] \in Nat /\ sweep[v][2] \in Nat /\ Placed(v)
  BY DEF IInv, WarpInv, TypeOK
<1>2. PICK w \in Warps : w \in waiting
  BY <1>0 DEF Release, TypeOK
\* A warp that is done is past every barrier: none is done while another waits.
<1>3. ASSUME NEW v \in Warps PROVE v \in waiting
  <2> SUFFICES ASSUME pc[v] = "done" PROVE FALSE
    BY DEF Release
  <2>1. Stage(v) = 2 * Sweep[2] + 1
    BY <1>1 DEF Stage, Placed, Loaded
  <2>2. Stage(v) = Stage(w) /\ Sweep[2] \in Nat
    BY <1>0, SweepHolds DEF InStep
  <2>3. CASE pc[w] = "load"
    <3>1. Stage(w) = 0
      BY <1>2, <2>3 DEF Stage
    <3> QED BY <2>1, <2>2, <3>1
  <2>4. CASE pc[w] = "scores"
    <3>1. Stage(w) = 2 * step[w] + 1
      BY <1>2, <2>4 DEF Stage
    <3> QED BY <1>1, <2>1, <2>2, <2>4, <3>1 DEF Placed, AtTile
  <2>5. CASE pc[w] = "store"
    <3>1. Stage(w) = 2 * step[w] + 2
      BY <1>2, <2>5 DEF Stage
    <3> QED BY <1>1, <2>1, <2>2, <3>1
  <2> QED BY <1>1, <1>2, <2>3, <2>4, <2>5 DEF Placed
<1>4. ASSUME NEW v \in Warps PROVE Stage(v)' = Stage(v) + 1
  <2>1. v \in waiting /\ v \notin waiting' /\ pc'[v] = pc[v] /\ step'[v] = step[v]
    BY <1>0, <1>3
  <2>2. CASE pc[v] = "load"
    BY <2>1, <2>2 DEF Stage
  <2>3. CASE pc[v] = "scores"
    BY <1>1, <2>1, <2>3 DEF Stage
  <2>4. CASE pc[v] = "store"
    BY <1>1, <2>1, <2>4 DEF Stage
  <2> QED BY <1>1, <2>1, <2>2, <2>3, <2>4 DEF Placed
<1>5. InStep'
  BY <1>0, <1>4 DEF InStep
<1>6. TypeOK'
  <2>1. /\ mask' = mask /\ cube' = cube /\ QBlocks' = QBlocks
        /\ BlockRows' = BlockRows /\ Keys' = Keys /\ Tile' = Tile
    BY <1>0, Fixed
  <2> QED BY <1>0, <2>1 DEF TypeOK, tiles, sums
<1>7. \A v \in Warps : Untouched(v)
  BY <1>0 DEF Untouched, tiles, sums
<1>8. \A v \in Warps : WarpInv(v)'
  BY <1>7, UntouchedKeeps DEF IInv
<1> QED BY <1>5, <1>6, <1>8 DEF IInv

\* A cube starts in the invariant.
LEMMA InitOK == Init => IInv
<1> SUFFICES ASSUME Init PROVE IInv
  OBVIOUS
<1>0. Geometry
  BY DEF Init, Geometry
<1>1. TypeOK
  <2>1. /\ pc \in [Warps -> Places] /\ waiting \subseteq Warps /\ queries \subseteq Warps
        /\ bounds \in [BlockRows -> Int \X Int]
        /\ sweep \in [Warps -> Nat \X Nat] /\ step \in [Warps -> Nat]
    BY DEF Init, Places
  <2>2. kTile \in Tile /\ vTile \in Tile /\ pTile \in Tile /\ next \in [Warps -> Tile]
    BY DEF Init, Tile
  <2>3. /\ probs \in [BlockRows -> [Slots -> Keys \cup {Zero, Junk, Unseen}]]
        /\ acc \in [BlockRows -> [Keys -> Nat]]
        /\ top \in [BlockRows -> BOOLEAN] /\ spoilt \subseteq BlockRows
        /\ out \in [BlockRows -> [sum : [Keys -> Nat], finite : BOOLEAN] \cup {Pending}]
    BY DEF Init
  <2> QED BY <1>0, <2>1, <2>2, <2>3 DEF TypeOK, Geometry
<1>2. InStep
  <2>1. \A w \in Warps : pc[w] = "bounds"
    BY DEF Init
  <2> QED BY <2>1 DEF InStep, Stage
<1>3. ASSUME NEW w \in Warps PROVE WarpInv(w)
  <2>1. /\ pc[w] = "bounds" /\ ~Loaded(w) /\ ~AtTile(w) /\ w \notin waiting /\ w \notin queries
        /\ step[w] = 0
    BY DEF Init, Loaded, AtTile
  <2>2. Placed(w) /\ BoundsFound(w) /\ ShareIn(w)
    BY <2>1 DEF Placed, BoundsFound, ShareIn
  <2>3. SumsKnown(w)
    <3> SUFFICES ASSUME NEW r \in RowsOf(w), r < mask.tq
                 PROVE  /\ r \notin spoilt
                        /\ acc[r] = SumOf(Before(r, Summand(w)))
                        /\ top[r] = (Before(r, Scored(w)) # {})
      BY <2>1 DEF SumsKnown
    <3>1. r \in BlockRows
      BY <1>0, WarpRows
    <3>2. Summand(w) = 0 /\ Scored(w) = 0
      BY <2>1 DEF Summand, Scored
    <3>3. Before(r, 0) = {}
      BY <1>0, <3>1, NoneBefore
    <3> QED BY <3>1, <3>2, <3>3 DEF Init, SumOf
  <2>4. OutputsKnown(w)
    BY <1>0, <2>1, WarpRows DEF OutputsKnown, Init
  <2> QED BY <2>2, <2>3, <2>4 DEF WarpInv
<1> QED BY <1>1, <1>2, <1>3 DEF IInv

\* Each action keeps it.
LEMMA StepOK == IInv /\ [Next]_vars => IInv'
<1> SUFFICES ASSUME IInv, [Next]_vars PROVE IInv'
  OBVIOUS
<1>1. CASE Release
  BY <1>1, ReleaseOK
<1>2. ASSUME NEW w \in Warps, Warp(w) PROVE IInv'
  BY <1>2, FindBoundsOK, LoadOK, ScoresOK, AccumulateOK, StoreOK, WriteOK DEF Warp
<1>3. CASE UNCHANGED vars
  <2>0. UNCHANGED call /\ UNCHANGED <<pc, waiting, sweep, step>>
    BY <1>3 DEF vars, call
  <2>1. TypeOK'
    <3>1. /\ mask' = mask /\ cube' = cube /\ QBlocks' = QBlocks
          /\ BlockRows' = BlockRows /\ Keys' = Keys /\ Tile' = Tile
      BY <2>0, Fixed
    <3> QED BY <1>3, <3>1 DEF vars, TypeOK, IInv
  <2>2. InStep'
    BY <2>0 DEF IInv, InStep, Stage
  <2>3. \A v \in Warps : Untouched(v)
    BY <1>3, <2>0 DEF vars, Untouched
  <2>4. \A v \in Warps : WarpInv(v)'
    BY <2>3, UntouchedKeeps DEF IInv
  <2> QED BY <2>1, <2>2, <2>4 DEF IInv
<1> QED BY <1>1, <1>2, <1>3 DEF Next

\* IInv holds throughout.
THEOREM Inductive == Spec => []IInv
BY InitOK, StepOK, PTL DEF Spec

-----------------------------------------------------------------------------
(* What the module promises. *)

\* The variables keep their types: no slot of a tile ever holds a row past the keys.
THEOREM TypeCorrect == Spec => []TypeOK
<1>1. IInv => TypeOK
  BY DEF IInv
<1> QED BY <1>1, Inductive, PTL

\* Every warp meets the same barriers.
THEOREM BarriersMet == Spec => []InStep
<1>1. IInv => InStep
  BY DEF IInv
<1> QED BY <1>1, Inductive, PTL

\* No warp works on a tile another has not filled, or has begun to overwrite.
THEOREM TilesStayWhole == Spec => []TilesWhole
<1>1. IInv => TilesWhole
  BY TileIsWhole DEF TilesWhole
<1> QED BY <1>1, Inductive, PTL

\* A row's value is what the operation promises of it.
LEMMA ValueIsResult ==
  ASSUME NEW r
  PROVE  Abs!Result(mask, r) = RowValue(r)
<1>1. Abs!Sees(mask, r) = Sees(mask, r)
  BY DEF Abs!Sees, Sees, Abs!Hidden, Hidden, Abs!PackedHidden, PackedHidden, Abs!Packed, Packed,
         Abs!OutsideWindow, OutsideWindow, Abs!Binds, Binds, Abs!Holds, Holds
<1> QED BY <1>1 DEF Abs!Result, RowValue, SumOf, Keys

\* What the cube writes of a row is every key the reference lets it see, once, and
\* nothing else.
THEOREM RowsAreExact == Spec => []RowsExact
<1>1. IInv => RowsExact
  <2> SUFFICES ASSUME IInv, NEW r \in BlockRows, out[r] # Pending
               PROVE  r < mask.tq /\ r \notin spoilt /\ out[r] = RowValue(r)
    BY ValueIsResult DEF RowsExact
  <2>1. Geometry
    BY DEF IInv, TypeOK, Geometry
  <2>2. PICK w \in Warps : r \in RowsOf(w)
    BY <2>1, RowsCovered
  <2> QED BY <2>2 DEF IInv, WarpInv, OutputsKnown, SumsKnown
<1> QED BY <1>1, Inductive, PTL
-----------------------------------------------------------------------------
(* The cube implements the operation: its outputs are the abstract ones. *)

Outputs == [r \in {q \in BlockRows : q < mask.tq} |-> out[r]]
AbsVars == <<mask, cube, Outputs>>

\* The abstract operation has the same rows.
LEMMA AbsBlock ==
  Abs!Queries = {q \in BlockRows : q < mask.tq}
BY DEF Abs!Queries, Abs!BlockRows, Abs!Q0, Abs!QBlocks, BlockRows, Q0, QBlocks

\* It starts where the cube does.
LEMMA AbsInitOK == Init => Abs!Init
<1> SUFFICES ASSUME Init PROVE Abs!Init
  OBVIOUS
<1>1. mask \in Masks /\ cube \in 0 .. Abs!QBlocks - 1
  BY DEF Init, Abs!QBlocks, QBlocks
<1>2. Outputs = [r \in Abs!Queries |-> Pending]
  BY AbsBlock DEF Outputs, Init
<1> QED BY <1>1, <1>2 DEF Abs!Init, Outputs

\* Writing a warp's rows is the abstract step on those of them that are queries; a
\* warp without any, and every other step, leaves the outputs as they were.
LEMMA AbsWrite ==
  ASSUME IInv, NEW w \in Warps, Write(w)
  PROVE  [Abs!Attend]_AbsVars
<1> DEFINE S == {r \in RowsOf(w) : r < mask.tq}
<1>1. /\ Geometry /\ pc[w] = "write" /\ UNCHANGED call /\ WarpInv(w) /\ WarpInv(w)' /\ pc'[w] = "done"
      /\ RowsOf(w)' = RowsOf(w) /\ BlockRows' = BlockRows /\ mask' = mask /\ cube' = cube
      /\ \A r : RowValue(r)' = RowValue(r)
  <2>1. IInv'
    BY WriteOK
  <2> QED BY <2>1, Fixed DEF IInv, TypeOK, Geometry, Write, Runs, GoesOn, Goes
<1>2. S \subseteq Abs!Queries /\ RowsOf(w) \subseteq BlockRows
  BY <1>1, AbsBlock, WarpRows
<1>3. \A r \in S : Outputs[r] = Pending
  BY <1>1, <1>2, AbsBlock DEF Outputs, WarpInv, OutputsKnown
<1>4. \A r \in BlockRows : r < mask.tq => out'[r] = IF r \in S THEN RowValue(r) ELSE out[r]
  <2>1. \A r \in RowsOf(w) : r < mask.tq => out'[r] = RowValue(r)
    BY <1>1 DEF WarpInv, OutputsKnown
  <2>2. \A r \in BlockRows : r \notin RowsOf(w) => out'[r] = out[r]
    BY DEF Write
  <2> QED BY <2>1, <2>2
<1>5. Outputs' = [r \in Abs!Queries |-> IF r \in S THEN Abs!Result(mask, r) ELSE Outputs[r]]
  BY <1>1, <1>4, AbsBlock, ValueIsResult DEF Outputs
<1> HIDE DEF S
<1>6. CASE S = {}
  <2>1. Outputs' = Outputs
    BY <1>5, <1>6, AbsBlock DEF Outputs
  <2> QED BY <1>1, <2>1 DEF AbsVars
<1>7. CASE S # {}
  <2>1. S \in (SUBSET Abs!Queries) \ {{}}
    BY <1>2, <1>7
  <2> QED BY <1>1, <1>3, <1>5, <2>1 DEF Abs!Attend, Outputs
<1> QED BY <1>6, <1>7

\* A warp's writing is a step of it; the other actions leave its outputs alone.
LEMMA AbsStepOK == IInv /\ [Next]_vars => [Abs!Attend]_AbsVars
<1> SUFFICES ASSUME IInv, [Next]_vars PROVE [Abs!Attend]_AbsVars
  OBVIOUS
<1>1. CASE \E w \in Warps : Write(w)
  BY <1>1, AbsWrite
<1>2. CASE UNCHANGED <<call, out>>
  <2>1. BlockRows' = BlockRows /\ mask' = mask /\ cube' = cube
    BY <1>2, Fixed
  <2> QED BY <1>2, <2>1 DEF AbsVars, Outputs
<1> QED BY <1>1, <1>2 DEF Next, Warp, Release, FindBounds, Load, Scores, Accumulate, Store, vars, call

\* The cube starts where the abstract operation does, and each of its steps is one of
\* the operation's or leaves the outputs alone.
THEOREM ImplementsResult == Spec => Abs!Init /\ [][Abs!Attend]_AbsVars
BY AbsInitOK, AbsStepOK, Inductive, PTL DEF Spec
=============================================================================
