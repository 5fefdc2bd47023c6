-------------------------- MODULE AttentionForward --------------------------
(***************************************************************************)
(* One cube of forward_kernel (dash-ops attention/kernels.rs): a block of   *)
(* query rows, RowsPerWarp of them to each warp, sweeping the key tiles its *)
(* rows see.  The warps share one tile of K, one of V and its padding       *)
(* flags, which they load together, each its own share of the rows; while   *)
(* a tile is worked on, each warp fetches its share of the next one into    *)
(* registers, and stores it once every warp is done with the tile.  Only    *)
(* sync_cube keeps a warp from reading a tile that is not whole.            *)
(*                                                                         *)
(* A slot of a tile holds the number of the key whose row is in it.  The    *)
(* cubes of a launch write rows of their own blocks and nothing else, so    *)
(* one cube is the whole of it; batch and head only choose base addresses.  *)
(***************************************************************************)
EXTENDS AttentionMask, FiniteSets

CONSTANTS Masks,         \* the calls, all within the contract
          NumWarps, RowsPerWarp, TileKeys,
          Zero,          \* what a slot past the keys is filled with
          Junk,          \* what shared memory holds before anything is stored
          Unseen,        \* the probability of a key the row does not see
          Pending        \* an output row not written yet

ASSUME MasksAssumption == \A m \in Masks : IsMask(m)
ASSUME SizesAssumption ==
  NumWarps \in Nat \ {0} /\ RowsPerWarp \in Nat \ {0} /\ TileKeys \in Nat \ {0}
ASSUME MarksAssumption ==
  Zero \notin Int /\ Junk \notin Int /\ Unseen \notin Int
  /\ Zero # Junk /\ Zero # Unseen /\ Junk # Unseen

Warps == 0 .. NumWarps - 1
Slots == 0 .. TileKeys - 1
BlockQ == NumWarps * RowsPerWarp

VARIABLES mask, cube,   \* the call, and which cube this is
          pc,           \* what each warp does next
          waiting,      \* the warps at a barrier
          bounds,       \* shared: the interval of each row of the block
          queries,      \* shared: the warps whose share of the Q tile is in
          kTile, vTile, pTile,  \* shared: keys, values, padding flags
          sweep,        \* register: the block's first tile and how many
          step,         \* register: j
          next,         \* register: the share of the next tile
          probs,        \* register: what each row took from each slot of K
          acc, top,     \* register: each row's sum, whether its maximum is finite
          spoilt,       \* the rows that added a NaN or a key to another's value
          out           \* the rows written

vars == <<mask, cube, pc, waiting, bounds, queries, kTile, vTile, pTile,
          sweep, step, next, probs, acc, top, spoilt, out>>
call == <<mask, cube>>
tiles == <<kTile, vTile, pTile>>
sums == <<acc, top, spoilt>>

QBlocks == (mask.tq + BlockQ - 1) \div BlockQ
Q0 == (QBlocks - 1 - cube) * BlockQ
Row0(w) == Q0 + w * RowsPerWarp
RowsOf(w) == Row0(w) .. Row0(w) + RowsPerWarp - 1
BlockRows == Q0 .. Q0 + BlockQ - 1
Keys == 0 .. mask.tk - 1

\* The share of a tile each warp moves: every NumWarps-th row.  The padding
\* flags are moved by the first threads alone.
Share(w) == {x \in Slots : x % NumWarps = w}
PadShare(w) == IF w = 0 THEN Slots ELSE {}

\* load_rows, fetch_rows: the key of slot x of the tile from key0, zero at or
\* past the limit.
Fetched(key0, limit) == [x \in Slots |-> IF key0 + x < limit THEN key0 + x ELSE Zero]

Init ==
  /\ mask \in Masks
  /\ cube \in 0 .. QBlocks - 1
  /\ pc = [w \in Warps |-> "bounds"]
  /\ waiting = {}
  /\ bounds = [r \in BlockRows |-> <<0, 0>>]
  /\ queries = {}
  /\ kTile = [x \in Slots |-> Junk]
  /\ vTile = [x \in Slots |-> Junk]
  /\ pTile = [x \in Slots |-> Junk]
  /\ sweep = [w \in Warps |-> <<0, 0>>]
  /\ step = [w \in Warps |-> 0]
  /\ next = [w \in Warps |-> [x \in Slots |-> Junk]]
  /\ probs = [r \in BlockRows |-> [x \in Slots |-> Unseen]]
  /\ acc = [r \in BlockRows |-> [c \in Keys |-> 0]]
  /\ top = [r \in BlockRows |-> FALSE]
  /\ spoilt = {}
  /\ out = [r \in BlockRows |-> Pending]

Runs(w, at) == pc[w] = at /\ w \notin waiting
Goes(w, at) == pc' = [pc EXCEPT ![w] = at]
GoesOn(w, at) == Goes(w, at) /\ UNCHANGED waiting
Waits(w, at) == Goes(w, at) /\ waiting' = waiting \cup {w}

\* The barrier opens when every warp that still runs is at it.
Release ==
  /\ waiting # {}
  /\ \A w \in Warps : w \in waiting \/ pc[w] = "done"
  /\ waiting' = {}
  /\ UNCHANGED <<call, pc, bounds, queries, tiles, sweep, step, next, probs, sums, out>>

\* block_bounds, up to its barrier.
FindBounds(w) ==
  /\ Runs(w, "bounds")
  /\ bounds' = [r \in BlockRows |->
                  IF r \in RowsOf(w) THEN RowBounds(mask, r) ELSE bounds[r]]
  /\ Waits(w, "load")
  /\ UNCHANGED <<call, queries, tiles, sweep, step, next, probs, sums, out>>

\* What a warp's stores leave of a tile.
Stored(tile, w, new) == [x \in Slots |-> IF x \in Share(w) THEN new[x] ELSE tile[x]]
StoredPad(tile, w, new) == [x \in Slots |-> IF x \in PadShare(w) THEN new[x] ELSE tile[x]]

\* Mutant: a warp goes by the intervals of its own rows.
LoadOwnSpan(w) ==
  LET own == [r \in RowsOf(w) |-> bounds[r]]
      s == Tiles(SpanLo(mask, own), SpanHi(mask, own), TileKeys)
      new == Fetched(s[1] * TileKeys, IF s[2] > 0 THEN mask.tk ELSE 0)
  IN /\ Runs(w, "load")
     /\ sweep' = [sweep EXCEPT ![w] = s]
     /\ queries' = queries \cup {w}
     /\ kTile' = Stored(kTile, w, new)
     /\ vTile' = Stored(vTile, w, new)
     /\ pTile' = StoredPad(pTile, w, new)
     /\ IF s[2] > 0 THEN Waits(w, "scores") ELSE GoesOn(w, "write")
     /\ UNCHANGED <<call, bounds, step, next, probs, sums, out>>

\* The block's tiles from every row's interval, then the warp's share of Q and
\* of the first tile; with no tile to sweep it goes straight to the output.
Load(w) ==
  LET s == Tiles(SpanLo(mask, bounds), SpanHi(mask, bounds), TileKeys)
      new == Fetched(s[1] * TileKeys, IF s[2] > 0 THEN mask.tk ELSE 0)
  IN /\ Runs(w, "load")
     /\ sweep' = [sweep EXCEPT ![w] = s]
     /\ queries' = queries \cup {w}
     /\ kTile' = Stored(kTile, w, new)
     /\ vTile' = Stored(vTile, w, new)
     /\ pTile' = StoredPad(pTile, w, new)
     /\ IF s[2] > 0 THEN Waits(w, "scores") ELSE GoesOn(w, "write")
     /\ UNCHANGED <<call, bounds, step, next, probs, sums, out>>

Start(w) == (sweep[w][1] + step[w]) * TileKeys
More(w) == step[w] + 1 < sweep[w][2]

\* A slot's flag says the key is left out; past the keys it always does.
PaddingIn(x) == Padded(mask) /\ (pTile[x] \notin Int \/ pTile[x] \in mask.pad)

\* Row r of warp w sees slot x: by its number in the tile, never by what is in it.
SeesSlot(w, r, x) ==
  LET masked == Padded(mask)
                \/ TileMasked(mask, Row0(w), RowsPerWarp, Start(w), TileKeys, bounds)
  IN masked => /\ bounds[r][1] <= Start(w) + x
               /\ Start(w) + x < bounds[r][2]
               /\ ~PaddingIn(x)

\* Mutant: a tile that hides everything is exponentiated against -inf.
RescaledBare(old, new) == IF new THEN (IF old THEN "kept" ELSE "zero") ELSE "nan"

\* What exp(max - base) does to a row's sum when its maximum was finite (old)
\* and is now (new): the base is 0 while every key so far was hidden.
Rescaled(old, new) == IF old THEN "kept" ELSE "zero"

\* Fetch the share of the next tile, then S = Q K^T on this one, the mask and
\* the new maxima.
Scores(w) ==
  /\ Runs(w, "scores")
  /\ next' = [next EXCEPT ![w] =
                Fetched(Start(w) + TileKeys, IF More(w) THEN mask.tk ELSE 0)]
  /\ probs' = [r \in BlockRows |->
                 IF r \in RowsOf(w)
                 THEN [x \in Slots |-> IF SeesSlot(w, r, x) THEN kTile[x] ELSE Unseen]
                 ELSE probs[r]]
  /\ LET newTop(r) == top[r] \/ \E x \in Slots : SeesSlot(w, r, x)
     IN /\ top' = [r \in BlockRows |-> IF r \in RowsOf(w) THEN newTop(r) ELSE top[r]]
        /\ acc' = [r \in BlockRows |->
                     IF r \in RowsOf(w) /\ Rescaled(top[r], newTop(r)) = "zero"
                     THEN [c \in Keys |-> 0] ELSE acc[r]]
        /\ spoilt' = spoilt \cup {r \in RowsOf(w) : Rescaled(top[r], newTop(r)) = "nan"}
  /\ GoesOn(w, "pv")
  /\ UNCHANGED <<call, bounds, queries, tiles, sweep, step, out>>

Taken(r) == {x \in Slots : probs[r][x] # Unseen}

\* Row r's sum after P V of the tile.
Summed(r) ==
  [c \in Keys |-> acc[r][c] + Cardinality({x \in Taken(r) : probs[r][x] = c})]

\* A value meets the probability of another key, or of no key.
Mismatched(r) == \E x \in Taken(r) : probs[r][x] # vTile[x] \/ probs[r][x] \notin Keys

\* Mutant: the barrier before the next tile is stored is left out.
AccumulateUnsynced(w) ==
  /\ Runs(w, "pv")
  /\ acc' = [r \in BlockRows |-> IF r \in RowsOf(w) THEN Summed(r) ELSE acc[r]]
  /\ spoilt' = spoilt \cup {r \in RowsOf(w) : Mismatched(r)}
  /\ GoesOn(w, "store")
  /\ UNCHANGED <<call, bounds, queries, tiles, sweep, step, next, probs, top, out>>

\* acc += P V, then the barrier.
Accumulate(w) ==
  /\ Runs(w, "pv")
  /\ acc' = [r \in BlockRows |-> IF r \in RowsOf(w) THEN Summed(r) ELSE acc[r]]
  /\ spoilt' = spoilt \cup {r \in RowsOf(w) : Mismatched(r)}
  /\ Waits(w, "store")
  /\ UNCHANGED <<call, bounds, queries, tiles, sweep, step, next, probs, top, out>>

\* The next tile goes in; the loop goes round through its barrier, or ends.
Store(w) ==
  /\ Runs(w, "store")
  /\ kTile' = Stored(kTile, w, next[w])
  /\ vTile' = Stored(vTile, w, next[w])
  /\ pTile' = StoredPad(pTile, w, next[w])
  /\ IF More(w)
     THEN step' = [step EXCEPT ![w] = step[w] + 1] /\ Waits(w, "scores")
     ELSE step' = step /\ GoesOn(w, "write")
  /\ UNCHANGED <<call, bounds, queries, sweep, next, probs, sums, out>>

\* The rows of the warp that are queries are written.
Write(w) ==
  /\ Runs(w, "write")
  /\ out' = [r \in BlockRows |->
               IF r \in RowsOf(w) /\ r < mask.tq THEN [sum |-> acc[r], finite |-> top[r]]
                                                 ELSE out[r]]
  /\ GoesOn(w, "done")
  /\ UNCHANGED <<call, bounds, queries, tiles, sweep, step, next, probs, sums>>

Warp(w) ==
  FindBounds(w) \/ Load(w) \/ Scores(w) \/ Accumulate(w) \/ Store(w) \/ Write(w)

Next == Release \/ \E w \in Warps : Warp(w)

Spec ==
  /\ Init /\ [][Next]_vars
  /\ WF_vars(Release) /\ \A w \in Warps : WF_vars(Warp(w))

-----------------------------------------------------------------------------

Places == {"bounds", "load", "scores", "pv", "store", "write", "done"}

Tile == [Slots -> Keys \cup {Zero, Junk}]

\* Each variable has its values: above all, no slot of a tile, and no share of
\* one fetched ahead, is of a row past the keys.
TypeOK ==
  /\ mask \in Masks /\ cube \in 0 .. QBlocks - 1
  /\ pc \in [Warps -> Places]
  /\ waiting \subseteq Warps
  /\ bounds \in [BlockRows -> Int \X Int]
  /\ queries \subseteq Warps
  /\ kTile \in Tile /\ vTile \in Tile /\ pTile \in Tile
  /\ sweep \in [Warps -> Nat \X Nat]
  /\ step \in [Warps -> Nat]
  /\ next \in [Warps -> Tile]
  /\ probs \in [BlockRows -> [Slots -> Keys \cup {Zero, Junk, Unseen}]]
  /\ acc \in [BlockRows -> [Keys -> Nat]]
  /\ top \in [BlockRows -> BOOLEAN]
  /\ spoilt \subseteq BlockRows
  /\ out \in [BlockRows -> [sum : [Keys -> Nat], finite : BOOLEAN] \cup {Pending}]

\* The number of barriers behind a warp: the stretch of the kernel it is in.
Stage(w) ==
  CASE pc[w] = "bounds" -> 0
    [] pc[w] = "load" -> IF w \in waiting THEN 0 ELSE 1
    [] pc[w] = "scores" -> 2 * step[w] + (IF w \in waiting THEN 1 ELSE 2)
    [] pc[w] = "pv" -> 2 * step[w] + 2
    [] pc[w] = "store" -> 2 * step[w] + (IF w \in waiting THEN 2 ELSE 3)
    [] pc[w] \in {"write", "done"} -> 2 * sweep[w][2] + 1

\* No warp is a barrier ahead of another: every warp meets the same barriers, so
\* none waits for a warp that has gone another way.
InStep == \A v, w \in Warps : Stage(v) = Stage(w)

\* While a warp works on a tile, every slot holds that tile's key: the share of
\* every other warp is in, and none has begun on the next tile.
TilesWhole ==
  \A w \in Warps :
    pc[w] \in {"scores", "pv"} /\ w \notin waiting =>
      /\ queries = Warps
      /\ kTile = Fetched(Start(w), mask.tk)
      /\ vTile = kTile /\ pTile = kTile

Abs ==
  INSTANCE AttentionResult WITH out <- [r \in {q \in BlockRows : q < mask.tq} |-> out[r]]

\* A row written holds every key the reference lets it see, once, and nothing
\* else; no sum took in a NaN or another key's value; rows past the queries are
\* never written.
RowsExact ==
  \A r \in BlockRows :
    out[r] # Pending => r < mask.tq /\ r \notin spoilt /\ out[r] = Abs!Result(mask, r)

\* The cube does what the operation promises of its block, to the last row.
Implements == Abs!Spec
==============================================================================
