-------------------------- MODULE AttentionBackward --------------------------
(***************************************************************************)
(* The attention backward (dash-ops attention/cube.rs, fn backward): up to  *)
(* four kernels launched one after the other on a stream, so that a cube of *)
(* one starts when every cube of the last has ended, while the cubes of one *)
(* run in any order.                                                        *)
(*                                                                         *)
(*   delta     zeroes the accumulators the others add to, rewrites the      *)
(*             log-sum-exp and, packed, finds every query's interval        *)
(*   dq        (unless atomic) dQ of each query block, in a fixed order     *)
(*   products  dK and dV of each key block, sweeping the query heads of the *)
(*             group; with atomic also dQ, added to an accumulator; split,  *)
(*             two cubes share a key block and add to an accumulator        *)
(*   finish    (if anything was accumulated) rounds the accumulators        *)
(*                                                                         *)
(* One batch element and one key-value head with its group of query heads:  *)
(* the others only have other addresses.  A gradient is the count of each   *)
(* (query, key) product in it; dK and dV take the same ones, dkv is both.   *)
(***************************************************************************)
EXTENDS AttentionMask, FiniteSets

CONSTANTS Masks,        \* the calls, all within the contract
          Group,        \* query heads per key-value head
          Block,        \* BLOCK_KV: keys per block, queries per step
          DqBlock, DqRows, DqTile,  \* dq: queries per cube, per warp; keys per tile
          Chunks,       \* d / 8
          RowsPerCube,  \* delta: rows per cube
          Junk,         \* what memory holds before it is written
          Pending       \* a gradient not written yet

ASSUME MasksAssumption == \A m \in Masks : IsMask(m) /\ m.tq > 0 /\ m.tk > 0
ASSUME SizesAssumption ==
  /\ {Group, Block, DqBlock, DqRows, Chunks, RowsPerCube} \subseteq Nat \ {0}
  /\ DqBlock % DqRows = 0
  /\ DqTile \in Nat \ {0} /\ DqTile % 2 = 0
\* Memory nobody wrote is told from a sum, as no kernel could tell it.
ASSUME JunkAssumption ==
  \A m \in Masks : /\ Junk \notin [0 .. m.tk - 1 -> Nat]
                   /\ Junk \notin [(0 .. Group - 1) \X (0 .. m.tq - 1) -> Nat]

VARIABLES mask, split, atomic,  \* the call
          launch, ran,          \* the kernel on the stream, its cubes that ended
          plan, it, sums,       \* products: each cube's sweep, step and sums
          lseBwd, bounds, dqAcc, kvAcc,  \* what delta prepares
          dq, dkv,              \* the gradients
          spoilt                \* some product was a NaN, or of no query or key

vars == <<mask, split, atomic, launch, ran, plan, it, sums, lseBwd, bounds, dqAcc, kvAcc,
          dq, dkv, spoilt>>
call == <<mask, split, atomic>>
prepared == <<plan, lseBwd, bounds>>

Ceil(a, b) == (a + b - 1) \div b
UnitsPerCube == RowsPerCube * Chunks

Heads == 0 .. Group - 1
Queries == 0 .. mask.tq - 1
Keys == 0 .. mask.tk - 1
HeadRows == Heads \X Queries
\* Rows of the dQ accumulator: the queries rounded up to whole blocks.
QBlocks == Ceil(mask.tq, Block)
AccRows == Heads \X (0 .. QBlocks * Block - 1)
KeyChunks == Keys \X (0 .. Chunks - 1)

Once(b) == IF b THEN 1 ELSE 0
NoKeySum == [c \in Keys |-> 0]
NoRowSum == [hi \in HeadRows |-> 0]
Added(a, b) == IF a = Junk THEN Junk ELSE [x \in DOMAIN a |-> a[x] + b[x]]

-----------------------------------------------------------------------------
(* How the work is cut. *)

Rows == mask.tq * Group
ZeroRows == IF atomic THEN QBlocks * Block * Group ELSE 0
KvChunks == IF split THEN mask.tk * Chunks ELSE 0
DqTiles == IF atomic THEN QBlocks * Group ELSE 0

\* Mutant: cubes enough for the rows, the split accumulators forgotten.
DeltaCubesRows == 0 .. Ceil(Greatest(Rows, ZeroRows), RowsPerCube) - 1

DeltaCubes ==
  0 .. Greatest(Ceil(Greatest(Rows, ZeroRows), RowsPerCube), Ceil(KvChunks, UnitsPerCube)) - 1
DqCubes == (0 .. Ceil(mask.tq, DqBlock) - 1) \X Heads
ProductCubes == (0 .. Ceil(mask.tk, Block) - 1) \X (IF split THEN {0, 1} ELSE {0})
FinishCubes == 0 .. DqTiles + Ceil(KvChunks, UnitsPerCube) - 1

CubesOf(kernel) ==
  CASE kernel = "delta" -> DeltaCubes
    [] kernel = "dq" -> DqCubes
    [] kernel = "products" -> ProductCubes
    [] kernel = "finish" -> FinishCubes

\* Mutant: only dQ's accumulator is thought of.
FinishNeededForDq == DqTiles > 0
FinishNeeded == DqTiles + KvChunks > 0

\* dq_tile: the row of the accumulator that row i of head h is.
AccRow(h, i) == ((i \div Block) * Group + h) * Block + (i % Block)

K0(c) == c[1] * Block

\* A key block's sweep: the first step of every head and how many, and the turns
\* this cube takes of all the heads' steps.
Plan(c) ==
  LET r == QueryRange(mask, K0(c), Least(K0(c) + Block, mask.tk))
      perHead == IF r[2] > r[1] THEN Ceil(r[2], Block) - r[1] \div Block ELSE 0
      mid == (Group * perHead + 1) \div 2
  IN [first |-> r[1] \div Block, perHead |-> perHead,
      it0 |-> IF split /\ c[2] = 1 THEN mid ELSE 0,
      it1 |-> IF split /\ c[2] = 0 THEN mid ELSE Group * perHead]

HeadAt(p, i) == i \div p.perHead

\* Mutant: the turn runs off the head's steps.
QueryAtUnwrapped(p, block, i) ==
  (p.first + (i % p.perHead) + (block % p.perHead)) * Block

\* A head's steps start `block` turns in and wrap around.
QueryAt(p, block, i) ==
  (p.first + (((i % p.perHead) + (block % p.perHead)) % p.perHead)) * Block

-----------------------------------------------------------------------------

Init ==
  /\ mask \in Masks
  /\ split \in BOOLEAN
  /\ atomic \in BOOLEAN
  /\ launch = "delta"
  /\ ran = {}
  /\ plan = [c \in ProductCubes |-> Plan(c)]
  /\ it = [c \in ProductCubes |-> plan[c].it0]
  /\ sums = [c \in ProductCubes |-> [k \in Keys |-> NoRowSum]]
  /\ lseBwd = [hi \in HeadRows |-> "junk"]
  /\ bounds = [i \in Queries |-> <<0, 0>>]
  /\ dqAcc = [hi \in AccRows |-> Junk]
  /\ kvAcc = [kc \in KeyChunks |-> Junk]
  /\ dq = [hi \in HeadRows |-> Pending]
  /\ dkv = [kc \in KeyChunks |-> Pending]
  /\ spoilt = FALSE

Starts(kernel, c) == launch = kernel /\ c \in CubesOf(kernel) \ ran
Ended(c) == ran' = ran \cup {c} /\ UNCHANGED launch

\* Every cube of the kernel has ended: the next one's may start.
EndLaunch ==
  /\ launch # "returned"
  /\ ran = CubesOf(launch)
  /\ ran' = {}
  /\ launch' = CASE launch = "delta" -> IF atomic THEN "products" ELSE "dq"
                 [] launch = "dq" -> "products"
                 [] launch = "products" -> IF FinishNeeded THEN "finish" ELSE "returned"
                 [] launch = "finish" -> "returned"
  /\ UNCHANGED <<call, it, sums, prepared, dqAcc, kvAcc, dq, dkv, spoilt>>

\* The forward's log-sum-exp is -inf where the query sees no key; exp(s - lse)
\* there must come to 0.
LseBwd(i) == IF Sees(mask, i) = {} THEN "+inf" ELSE "finite"

\* One cube of delta_kernel: its rows and its units, each numbering another
\* thing.
Delta(x) ==
  LET rows == x * RowsPerCube .. (x + 1) * RowsPerCube - 1
      units == x * UnitsPerCube .. (x + 1) * UnitsPerCube - 1
      Row(hi) == hi[2] * Group + hi[1]
  IN /\ Starts("delta", x)
     /\ dqAcc' = [hi \in AccRows |->
                    IF AccRow(hi[1], hi[2]) \in rows /\ AccRow(hi[1], hi[2]) < ZeroRows
                    THEN NoKeySum ELSE dqAcc[hi]]
     /\ kvAcc' = [kc \in KeyChunks |->
                    IF kc[1] * Chunks + kc[2] \in units /\ kc[1] * Chunks + kc[2] < KvChunks
                    THEN NoRowSum ELSE kvAcc[kc]]
     /\ lseBwd' = [hi \in HeadRows |-> IF Row(hi) \in rows THEN LseBwd(hi[2]) ELSE lseBwd[hi]]
     /\ bounds' = [i \in Queries |-> IF Packed(mask) /\ Row(<<0, i>>) \in rows
                                     THEN RowBounds(mask, i) ELSE bounds[i]]
     /\ Ended(x)
     /\ UNCHANGED <<call, plan, it, sums, dq, dkv, spoilt>>

\* exp(s - lse) is a number, 0 at least where s is -inf.
NaNAt(hi) == lseBwd[hi] \notin {"finite", "+inf"}

\* The times dq_kernel's cube at query q0, its rows' intervals b, adds key c to
\* row i: once for each half of a tile it sweeps that holds the key and does not
\* hide it.
DqTimes(q0, b, i, c) ==
  LET half == DqTile \div 2
      s == Tiles(SpanLo(mask, b), SpanHi(mask, b), DqTile)
      row0 == i - ((i - q0) % DqRows)
      Shown(start) ==
        /\ start <= c /\ c < start + half
        /\ Padded(mask) \/ TileMasked(mask, row0, DqRows, start, half, b) =>
             b[i][1] <= c /\ c < b[i][2] /\ c \notin mask.pad
  IN Cardinality({jh \in (0 .. s[2] - 1) \X {0, 1} :
                    Shown((s[1] + jh[1]) * DqTile + jh[2] * half)})

\* One cube of dq_kernel (its warps share tiles as the forward's do).
Dq(x) ==
  LET q0 == (Ceil(mask.tq, DqBlock) - 1 - x[1]) * DqBlock
      rows == {i \in q0 .. q0 + DqBlock - 1 : i < mask.tq}
  IN /\ Starts("dq", x)
     /\ \E b \in {[r \in q0 .. q0 + DqBlock - 1 |-> RowBounds(mask, r)]} :
          dq' = [hi \in HeadRows |->
                   IF hi[1] = x[2] /\ hi[2] \in rows
                   THEN [c \in Keys |-> DqTimes(q0, b, hi[2], c)] ELSE dq[hi]]
     /\ spoilt' = (spoilt \/ \E i \in rows : NaNAt(<<x[2], i>>))
     /\ Ended(x)
     /\ UNCHANGED <<call, it, sums, prepared, dqAcc, kvAcc, dkv>>

\* The interval a step of the products has for a row.
StepBounds(i) ==
  IF ~Packed(mask) THEN AlignedBounds(mask, i)
  ELSE IF i < mask.tq THEN bounds[i] ELSE NoKeys(mask)

StepShows(q0, k0, i, c) ==
  LET first == IF Packed(mask) THEN StepBounds(q0) ELSE NoKeys(mask)
      last == IF Packed(mask) THEN StepBounds(q0 + Block - 1) ELSE NoKeys(mask)
  IN Padded(mask) \/ StepMasked(mask, q0, k0, Block, first, last) =>
       StepBounds(i)[1] <= c /\ c < StepBounds(i)[2] /\ c \notin mask.pad

\* One step of a products cube: one block of queries of one head.
Step(c) ==
  LET h == HeadAt(plan[c], it[c])
      q0 == QueryAt(plan[c], c[1], it[c])
      rows == q0 .. q0 + Block - 1
      cols == K0(c) .. K0(c) + Block - 1
  IN /\ Starts("products", c)
     /\ it[c] < plan[c].it1
     /\ it' = [it EXCEPT ![c] = it[c] + 1]
     /\ \E shown \in {{ik \in rows \X cols : StepShows(q0, K0(c), ik[1], ik[2])}} :
          /\ sums' = [sums EXCEPT ![c] = [k \in Keys |-> [hi \in HeadRows |->
                        sums[c][k][hi] + Once(hi[1] = h /\ <<hi[2], k>> \in shown)]]]
          /\ IF atomic
             THEN dqAcc' = [hi \in AccRows |->
                    IF hi[1] = h /\ hi[2] \in rows
                    THEN Added(dqAcc[hi], [k \in Keys |-> Once(<<hi[2], k>> \in shown)])
                    ELSE dqAcc[hi]]
             ELSE UNCHANGED dqAcc
          /\ spoilt' = (\/ spoilt
                        \/ ~(shown \subseteq Queries \X Keys)
                        \/ \E i \in rows \cap Queries : NaNAt(<<h, i>>))
     /\ UNCHANGED <<call, launch, ran, prepared, kvAcc, dq, dkv>>

InBlock(kc, c) == K0(c) <= kc[1] /\ kc[1] < K0(c) + Block

\* Mutant: a cube of a split block writes the gradient itself.
FlushUnsplit(c) ==
  /\ Starts("products", c)
  /\ it[c] >= plan[c].it1
  /\ dkv' = [kc \in KeyChunks |-> IF InBlock(kc, c) THEN sums[c][kc[1]] ELSE dkv[kc]]
  /\ Ended(c)
  /\ UNCHANGED <<call, it, sums, prepared, dqAcc, kvAcc, dq, spoilt>>

\* The end of the sweep: the sums are written, or split added to the accumulators.
Flush(c) ==
  /\ Starts("products", c)
  /\ it[c] >= plan[c].it1
  /\ IF split
     THEN /\ kvAcc' = [kc \in KeyChunks |->
                         IF plan[c].it1 > plan[c].it0 /\ InBlock(kc, c)
                         THEN Added(kvAcc[kc], sums[c][kc[1]]) ELSE kvAcc[kc]]
          /\ UNCHANGED dkv
     ELSE /\ dkv' = [kc \in KeyChunks |-> IF InBlock(kc, c) THEN sums[c][kc[1]] ELSE dkv[kc]]
          /\ UNCHANGED kvAcc
  /\ Ended(c)
  /\ UNCHANGED <<call, it, sums, prepared, dqAcc, dq, spoilt>>

\* One cube of finish_kernel: a tile of dQ, or a run of chunks of dK and dV.
Finish(x) ==
  LET block == x % QBlocks
      h == (x \div QBlocks) % Group
      units == (x - DqTiles) * UnitsPerCube .. (x - DqTiles + 1) * UnitsPerCube - 1
  IN /\ Starts("finish", x)
     /\ IF x < DqTiles
        THEN /\ dq' = [hi \in HeadRows |-> IF hi[1] = h /\ hi[2] \div Block = block
                                           THEN dqAcc[hi] ELSE dq[hi]]
             /\ UNCHANGED dkv
        ELSE /\ dkv' = [kc \in KeyChunks |-> IF kc[1] * Chunks + kc[2] \in units
                                             THEN kvAcc[kc] ELSE dkv[kc]]
             /\ UNCHANGED dq
     /\ Ended(x)
     /\ UNCHANGED <<call, it, sums, prepared, dqAcc, kvAcc, spoilt>>

Next ==
  \/ EndLaunch
  \/ \E x \in DeltaCubes : Delta(x)
  \/ \E x \in DqCubes : Dq(x)
  \/ \E c \in ProductCubes : Step(c) \/ Flush(c)
  \/ \E x \in FinishCubes : Finish(x)

Spec == Init /\ [][Next]_vars /\ WF_vars(Next)

-----------------------------------------------------------------------------

RowSum == [HeadRows -> Nat]
KeySum == [Keys -> Nat]

\* Each variable has its values: above all, no log-sum-exp the other kernels read
\* is -inf.
TypeOK ==
  /\ mask \in Masks /\ split \in BOOLEAN /\ atomic \in BOOLEAN
  /\ launch \in {"delta", "dq", "products", "finish", "returned"}
  /\ launch # "returned" => ran \subseteq CubesOf(launch)
  /\ plan \in [ProductCubes -> [first : Nat, perHead : Nat, it0 : Nat, it1 : Nat]]
  /\ it \in [ProductCubes -> Nat]
  /\ sums \in [ProductCubes -> [Keys -> RowSum]]
  /\ lseBwd \in [HeadRows -> {"finite", "+inf", "junk"}]
  /\ bounds \in [Queries -> Int \X Int]
  /\ dqAcc \in [AccRows -> KeySum \cup {Junk}]
  /\ kvAcc \in [KeyChunks -> RowSum \cup {Junk}]
  /\ dq \in [HeadRows -> KeySum \cup {Junk, Pending}]
  /\ dkv \in [KeyChunks -> RowSum \cup {Junk, Pending}]
  /\ spoilt \in BOOLEAN

\* What the gradients of the call are: each query's over the keys it sees, each
\* key's over the queries of every head that see it, every product once.
DqOf(hi) == [c \in Keys |-> Once(c \in Sees(mask, hi[2]))]
DkvOf(kc) == [hi \in HeadRows |-> Once(kc[1] \in Sees(mask, hi[2]))]

\* Nothing is missing from the gradients the call returns and nothing is in them
\* twice, however its cubes interleave, split or not, atomic or not; every
\* gradient is written.  On the way no product is a NaN (a query that sees
\* nothing shares its step with queries that do) and none is taken of a row past
\* the queries or the keys.
GradientsExact ==
  /\ ~spoilt
  /\ launch = "returned" =>
       /\ \A hi \in HeadRows : dq[hi] = DqOf(hi)
       /\ \A kc \in KeyChunks : dkv[kc] = DkvOf(kc)

\* Whatever is added to or rounded from was zeroed first.
ZeroedFirst ==
  launch \in {"products", "finish"} =>
    /\ atomic => \A hi \in AccRows : dqAcc[hi] # Junk
    /\ split => \A kc \in KeyChunks : kvAcc[kc] # Junk

\* A gradient written is final: no two cubes write the same one.
WrittenOnce ==
  [][/\ \A hi \in HeadRows : dq[hi] # Pending => dq'[hi] = dq[hi]
     /\ \A kc \in KeyChunks : dkv[kc] # Pending => dkv'[kc] = dkv[kc]]_vars

\* The call returns with its gradients written.
Completes ==
  <>(/\ launch = "returned"
     /\ \A hi \in HeadRows : dq[hi] # Pending
     /\ \A kc \in KeyChunks : dkv[kc] # Pending)
==============================================================================
