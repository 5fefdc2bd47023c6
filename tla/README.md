# Dashmag in TLA+

Specifications of Dashmag's own logic, the model checking that examines small
instances of them, and theorems that hold for every instance. Paths are those of
the repository; `gated_delta/`, `conv1d/`, `attention/`, `logprob/`, `lowrank/` and
`sample/` are directories of `crates/dash-ops/src/`, and `train.rs`, `cache.rs`,
`data.rs`, `calibrate.rs` and `schedule.rs` files of `crates/dash-train/src/`.

## 1. Inventory

| Part | State it keeps | Operations | Interacts with | What is hard | What makes it right |
|---|---|---|---|---|---|
| Attention masks (`attention/reference.rs`, `kernels.rs`, `cube.rs`) | none: a mask is an argument | a row's interval of keys, a key block's range of queries, tests for unmasked tiles and steps | read by every attention kernel | binary search over packed offsets; windows that reach past everything; offsets nobody checked | the interval is the reference's set; no read outside the arrays; no sum wraps |
| Attention forward (`forward_kernel`) | shared tiles of K, V and padding; registers: next tile, maximum, sum, output | load, score, accumulate, store, write | warps, through shared memory and a barrier | one warp ahead of another; a tile that hides everything; ragged ends | each visible key summed once; no warp left at a barrier |
| Attention backward (`delta`, `dq`, `products`, `finish`) | device-memory accumulators, log-sum-exps, intervals | four kinds of launch | cubes, through atomics; launches, through memory | accumulators that start as junk; cubes in any order; two ways to divide the work | every query-key product once in each gradient; all gradients written |
| Attention decoding (`decode_split_kernel`, `decode_merge_kernel`) | a maximum, sum and output per split | split, merge | two launches | splits counted back from the last key of a short sequence; splits with no key; windows | each key within the window weighed once |
| Causal conv1d (`conv1d.rs`, `conv1d/`) | a window of inputs per run; partial sums | forward, backward, reduce, step | two autodiff nodes hand gradients to a third | a sequence that starts inside a run, is empty or shorter than the window; initial and final states | convolution of each sequence's own history, and its derivatives |
| Gated delta rule (`gated_delta/`) | the plan of chunks; a state per chunk; T, W, U | plan, prep, state walk, output, backward parts, decoding step | launches, through memory; two paths (f32, tensor cores); the backward through what was kept | packed boundaries read on the device; a chunk cut short; states in order both ways; states written in place | the recurrence token by token, and its derivatives |
| Log-probabilities, losses (`logprob/`, `loss.rs`) | an online log-sum-exp per row; accumulated gradients | first and second pass, weight's gradient | autodiff nodes | chunks masked whole; a maximum that moves; targets ignored or masked; which pass gives a gradient | log-softmax of all unmasked logits at once |
| Low-rank product (`lowrank/`) | partial sums per run | down, gather, sum, up | the base's node hands its gradient to the product's | runs and tiles cut short; gradients not wanted | the product and its derivatives |
| Sampling (`sample/`) | candidates in shared memory; histograms | statistics, gather, sort, scan, radix selection, draw | units of a cube | which way a row goes when candidates do not fit; ties at a cut | the definition's token and log-probabilities |
| Checkpointing (`checkpoint.rs` of `dash-ops` and `dash-mlx`) | saved inputs, gradients so far; a layer's arrays | forward, backward | the autodiff graph | shared parameters; an operation with two outputs; a layer failing midway | gradients of the plain graph; no layer but a failing one left with other arrays |
| MLX operations (`dash-mlx`) | blocks' running sums; runs' windows; a scan's states | blocked passes, pieces, splits; inverse, scan, step | MLX's own VJP | blocks of queries cut down to those that see; pieces of a packed call; a scan's backward in place of MLX's | the same definitions |
| MLX bridge (`dash-mlx/src/mlx`) | thread-local last error and closure failure; payload cells | calls, closures MLX calls back | mlx-c | nested calls, panics across C | a failure reaches its own caller |
| Training run (`train.rs`, `schedule.rs`) | channel, step, epoch, best; three kinds of file | a producer thread and the epoch loop | frame cache; the directory of an earlier run | full channel, early stop, errors, panic, kill, rerun | same batches for a seed; best epoch kept; it returns |
| Frame cache (`cache.rs`, `data.rs`) | `.npy` and `.jsonl` of each split; a shared counter | build, open | worker threads; the disk | claims racing; a failing worker; rebuild over an old cache | each frame decoded once; rows only after all frames |
| Calibration (`calibrate.rs`) | a directory's weights and description | choose a shift and fold it in | the training run's output | two files, written one after the other, over whatever is there | a model is shifted as its description says |
| Inference seam (`dash-core`), runtimes | registered backends | select, explain, run | vendor tools | refusing when nothing fits | the best admissible runtime |
| LoRA, PEFT, gateway, models, images, command line | adapters by name; none | forward calls, formats | — | a walk through a thread-local | files round-trip |

`PROJECT.json` lists every part with the source files and whether it is modelled,
and under `hazards` each place where something can go wrong that a test would
hardly reach, with the properties that would show it.

## 2. Modules

    AttentionMask            which keys a query sees; the operators of the kernels
      RowBoundsSearch        the binary search, step by step
        MCRowBoundsSearch      instance
        Units_proofs           (its first half; and AttentionMask_proofs)
      AttentionResult        abstract: what the forward promises
      AttentionForward       one cube of the forward; implements AttentionResult
        MCAttentionForward     instance
        AttentionForward_proofs
      AttentionBackward      the launches of one backward pass
        MCAttentionBackward    instance
        AttentionBackward_proofs

    Residues                 the numbers of the modules below
    GatedDelta               the gated delta rule's kernels in f32, and the plan
      DeltaRule                the recurrence, and the decoding step
        DeltaReference           both as tensor operations
        GatedDeltaTc             the kernels on tensor cores
          DeltaCalls               a call's launches, and what they should leave
            DeltaMlx                 the same on MLX
    Conv1d                   the convolution's kernels
      Conv1dCalls              a call's launches, the reference, what they should leave
        Conv1dMlx                the same on MLX
    Logprob, LogprobCalls    log-probabilities and losses, likewise
      LogprobMlx               the same on MLX
    Sample, SampleCalls      sampling, likewise, on MLX too
    LowRank                  the low-rank product, likewise, on MLX too
    AttentionDecode          decoding, likewise
      AttentionMlx             blocked attention and decoding on MLX
    Operations               runs the launches of a call of any of these
      Operations_proofs        of the plan of packed sequences
      Device                   or the units of one cube, by
        CubeMemory               the shared memory of every kernel that has one
          Units_proofs             (its second half)
          MCDevice                 instance

    Autodiff                 what the operations record on Burn's tape
      Checkpoint             a training step, plain and checkpointed, on Burn and on MLX
        MCCheckpoint           instance
        Checkpoint_proofs

    TrainRun                 one training command, and it again
      Commands               composes it with
        CacheBuild             one cache command, and it again
        Calibrate              calibration commands over directories
        Commands_proofs
    MlxClosures              MLX calls that run Rust functions that call MLX
      MlxClosures_proofs

Seven state machines state a type invariant, `TypeOK`. It is proved of `RowBoundsSearch`, `AttentionForward`,
`AttentionBackward`, `TrainRun` and `MlxClosures`; of `CacheBuild`, `Calibrate` and
`CubeMemory` the proofs use types of their own. `Operations` and `Checkpoint`, whose memory has no type but
what it should hold, state what their calls are assumed to be. A definition marked "Mutant" is a
plausible slip in the definition beside it; `PROJECT.json` says which property it breaks.

### 2.1 Attention

**AttentionMask.** A call is a record `mask`: lengths `tq` and `tk`, window
reaches `left` and `right` (causal is `right = 0`, a large value is no bound), kind, padded
keys, and the offsets of packed queries and keys. `Sees` is `reference.rs`'s `hidden()`,
read as a set; everything else is the kernels' own arithmetic (`row_bounds`,
`query_range`, `tile_masked`, `step_masked`, `block_bounds`), on which the other attention
modules stand.

**RowBoundsSearch.** `sequence_of`'s loop, one action per probe (`Probe`), and
`row_bounds`'s answer (`Found`, or `Unsearched` where nothing is packed). `lo` and
`hi` are the loop's. The calls include offsets that break the contract, since the
kernels are launched on whatever the device memory holds.

**AttentionForward.** `pc[w]` is where warp `w` is between the barriers, `waiting` the
warps at one; `Release` opens it. Tiles (`kTile`, `vTile`, `pTile`) are stored slot by
slot, each warp its share, as `store_rows` does. A slot holds the number of its key,
`Zero` past the limit or `Junk` before anything was stored; `probs` remembers
which key a probability was computed from, and `acc` counts how often each key was
summed, so that a value met with another key's probability shows. `top` says whether the
running maximum is finite, all the rescaling can tell. **AttentionResult** is the promise
without tiles or warps, and `Implements` the refinement (`out` of the block's
queries).

**AttentionBackward.** `launch` is the kernel running, `ran` its cubes that ended;
cubes end in any order and the products' cubes interleave step by step. An
accumulator is `Junk` until zeroed; sums are counts per (key, query) pair. `Dq` counts
how often a swept half tile shows a key to a row. Inside a cube the warps share tiles as the
forward's do, which is not modelled a second time.

### 2.2 Operations on a device

**Numbers.** What these kernels compute is arithmetic, and where they go wrong is in which numbers
meet. **Residues** keeps the arithmetic and drops the rounding: a float is a residue of a
prime, sums, products and quotients are the field's, and `exp` is a power of two of a small integer. A gate, a
decay or a score, whose exponential alone enters, is given by it. Two formulas equal over the reals are equal
here for every input, and formulas that differ agree at the fixed, scattered inputs the calls use only
by accident. A gradient is the derivative of a definition over dual numbers. Where the code compares
numbers (a running maximum, a cut) they are small integers, and where the comparison of sums matters
(top-p) weights are powers of two, so that sums are exact.

**Memory** is a record of tensors, each a function from indices to values; what nobody
wrote is `Garbage`, which no formula accepts as a number, so a kernel that reads what no launch wrote
fails the run. A kernel is an operator from memory and a cube's number to memory. `Stream(c)` is the list of
launches of a call, `Cubes` the cubes of one, `Effect` what one does, `Allocated` the memory it
starts from. **Operations** runs them: `RunCube` the next cube, `NextLaunch` the next launch of the
stream. A call is on the kernels' path or, where the device does not take them (`device`), on the
reference's, whose tensor operations are then its launches; both are held to the same definition.

| Module | What is translated | What it is held to |
|---|---|---|
| `GatedDelta` | the plan's scan over groups of sequences; prep (A, T by blocks, W, U), decay, state walk, output; backward state walk, parts of each gradient, their sum | `DeltaRule`: `Token`, one token at a time, over dual numbers |
| `GatedDeltaTc` | the tensor cores' fewer launches: the decay folded into V' and dV', T kept or formed again, gradients in two kernels | the same |
| `DeltaReference` | the chunked rule as tensor operations: the inverse by forward substitution, the states through the chunks, the written-out backward, padding; the step's reference | the same |
| `DeltaMlx` | the inverse of a chunk by substitution or by doubling; the scan over slices of a state, kept for its own backward; MLX's derivatives of the rest; the step's sums over simdgroups | the same |
| `DeltaRule` | also the decoding kernel, which may write a state where it read it | the same |
| `Conv1d`, `Conv1dCalls` | runs of `TILE` steps with a window, refilled where a sequence starts; the backward window's sequence tags; partial sums and their reduction; the step; the reference | each sequence's padded history |
| `Conv1dMlx` | the Metal kernels, and a packed call cut into pieces | the same |
| `Logprob`, `LogprobCalls` | chunks of the vocabulary by row count, blocks of rows, masked ids, the online log-sum-exp, entropy, the accumulated or second-pass gradient, the weight's | log-softmax over all unmasked ids |
| `LogprobMlx` | a row's state from its threads', lanes' and simdgroups' parts, or by operations; no gradient in the first walk, a second one from the kept maximum and sum; the loss's gradient chunk by chunk and block by block | the same |
| `Sample`, `SampleCalls` | statistics, the bound, gather within a capacity, bands, sort, scan, radix selection, Gumbel pass; on MLX the noise of all rows in one array, four tokens a thread, and the cut from the sorted row by a tree of sums | sort the row, cut, draw the best score |
| `LowRank` | lanes, tiles and runs of the four kernels and their sums; on MLX the product with V added to the base, a thread an element, and the backward written out | matrix products |
| `AttentionDecode` | splits, slots, both merges | softmax over the keys in the window |
| `AttentionMlx` | blocks of queries over the blocks of keys some see, and backward the other way; packed pieces; decoding in simdgroups | softmax over what each query sees |

A convolution's channel stands for all, for threads share nothing across channels, and so does a column
of the values in attention. Philox and the Gumbel transform are given numbers per token.

**CubeMemory.** The other scale: inside one cube, the units between barriers. A kernel is a program
of its barriers and of its accesses of shared buffers in program order (`Put`, `Get`, a column's
share), for each of the kernels that share memory, those of `gated_delta/chunk/cube/wide.rs`,
the decoding step's state in place and MLX's substitution, scan and step among them. A slot holds which put wrote it last, and `ReadsExact`
says a unit that reads finds the put that the text of the kernel has last before it. **Device** is either scale:
a cube whose reads are exact computes what `Effect` says, which is what lets `RunCube` be one step.

**Autodiff** and **Checkpoint.** A gradient is the bag of the ways (calls and inputs) by which the loss depends
on a value. `Record` makes a call's nodes as each operation does: the convolution's two outputs and
the low-rank product's base are separate nodes that leave gradients in a cell (`cells`) for a third;
`Run` runs any node of the highest level left, as Burn does. `Checkpoint`'s `way` is `plain`, `burn`
(`ForwardLayer`, `HeadPass`, `LayerPass`, `LastPass`: `checkpoint.rs` of `dash-ops`) or `mlx`
(`MlxForward` to `MlxEnd`: that of `dash-mlx`, where `held` are the layers that hold the transform's arrays). `MlxFail` is a layer that
fails under the transform and keeps them, `MlxEvalFails` an evaluation that fails once the layer has its own again.
Burn's order and MLX's VJP are external.

### 2.3 Commands and the bridge

**TrainRun.** `recipe` is what a run was given, `--epochs` and `--max-steps`, either of which may be 0.
A score may be no number (`NaN`), as where the validation split has no frame with a label: no comparison puts it first. `producer` and `consumer` are the two threads' places, `queue` and
`open` the `sync_channel(2)`. Every fallible operation of the loop can fail (`Fails`),
a batch can be an error, the producer can panic, the process can be killed; both of the last
two leave a file being written as it was, torn or truncated (`Cut`). A file holds the run
and epoch it was written by. `Pct` is the place of a step in `OneCycle::at`, in exact fractions.

**CacheBuild.** The command's place, the frames of the `.npy` (`Blank` or the build and
number of the frame), the rows of the `.jsonl`, the counter `next` and the workers. `Opens` is
what `Split::open` accepts, a split with no frames among it. `RowsAfterFrames` does not say that what opens was decoded:
a rebuild that fails leaves blank frames beside the rows of the build before, which open if they are as many
(`OpenedIsDecoded`, the finding `cache_stale`); it says that this is one split at most, the one the build was at, and that
any other's frames are those its rows are of.

**Calibrate.** A directory's weights are the sequence of shifts folded into them; its
description says which one was. Training keeps a model in any directory (`Train`: the top of a run and its `epochs/NN` are such),
a calibration goes from any directory to any, over whatever lies there and in place too, and both can stop
anywhere. `spoiled` remembers where a write was cut between the two files, over the description of other weights, and what
was calibrated out of there: `DescribedUnlessCut` is of every other directory, and `ShiftedOnce`, which is of all,
is the finding `calibrate_cut`.

**Commands** is `main.rs`: the process runs one of the three, the others' state waits.

**MlxClosures.** `stack` alternates calls of mlx-c and bodies of the functions they run; where it
is empty the program runs. `lastError` and `failure` are the two thread-locals, with a number
in place of a message; `borrowed` the payload cells borrowed. `given` is what `check` made of the
newest call and `met` what that call really met, kept beside it to compare. MLX calls any
function at any time, and fails on its own. A payload is freed anywhere but while it runs. A message
nobody reads is never left between a call and its check: the one call made there
(`custom_vjp` frees a handle) is taken not to fail, and destructors to make no checked call.

## 3. Runs

| Run | Module | Shows | Bounds |
|---|---|---|---|
| `bounds` | MCRowBoundsSearch | the search ends, on the row's sequence; interval = reference; ranges, unmasked tiles and widths | up to 4 queries and keys, reaches 0, 1 and unbounded, up to 3 sequences, offsets in -2, 1, 5 where the contract is broken |
| `forward` | MCAttentionForward | barrier, tiles, rows, `AttentionResult` | 2 warps of 2 rows, tiles of 2 keys, up to 6 queries, 5 keys |
| `backward` | MCAttentionBackward | zeroing, exact gradients, no NaN, written once, completion | 2 heads, up to 4 queries and keys, both divisions, both kinds of dQ |
| `device` | MCDevice | every operation of section 2.2 leaves its definition's outputs and gradients; the plan stays inside and has each token once; every cube's reads are exact | chunks of 6 in blocks of 2, groups of 2 sequences, 2 heads of width 2, taps 3 in runs of 4, vocabularies of 6 to 16, ranks 1 to 3, 5 to 7 keys; on MLX chunks of 4, heads of 3 by 2 in slices of 1, 2 simdgroups; cubes of 3 units; cubes of a launch forward and reversed |
| `checkpoint` | MCCheckpoint | gradients of the plain graph on both backends; nodes in an order that suits them; no step stuck | stacks of 1 to 3 layers of each kind of call, every choice of trainable parameters |
| `commands` | Commands | batches in order, best epoch kept, reports and files agree; frames decoded once, rows after them, an ok build whole; models shifted as described unless cut; commands return | 5 frames in batches of 2, 0 or 2 epochs, 0, 3 or 4 steps at most, scores of 0, 1 or none, 2 runs; 2 splits of 0, 2 or 3 frames, 2 workers, 2 builds; 3 directories, a grid of 2, 4 commands |
| `mlx_closures` | MlxClosures | a failure reaches its own caller, none waits, one borrow at a time | 3 functions, 6 frames, 6 failures |

The bounds let the interesting cases happen. In attention, three sequences give an empty one between
two others; five keys in tiles of two a first, an inner and a ragged last tile; six queries in blocks
of four a block half past the end; two key blocks of two heads a rotation and a split of an odd number of
steps. `HalfRange` plays the part of 2^31 and is small enough for an uncut reach (99) to leave it.

On the device, a chunk of three blocks has a T with an inner block; nine rows of four sequences
`0, 0, 8, 8, 9` an empty sequence, one of two chunks and two empty ones' neighbours, over two groups of the scan with a count
carried between them; `0, 7, 3, 12` and `0, 13, 0, 13` are boundaries nobody should give, for which only `PlanExact`
is asked, and of it only that the plan stays inside. Ten steps of eight sequences in runs of four put several starts in one run, an empty
sequence first, inside and last, and sequences shorter than the window. Two masked ids of six mask a chunk of two
whole, the first one too, where MLX's operations make a NaN. A capacity of 2 or 5 candidates for 16 tokens sends rows every way of the sampler, and the rows tie at
the cut. `fill` of 6 and 20 cuts the low-rank sums into runs, 1 does not. Lengths of 0, 3, 6, 7 and,
past the cache and below nothing, 9 and -2 leave splits empty.
Two orders of a launch's cubes suffice because between them every two cubes run in both orders: had two
a conflict, one order would show it. Three units make a leader, another that does row work and one that does not;
of a loop's rounds two are kept, for the third's place relative to the second is the second's to the first.

The stacks of `checkpoint` tie a first and a last unit's parameter, use a layer's parameters twice, in two layers, and where
no layer declares them; use both outputs of a two-output operation, either and its initial state's gradient or not.
Three steps of four stop a training run in the middle of an epoch with the channel full; two runs or builds
give every combination of old and new files; no epochs or no steps a run that keeps nothing over one that did;
four commands a model trained, cut short and calibrated on through a chain of directories, or trained over again; six frames of calls a call in a
function in a call in a function in a call in a function. The counters bounded by hand are `MaxRuns`,
`MaxBuilds`, `MaxCommands`, `MaxDepth` and `MaxFailures`.

Deadlock is looked for in `checkpoint`, where a step that has not ended must be able to go on. The other
systems stop when their call or command has returned, or at their bound; that they return is a liveness property of
their runs, or, on the device, of the shape of a stream, which is finite.

**Disagreements** (runs that TLC must find violated; see `findings`):

- `conv_malformed`: boundaries that end before the last step send the backward kernel's reads past a
  sequence's final-state gradient (`conv1d/cube.rs:736`), which a comment says clamping rules out (227-229).
- `train_rate`: a warm-up of exactly one step divides 0 by 0 at step 0 (`schedule.rs:67`).
- `train_metrics`: a report appended after a torn line (`train.rs:460`).
- `cache_stale`: a failed rebuild leaves undecoded frames that open (`data.rs:145`).
- `calibrate_cut`: interrupted over a model that is not calibrated, its own or another, a calibration leaves one that is
  shifted and does not say so; calibrated again, in place or out of it, it is shifted twice (`calibrate.rs:145`).

## 4. Fairness

`RowBoundsSearch`: the search is a loop in one thread, `WF(Next)`. `AttentionForward`:
weak fairness of each warp and of the barrier; a resident cube's warps are all
scheduled. `AttentionBackward`: `WF(Next)`; launched cubes run, in no given order.
`TrainRun` and `CacheBuild`, and through them `Commands`: weak fairness of each thread's own steps, as the
operating system schedules them; nothing need fail, be killed or be started. `Calibrate`, `Checkpoint`, `Device`
and `MlxClosures` state none: the first three have no loop of their own, and MLX may call a function for ever.

## 5. Proofs

The theorems are for every value of the constants within the assumptions named; each is of the form `Spec => []Inv`
or, where it says so, of a step. A module's own invariant is called `IInv`, or is named below.

### Attention

`AttentionMask_proofs` has what is true of the operators alone, for every mask: `RowBoundsIsReference` (interval
and reference agree), `RowsOnward` (intervals never move back), `RangeIsWide` (from the two, the range of
queries of a key block), `UnmaskedTile` and `UnmaskedStep` (the two tests are sound; the step's looks at the first and the last
row alone and rests on `RowsOnward`), and `TilesHoldRows` (the tiles a block of queries sweeps hold all its rows see).

The first half of `Units_proofs` proves every invariant of `RowBoundsSearch`, those of the run `bounds` among
them, for every set `Masks` of calls, whatever lengths, reaches, offsets and block size:

| Theorem | Invariant |
|---|---|
| `TypeCorrect` | `TypeOK` |
| `AlwaysInRange` | `InRange` |
| `SearchFinds` | `SearchSplits` |
| `BoundsImplementReference` | `BoundsAreReference` |
| `AlwaysFits` | `FitsWidth` |
| `IntervalsOnward` | `NeverMovesBack` |
| `RangesHoldRows` | `RangeHoldsRow` |
| `UnmaskedHidesNothing` | `UnmaskedSeesAll` |

None of them is inductive alone. The invariant is `TypeOK /\ Searching /\ Halves /\
BoundsOfRow`: what the search knows about its two ends while offsets may be anything
(`Searching`: the ends stay in order and every offset read is there), what it knows when they
keep the contract (`Halves`: all before `lo` are at or before the row, all from `hi`
past it), and that a result is the operator `RowBounds` of the row (`BoundsOfRow`). With
`BoundsOfRow` each of the others is a fact of `AttentionMask_proofs`.
The assumptions are the constants' types (`MasksAssumption`, `SizesAssumption`) and
`TakenAssumption`, that `kernels_take` (`attention/cube.rs:206`) bounds the lengths so that their sums fit.

`AttentionForward_proofs`, for any number of warps, rows of a warp, keys of a tile and calls:

| Theorem | Property |
|---|---|
| `TypeCorrect` | `TypeOK` |
| `BarriersMet` | `InStep` |
| `TilesStayWhole` | `TilesWhole` |
| `RowsAreExact` | `RowsExact` |
| `ImplementsResult` | the safety half of `Implements`: the cube starts where `AttentionResult` does and each step is its `Attend` or leaves the outputs |

`IInv` is `TypeOK /\ InStep` and, of each warp, `WarpInv`: where it may be (`Placed`), what intervals it found
(`BoundsFound`), that its share of the tile is in once it passed the store (`ShareIn`), and that its sums (`SumsKnown`) and
outputs (`OutputsKnown`) are the keys of the tiles before its own. `TilesWhole` is not inductive: that no
warp overwrites what another reads follows from where all warps are between two barriers, which `InStep` knows,
and from whose slots are whose. One lemma an action shows `WarpInv` of the warp that moved; `UntouchedKeeps` is for all others, at once.
`RowsExact` comes from `TilesHoldRows`. Assumed are types (`MasksAssumption`, `SizesAssumption`) and that the marks `Zero`, `Junk` and `Unseen` are no key (`MarksAssumption`).

`AttentionBackward_proofs`, for any heads, blocks, tiles and calls, split or not, atomic or not:

| Theorem | Property |
|---|---|
| `TypeCorrect` | `TypeOK` |
| `GradientsAreExact` | `GradientsExact` |
| `ZeroedBefore` | `ZeroedFirst` |
| `WrittenAtMostOnce` | `WrittenOnce`, of a step |

`GradientsExact` speaks of the end of a call, and nothing of it is true before. `IInv` says of every array what it is
in the middle: the log-sum-exps, intervals, accumulators, sums and gradients are each a function (`LseNow`, `BoundsNow`, `DqAccNow`,
`KvAccNow`, `SumsNow`, `DqNow`, `DkvNow`) of the launch, the cubes of it that ended and the turns each sweep has taken, and nothing is spoilt. That
there is such a function is the point: the order of the cubes leaves no trace, although they add to the same accumulators
in any order. The lemmas that carry it: a turn of a key, a query and a head is taken by one cube (`OneTaker`), every turn by
some cube (`SomeTurn`, `AllTaken`), delta's cubes reach every accumulator in use (`DeltaReaches`), every gradient has its
writer (`WritersExist`). Assumed are types, positive lengths, and that `Junk` is no sum (`JunkAssumption`).

### The training step

`Checkpoint_proofs`, for any stacks that are models (`IsModel`: calls take leaves and outputs of earlier calls, the units cut
the calls in order, of a unit only its output is used above it, what is computed before the stack is of one module, and a
weight `chosen_logprob` takes is frozen, as it asserts):

| Theorem | Invariant |
|---|---|
| `NodesAreReady` | `NodesReady` |
| `MlxEndsRight` | `MlxEndsWhole` |
| `SumsAreWhole` | `SumsArePlain` |

`NodesReady`: Burn runs any node of the highest level, and the gradients left in cells beside the tape (a low-rank product's,
a convolution's) are there because of levels alone. `ReadyInv` is `Stacked` (the stack is a model), `Placed`, `Holding`, and
`Left`: the nodes left hold everything reached below them, at lower levels, and each has its gradient or a consumer left that will give it one,
a low-rank product its base left or run. It rests on what the recursive functions compute: `LevelIs` (a node is above its parents) and `ReachedIs`
(what is reached is closed under parents), by induction over the calls. `EveryNatural` is that induction, stated for a set of
numbers and not a predicate, so that the provers can take an instance of it.

`MlxEndsWhole`: `CarriedInv` adds to `ReadyInv` that the gradient carried down is the whole gradient of the output of the layer at work,
and that each layer above has its part (`Carried`). A step keeps that by `ChainRule`: worked out from the
whole gradient of its output alone, a layer's gradients are those of the whole step. The rule is not assumed but derived from the definition of
`Gradient` as a sum over uses: the recursion has one solution (`GradientSteps`, `FlowsAgree`); what a layer computes is used in
it and, if it is its output, above it (`UnitUses`, `Crossing`); and a sum over uses splits by the last use of a way, since
ways through different uses are different (`AddedIs`, `PartsAre`, `PartsWithin`).

`SumsArePlain` is of Burn's tape, which sums in whatever order its nodes run, hands gradients over beside itself, and skips every node
the loss does not depend on. `PlainInv` says at every node run what is true of the middle: `Owes`, that a leaf and each node still to run hold the sum of
what goes through those of its uses whose taker has run or never will, the root the whole gradient, a packed output the halves given so far, a
token nothing; and that a cell holds the whole gradient of the output whose node left it, or the output's node is still to run, or nothing goes through it (`LeftFor`).
`SumOver` (a bag is what goes through a set of uses, and nothing else) makes this exact, and unique (`SumUnique`). The highest node left has no taker left, so it holds its whole gradient
(`HighestReady`); each of the seven kinds of node then gives each input what goes through its uses (`PlainNodeGives` to `PackedNodeGives`), which
is what the inputs were still owed (`RunOwes`). Two facts are not about one pass. What the pass does not reach is worth nothing (`DeadIs`): so a `burn` step that
stops early, since a layer's output is not recorded, has lost nothing (`NothingLeft`), and a layer let through with its own parameters frozen has no way to another's (`OthersUses`).
And what a pass leaves at its input is the whole gradient of the output below (`PassCollects`), from which the next one starts.

### Shared memory

The second half of `Units_proofs` proves `CubeSpec => []ReadsExact` (`ReadsAreExact`) of all 38 programs, for a cube of any units in rows of any length
(`CubeAssumption`: the units are numbers, and the first row is among them). `Device`'s steps, where a cube is at work, are `CubeSpec`'s. It has two halves.

That a kernel has the barriers it needs is a fact of its text (`Synced`): wherever one access reads a buffer and another puts it, a barrier stands
between, unless each unit of the first row reads a column of its own and puts back its own share; and what is read was put. `Leads` says what a
piece of a program needs and leaves: the buffers put so far, and those read and put since the last barrier. `Then` joins two pieces, `TwiceLeads`
takes a loop's round with what the round before left, and each kind of access has a rule (`PutLeads` to `WhenLeads`). Every
definition of `CubeMemory` then has its lemma, built from those of its pieces, up to `ProgramsSynced`.

That this is enough is a fact of the units, whatever the program: `IInv` says that no barrier lies between two units (`Together`) and
that each share is as the unit it is of left it (`OwnIsLatest`). A unit that reads another's share has a barrier between its
place and each put of that share, and so the other is on the same side of it (`NoPutBetween`): what that unit has put so far is what the text has put before the read.

### The plan of packed sequences

`Operations_proofs` proves `Spec => []PlanExact` (`PlanStays`) for any calls: any boundaries, any number of
sequences, any chunk, group and head sizes (`SizesAssumption`, `CallsAssumption`: sizes are positive, boundaries integers, a packed call has
one batch element and at least one sequence). `PlanExact` says that the plan stays inside its tensors (`PlanIsInside`), whatever
the boundaries, and, where they are in order from 0 to the last token, that each token is in exactly one chunk, which is one of its own
sequence (`PlanIsWhole`). `T`, the sums of the sequences' chunk counts (`Sums`), stands in every step:

- After each turn of a group's scan a lane holds the sum of a window of counts that ends at it, twice as wide as the
  turn before (`WindowsDouble`); when the step has passed GROUP the window starts at the first lane (`SumsOfScan`). With the carry from
  group to group (`BeforeGroup`), a sequence's first chunk is the sum of the counts before it (`FirstChunk`).
- So each chunk below the total is one sequence's alone (`ChunkOwned`, `EntryOfChunk`), it starts before that sequence ends (`ChunkWidth`),
  and the clamped boundaries keep the sequence in the tensor (`SequenceInside`); the offsets do not decrease because the
  sums do not (`SumsKnown`). This is `PlanStaysInside`.
- With boundaries in order nothing is clamped (`BoundariesOnward`), and there is room: the counts rounded up exceed the tokens' own
  by at most one for each cut (`RoundUpOfCuts`), which is what `max_chunks` adds (`ChunksFit`). A token's chunk is its place in its
  sequence by CHUNK (`ChunkOfToken`); two chunks of a sequence share none (`WholesApart`), nor do those of two sequences.
  This is `PlanStaysWhole`.
- None of the 24 other kernels and reference walks writes `plan` or `offsets` (`KernelsKeepPlan`); the buffers allocated
  between the passes hold none (`FreshHasNoPlan`); and the plan's kernel is launched for packed sequences only (`StreamLaunches`).

`PlanInv` is what every step keeps: the launch is one of the call's, and memory has no plan or one that is exact. Of `DeviceSpec`, the run's
specification, the steps of a call are `Spec`'s. The lemmas of numbers alone (rounding up, sums, the scan) are at the end of
`AttentionMask_proofs`, where the definitions of all the operations are not in the provers' way.

### The commands

`Commands_proofs`, first of the training run, for any number of frames, batches, epochs, steps, scores and runs:

| Theorem | Invariant |
|---|---|
| `TypeCorrect` | `TypeOK` |
| `SeedDecides` | `SeedFixesBatches` |
| `OkIsBest` | `OkKeepsBest` |
| `ReportedFirst` | `KeptIsReported` |
| `TopWasKept` | `TopIsKept` |

`IInv` says what the channel holds beside what was stepped on (`Channel`, `SeedFixesBatches`), how far the loop has counted (`Counted`), that
the best is the least reported so far (`Compared`), which files of which epochs are there at each place of the loop (`Whole`, `Stamped`), that the log is ahead of them
(`Logged`), and what an ended run leaves (`EndedWell`). The order in which one epoch writes its three files is what makes `KeptIsReported` hold through a kill at any place.
A run asked for no epochs or no steps, or whose scores are no numbers, is one of those `OkIsBest` is about: it leaves the top as it was.
Assumed are the types and at least one batch of frames (`RecipeAssumption`) and that a failed batch is no batch and a torn file a file (`MarksAssumption`).

And of the composition, for any splits, workers, sizes, builds, directories and grids:

| Theorem | Property |
|---|---|
| `FramesDecodedOnce` | `DecodedOnce` |
| `RowsFollowFrames` | `RowsAfterFrames` |
| `OkBuildIsWhole` | `OkIsWhole` |
| `ModelsAreDescribed` | `DescribedUnlessCut` |
| `TrainingHolds` | those of a training run, here |

`CacheInv` adds that no file is of a build to come (`Dated`), what the splits done with have (`Finished`), that each frame below the shared counter is in
a worker's hand or decoded (`Decoding`) and in one worker's at most (`OneEach`), what the array is before and after the workers (`LaidOut`), and that
rows of the array's own build stand beside it whole while of one build no two splits wait for theirs (`Followed`, `OneWaits`): without `Decoding` the join of the
threads would say nothing of the frames, and `OneWaits` is kept because a build only goes on from a split whose rows are written.
`ShiftInv` adds to `DescribedUnlessCut` what is in memory and in the directory written to at each place, and so what becomes of it where the command is cut
short there. No hypothesis is made about the directories: training and calibration go from and to any, and what is cut is
in `spoiled`. `CommandsAssumption` gives the other constants' types, and says that the marks of files that are not there are no files.

### The bridge

`MlxClosures_proofs` proves `TypeOK` and the three invariants of the run `mlx_closures` for any functions, depth
and number of failures: `TypeCorrect`, `FailuresReachTheirCaller` (`OwnFailure`),
`NothingLeftWaiting` (`NothingWaits`) and `BorrowedOnce` (`OneBorrow`). The invariant adds
`Formed`, the stack below its newest frame, and `Waiting`, what is in the two thread-locals at each
place of the newest call: nothing until something is thrown; then what was thrown, which is the
call's cause; and once the call failed either that or MLX's message, the newest there is. Without
`Waiting` a check could find another call's failure. Three lemmas about the sequence
(`Pushed`, `Befallen`, `Popped`) carry every action. The one assumption is that `NoFunction` is no
function.

### Only model-checked

- The invariants `...Exact` of `Operations`: what some thirty kernels compute, call by call, against sums, products and recurrences
  whose length is a parameter. What such a recursion computes at every length is induction over data. Several hold of the data of the calls alone:
  numbers are residues, and a softmax, a norm or a loss divides by a sum, which other data could make 0.
- Liveness, which needs `ENABLED`: `Ends`, `Completes`, `RunReturns`, `BuildReturns`, and the fairness half of `Implements`.
- `TypeOK` of `CacheBuild` and `Calibrate`, which no run checks: `CacheTyped` and `ShiftTyped` stand in for them.

## 6. Not modelled

- Rounding, number formats, and which of f32, bf16 or TF32 a path keeps its parts in; register fragments,
  swizzled layouts and asynchronous copies, as far as they move values without choosing them.
- Device requirements (`requirements`, `probe`): sums of shared-memory bytes and features. A call in a model is
  given which path it takes.
- Argument checks, which refuse a call before it has changed anything, and `layers_strategy`, which compares two settings.
- Philox and the Gumbel transform: a variate is a given number. PNG, `.npy` and `.safetensors` formats; a frame's decoding is one write.
- Burn's tape and MLX's VJP are external: `Checkpoint` takes their order of nodes and their sums from how the
  code relies on them. So is the order in which MLX evaluates a graph (`depends` in `dash-mlx`).
- Variants `dash-mlx` keeps for tests and measuring: the gated delta rule MLX differentiates throughout, and the other two
  sums for top-p. The variant of the log-probabilities without kernels, the reference the tests hold the kernels to, is modelled, with one thing met in it:
  the pass (`logprob.rs:555-607`) starts from a maximum of `f32::MIN` and gives masked logits that value too, so two or more masked ids
  before the first chunk that is not masked whole leave a sum of their count; the next chunk multiplies it by a difference near
  `f32::MIN`, which overflows, and by a scale of 0, and the row's entropy is not a number, nor are the gradients that use it (`Spoilt`).
  `LossExact` holds such a call's other results to the definition, and those to be what they are.
- The inference seam's registry, runtimes, the gateway: selection over a list, or a call handed on to a library or process.
  LoRA's walk over a module tree: one thread's traversal with a drop guard. PEFT's files, models, images, the command line: formats and arithmetic.
- Vendored CubeCL, its CUDA runtime and mlx-c: only what the code relies on is used (launches in order, barriers, a thread-local error).

## 7. Plan

Models: the registry's selection; the walk over adapters.
