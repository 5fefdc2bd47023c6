----------------------------- MODULE CacheBuild -----------------------------
(***************************************************************************)
(* The cache command (dash-train cache.rs, fn build) and what Split::open   *)
(* (data.rs) makes of the files it leaves.  For each split in turn it lays  *)
(* out <split>.npy at its full length, lets worker threads decode the       *)
(* frames, each claiming the next index from one atomic counter and writing *)
(* at its own offset, joins them all, and only then writes <split>.jsonl.   *)
(*                                                                         *)
(* The command may be given again into the same directory, each time with   *)
(* a training set that has changed: frame i of build b is <<b, i>>.         *)
(***************************************************************************)
EXTENDS Integers, Sequences

CONSTANTS Splits,     \* how many splits the set has
          Workers,    \* the worker threads
          Sizes,      \* how many frames a split may have
          MaxBuilds,  \* how often the command is given (a bound)
          None, Blank \* no file; a frame of zeros

\* What lies on disk of a split: the array, its header's count none until it is
\* written; the rows.
Arrays == [build : Nat, count : Nat \cup {None}, frames : Seq({Blank} \cup (Nat \X Nat))]
RowFiles == [build : Nat, count : Nat]

\* What Commands assumes of them.
SizesAssumption ==
  /\ Splits \in Nat \ {0} /\ MaxBuilds \in Nat \ {0}
  /\ Sizes \subseteq Nat
  /\ Workers # {}
  /\ None \notin Nat \cup Arrays \cup RowFiles

VARIABLES build, status, split, size,
          place,  \* the command's own thread: "lay", "header", "decode", "rows", "line"
          next,   \* the counter the workers share
          pc, at, \* a worker's place and the frame it claimed
          npy, jsonl

vars == <<build, status, split, size, place, next, pc, at, npy, jsonl>>
command == <<build, status, split, size, place>>
workers == <<pc, at>>

Whole(b, n) == [i \in 1 .. n |-> <<b, i>>]
Blanks(n) == [i \in 1 .. n |-> Blank]

Init ==
  /\ build = 0 /\ status = "idle" /\ split = 1 /\ size = 1 /\ place = "lay" /\ next = 1
  /\ pc = [w \in Workers |-> "done"] /\ at = [w \in Workers |-> 1]
  /\ npy = [s \in 1 .. Splits |-> None] /\ jsonl = [s \in 1 .. Splits |-> None]

Begin ==
  /\ status # "running" /\ build < MaxBuilds
  /\ build' = build + 1 /\ status' = "running"
  /\ split' = 1 /\ size' \in Sizes /\ place' = "lay"
  /\ next' = 1
  /\ pc' = [w \in Workers |-> "done"] /\ at' = [w \in Workers |-> 1]
  /\ UNCHANGED <<npy, jsonl>>

At(p) == status = "running" /\ place = p

\* File::create truncates what an earlier build left.
Lay ==
  /\ At("lay")
  /\ npy' = [npy EXCEPT ![split] = [build |-> build, count |-> None, frames |-> <<>>]]
  /\ place' = "header"
  /\ UNCHANGED <<build, status, split, size, next, workers, jsonl>>

\* The header and the full length; the workers start.
Header ==
  /\ At("header")
  /\ npy' = [npy EXCEPT ![split] = [build |-> build, count |-> size, frames |-> Blanks(size)]]
  /\ place' = "decode" /\ next' = 1
  /\ pc' = [w \in Workers |-> "claim"]
  /\ UNCHANGED <<build, status, split, size, at, jsonl>>

-----------------------------------------------------------------------------
(* The workers. *)

Working(w, p) == At("decode") /\ pc[w] = p

\* Mutant: the counter is read, and nothing moves it on.
ClaimReading(w) ==
  /\ Working(w, "claim")
  /\ at' = [at EXCEPT ![w] = next]
  /\ pc' = [pc EXCEPT ![w] = IF next <= size THEN "write" ELSE "done"]
  /\ UNCHANGED <<command, next, npy, jsonl>>

\* fetch_add; past the rows there is nothing left to do.
Claim(w) ==
  /\ Working(w, "claim")
  /\ next' = next + 1
  /\ IF next <= size
     THEN at' = [at EXCEPT ![w] = next] /\ pc' = [pc EXCEPT ![w] = "write"]
     ELSE pc' = [pc EXCEPT ![w] = "done"] /\ UNCHANGED at
  /\ UNCHANGED <<command, npy, jsonl>>

\* The frame is read, decoded, resized and written at its offset.
Write(w) ==
  /\ Working(w, "write")
  /\ npy' = [npy EXCEPT ![split].frames[at[w]] = <<build, at[w]>>]
  /\ pc' = [pc EXCEPT ![w] = "claim"]
  /\ UNCHANGED <<command, next, at, jsonl>>

\* One of those failed, or panicked: this worker ends, the others go on.
WriteFails(w) ==
  /\ Working(w, "write")
  /\ pc' = [pc EXCEPT ![w] = "failed"]
  /\ UNCHANGED <<command, next, at, npy, jsonl>>

-----------------------------------------------------------------------------
(* The command's own thread, once it has joined the workers. *)

Ended(w) == pc[w] \in {"done", "failed"}

\* Mutant: a failure is not looked at.
JoinTrusting ==
  /\ At("decode") /\ \A w \in Workers : Ended(w)
  /\ place' = "rows"
  /\ UNCHANGED <<build, status, split, size, next, workers, npy, jsonl>>

\* Mutant: the rows are written once one worker has nothing left to claim.
JoinFirst ==
  /\ At("decode") /\ \E w \in Workers : pc[w] = "done"
  /\ place' = "rows"
  /\ UNCHANGED <<build, status, split, size, next, workers, npy, jsonl>>

Join ==
  /\ At("decode") /\ \A w \in Workers : Ended(w)
  /\ IF \E w \in Workers : pc[w] = "failed"
     THEN status' = "error" /\ UNCHANGED place
     ELSE place' = "rows" /\ UNCHANGED status
  /\ UNCHANGED <<build, split, size, next, workers, npy, jsonl>>

\* <split>.jsonl is created, truncating; its lines are buffered.
Rows ==
  /\ At("rows")
  /\ jsonl' = [jsonl EXCEPT ![split] = [build |-> build, count |-> 0]]
  /\ place' = "line"
  /\ UNCHANGED <<build, status, split, size, next, workers, npy>>

\* The buffer reaches the file, in one piece or in several, a line cut short counted
\* with those not there yet; after the last the split is done.
Lines ==
  /\ At("line")
  /\ \E n \in {k \in jsonl[split].count .. size : k > jsonl[split].count \/ k = size} :
       /\ jsonl' = [jsonl EXCEPT ![split].count = n]
       /\ IF n < size
          THEN UNCHANGED <<status, split, size, place>>
          ELSE IF split = Splits
               THEN status' = "ok" /\ UNCHANGED <<split, size, place>>
               ELSE split' = split + 1 /\ size' \in Sizes /\ place' = "lay" /\ UNCHANGED status
  /\ UNCHANGED <<build, next, workers, npy>>

\* A file operation of the command's own thread fails; of the layout, the header
\* may have been written and the length not.
Fails ==
  /\ status = "running" /\ place # "decode"
  /\ status' = "error"
  /\ npy' \in IF place = "header"
              THEN {npy, [npy EXCEPT ![split].count = size]} ELSE {npy}
  /\ UNCHANGED <<build, split, size, place, next, workers, jsonl>>

Killed ==
  /\ status = "running"
  /\ status' = "killed"
  /\ UNCHANGED <<build, split, size, place, next, workers, npy, jsonl>>

Work(w) == Claim(w) \/ Write(w) \/ WriteFails(w)
Command == Lay \/ Header \/ Join \/ Rows \/ Lines \/ Fails
Next == Begin \/ Killed \/ Command \/ \E w \in Workers : Work(w)

\* Every thread is scheduled.
Fairness == WF_vars(Command) /\ \A w \in Workers : WF_vars(Work(w))
Spec == Init /\ [][Next]_vars /\ Fairness

-----------------------------------------------------------------------------

\* Split::open: both files are there, and the array has as many frames as there
\* are rows.
Opens(s) ==
  /\ npy[s] # None /\ jsonl[s] # None
  /\ npy[s].count # None /\ npy[s].count = jsonl[s].count

\* Frame i, read from the open split, is the one row i describes.
RowIsOfFrame(s, i) == i <= Len(npy[s].frames) /\ npy[s].frames[i] = <<jsonl[s].build, i>>

-----------------------------------------------------------------------------

\* Each variable has its values; above all, a worker writes inside the array.
TypeOK ==
  /\ build \in 0 .. MaxBuilds /\ status \in {"idle", "running", "ok", "error", "killed"}
  /\ split \in 1 .. Splits /\ size \in Sizes \cup {1}
  /\ place \in {"lay", "header", "decode", "rows", "line"}
  /\ next \in Nat \ {0}
  /\ pc \in [Workers -> {"claim", "write", "done", "failed"}]
  /\ \A w \in Workers : pc[w] = "write" => at[w] \in 1 .. size
  /\ \A s \in 1 .. Splits : npy[s] # None =>
       /\ npy[s].build \in 1 .. MaxBuilds /\ npy[s].count \in {None} \cup Sizes
       /\ \A i \in 1 .. Len(npy[s].frames) : npy[s].frames[i] \in {Blank, <<npy[s].build, i>>}
  /\ \A s \in 1 .. Splits : jsonl[s] # None =>
       jsonl[s].build \in 1 .. MaxBuilds /\ jsonl[s].count \in Nat

\* Frame i has its decoder: no other worker is at it, and none has written it.
DecodedOnce ==
  At("decode") => \A w \in Workers : pc[w] = "write" =>
    /\ npy[split].frames[at[w]] = Blank
    /\ \A v \in Workers \ {w} : pc[v] = "write" => at[v] # at[w]

\* The frames that lie in s wait for their rows.
Waits(s) == npy[s] # None /\ (jsonl[s] # None => jsonl[s].build # npy[s].build)

\* The rows of a build are on disk only once all their split's frames are.  So a build
\* that fails or is killed leaves one split at most, the one it was at, with frames it
\* may not have decoded, beside no rows or an earlier build's: these open if they are
\* as many (OpenedIsDecoded, below), those of every other split are its frames' own.
RowsAfterFrames ==
  \A s \in 1 .. Splits :
    /\ jsonl[s] # None => npy[s] # None /\ jsonl[s].build <= npy[s].build
    /\ Waits(s) => \A t \in (1 .. Splits) \ {s} : Waits(t) => npy[t].build # npy[s].build
    /\ jsonl[s] # None /\ ~Waits(s) =>
         npy[s].count # None /\ npy[s].frames = Whole(npy[s].build, npy[s].count)

\* A command that returns Ok leaves every split open to reading, whole and its own,
\* whatever order the workers ran in and whatever lay there before.
OkIsWhole ==
  status = "ok" =>
    \A s \in 1 .. Splits :
      /\ Opens(s) /\ jsonl[s].build = build
      /\ npy[s].frames = Whole(build, npy[s].count)

\* Every command that is not killed returns.
Returns == status = "running" ~> status # "running"

\* data.rs: `<split>.jsonl` is "one row per frame in the same order": of a split
\* that opens while no build is at work, every frame is the one its row describes.
OpenedIsDecoded ==
  status # "running" => \A s \in 1 .. Splits : Opens(s) => \A i \in 1 .. npy[s].count : RowIsOfFrame(s, i)
=============================================================================
