------------------------------ MODULE TrainRun ------------------------------
(***************************************************************************)
(* A training run (dash-train train.rs, fn train): a producer thread makes  *)
(* the batches of every epoch and sends them over a channel of two places;  *)
(* the run's own thread takes a step on each, validates after each epoch,   *)
(* appends the report to metrics.jsonl, keeps the epoch's weights and       *)
(* description as two files, and the best epoch's again at the top of the   *)
(* run's directory.  The two threads end in one scope, which joins them.    *)
(*                                                                         *)
(* A batch is its number in the order the seed fixes, an epoch's weights    *)
(* and description the run and epoch that wrote them.  The process may be   *)
(* killed at any point and the command given again over the same files.     *)
(***************************************************************************)
EXTENDS Integers, Sequences

CONSTANTS Frames, Batch,   \* a batch of none panics, and of more than all is refused
          EpochCounts,     \* what --epochs may be
          StepLimits,      \* what --max-steps may be; no limit if it is large
          PctNum, PctDen,  \* pct_start
          Scores,          \* what a validation may come to, if it is a number
          MaxRuns,         \* how often the command is given (a bound)
          Failed,          \* a batch that could not be made
          Torn, None       \* a file cut short; no file

ASSUME RecipeAssumption ==
  /\ {Frames, Batch, PctDen, MaxRuns} \subseteq Nat \ {0}
  /\ EpochCounts \cup StepLimits \subseteq Nat
  /\ PctNum \in Nat
  /\ Frames >= Batch
  /\ Scores \subseteq Nat
ASSUME MarksAssumption == Failed \notin Int /\ Torn # None

Capacity == 2
\* Frames left over make no batch.
PerEpoch == Frames \div Batch
\* The epochs that may be kept.
EpochNumbers == UNION {0 .. n - 1 : n \in EpochCounts}

VARIABLES run,       \* how often the command was given
          recipe,    \* the epochs and the steps it was given
          status,    \* "idle", "running", "returned", "killed"
          producer, made, held,   \* the producer: place, batches sent, in hand
          queue, open,            \* the channel; whether its receiver lives
          consumer, step, epoch, taken, mean, best, bestEpoch,
          outcome,   \* "ok" or "error" once the consumer has ended
          scores,    \* the epochs this run has scored (history)
          trained,   \* the batches it trained on (history)
          metrics,   \* metrics.jsonl
          kept,      \* epochs/NN: weights and description
          top        \* the run's directory: weights and description

vars == <<run, recipe, status, producer, made, held, queue, open, consumer, step, epoch, taken,
          mean, best, bestEpoch, outcome, scores, trained, metrics, kept, top>>
sending == <<producer, made, held>>
counters == <<step, epoch, taken, trained>>
choice == <<mean, best, bestEpoch, scores>>
disk == <<metrics, kept, top>>

Epochs == recipe.epochs
Total == Epochs * PerEpoch
StopAt == IF recipe.steps < Total THEN recipe.steps ELSE Total

Minus == -1   \* below every score: best's first value
NaN == Minus  \* a head's macro-F1 where no frame has its label: greater than nothing
NoFiles == [weights |-> None, text |-> None]

Fresh ==
  /\ producer' = (IF Total' = 0 THEN "ended" ELSE "make") /\ made' = 0 /\ held' = Failed
  /\ queue' = <<>> /\ open' = TRUE
  /\ consumer' = "open" /\ step' = 0 /\ epoch' = 0 /\ taken' = 0
  /\ mean' = 0 /\ best' = Minus /\ bestEpoch' = Minus
  /\ outcome' = "none" /\ scores' = <<>> /\ trained' = <<>>

Init ==
  /\ run = 0 /\ status = "idle" /\ recipe = [epochs |-> 0, steps |-> 0]
  /\ producer = "ended" /\ made = 0 /\ held = Failed
  /\ queue = <<>> /\ open = FALSE
  /\ consumer = "ended" /\ step = 0 /\ epoch = 0 /\ taken = 0
  /\ mean = 0 /\ best = Minus /\ bestEpoch = Minus
  /\ outcome = "none" /\ scores = <<>> /\ trained = <<>>
  /\ metrics = <<>>
  /\ kept = [e \in EpochNumbers |-> NoFiles]
  /\ top = NoFiles

\* The command is given (again): nothing of an earlier run is read back.
Begin ==
  /\ status # "running" /\ run < MaxRuns
  /\ run' = run + 1 /\ status' = "running"
  /\ recipe' \in [epochs : EpochCounts, steps : StepLimits]
  /\ Fresh
  /\ UNCHANGED disk

-----------------------------------------------------------------------------
(* The producer. *)

Make ==
  /\ status = "running" /\ producer = "make"
  /\ held' \in {made, Failed}
  /\ producer' = "send"
  /\ UNCHANGED <<run, recipe, status, made, queue, open, consumer, counters, choice, outcome, disk>>

\* Mutant: a batch that could not be made is passed over.
SendGood ==
  /\ status = "running" /\ producer = "send"
  /\ open /\ Len(queue) < Capacity
  /\ queue' = IF held = Failed THEN queue ELSE Append(queue, held)
  /\ made' = made + 1
  /\ producer' = IF made + 1 = Total THEN "ended" ELSE "make"
  /\ UNCHANGED <<run, recipe, status, held, open, consumer, counters, choice, outcome, disk>>

\* There is room: the batch goes in, failed or not.
Send ==
  /\ status = "running" /\ producer = "send"
  /\ open /\ Len(queue) < Capacity
  /\ queue' = Append(queue, held)
  /\ made' = made + 1
  /\ producer' = IF made + 1 = Total THEN "ended" ELSE "make"
  /\ UNCHANGED <<run, recipe, status, held, open, consumer, counters, choice, outcome, disk>>

\* The receiver is gone: the producer returns.
Unwanted ==
  /\ status = "running" /\ producer = "send" /\ ~open
  /\ producer' = "ended"
  /\ UNCHANGED <<run, recipe, status, made, held, queue, open, consumer, counters, choice, outcome, disk>>

\* A panic while a batch is made: the sender is dropped with the thread.
Panics ==
  /\ status = "running" /\ producer = "make"
  /\ producer' = "panicked"
  /\ UNCHANGED <<run, recipe, status, made, held, queue, open, consumer, counters, choice, outcome, disk>>

Produce == Make \/ Send \/ Unwanted

-----------------------------------------------------------------------------
(* The consumer. *)

At(place) == status = "running" /\ consumer = place

\* Mutant: the receiver outlives the closure that stops reading it.
EndsHolding(result) ==
  /\ consumer' = "ended" /\ outcome' = result
  /\ UNCHANGED <<queue, open>>

\* The closure returns: its receiver, and what was queued, are dropped.
Ends(result) ==
  /\ consumer' = "ended" /\ outcome' = result
  /\ queue' = <<>> /\ open' = FALSE

GoesTo(place) == consumer' = place /\ UNCHANGED <<queue, open, outcome>>

\* metrics.jsonl is opened for appending.
Open ==
  /\ At("open")
  /\ GoesTo("epoch")
  /\ UNCHANGED <<run, recipe, status, sending, counters, choice, disk>>

\* The top of the epoch loop.
Epoch ==
  /\ At("epoch")
  /\ IF epoch = Epochs \/ step >= StopAt THEN Ends("ok") /\ UNCHANGED taken
                                         ELSE GoesTo("recv") /\ taken' = 0
  /\ UNCHANGED <<run, recipe, status, sending, step, epoch, trained, choice, disk>>

Wanted == taken < PerEpoch /\ step < StopAt

\* A batch arrives: a step on it, or the error it carries.
Train ==
  /\ At("recv") /\ Wanted /\ queue # <<>>
  /\ IF Head(queue) = Failed
     THEN Ends("error") /\ UNCHANGED counters
     ELSE /\ queue' = Tail(queue) /\ UNCHANGED <<open, outcome, consumer>>
          /\ step' = step + 1 /\ taken' = taken + 1
          /\ trained' = Append(trained, Head(queue))
          /\ UNCHANGED epoch
  /\ UNCHANGED <<run, recipe, status, sending, choice, disk>>

\* "the batch producer stopped"
Stopped ==
  /\ At("recv") /\ Wanted /\ queue = <<>> /\ producer \in {"ended", "panicked"}
  /\ Ends("error")
  /\ UNCHANGED <<run, recipe, status, sending, counters, choice, disk>>

\* The epoch's steps are over: validation gives its mean macro-F1.
Validate ==
  /\ At("recv") /\ ~Wanted
  /\ mean' \in Scores \cup {NaN}
  /\ scores' = Append(scores, mean')
  /\ GoesTo("report")
  /\ UNCHANGED <<run, recipe, status, sending, counters, best, bestEpoch, disk>>

\* Mutant: the file is opened afresh for the first report.
ReportTruncating ==
  /\ At("report")
  /\ metrics' = Append(IF epoch = 0 THEN <<>> ELSE metrics, <<run, epoch>>)
  /\ GoesTo("weights")
  /\ UNCHANGED <<run, recipe, status, sending, counters, choice, kept, top>>

Report ==
  /\ At("report")
  /\ metrics' = Append(metrics, <<run, epoch>>)
  /\ GoesTo("weights")
  /\ UNCHANGED <<run, recipe, status, sending, counters, choice, kept, top>>

\* Mutant: every epoch's files go into the first one's directory.
EpochDirFirst(e) == 0
EpochDir(e) == e

\* save: the weights, then the description, of epochs/NN.
KeepWeights ==
  /\ At("weights")
  /\ kept' = [kept EXCEPT ![EpochDir(epoch)].weights = <<run, epoch>>]
  /\ GoesTo("text")
  /\ UNCHANGED <<run, recipe, status, sending, counters, choice, metrics, top>>

\* Mutant: a later epoch as good as the best takes its place.
IsBestOrTies == mean >= best
IsBest == mean > best

KeepText ==
  /\ At("text")
  /\ kept' = [kept EXCEPT ![EpochDir(epoch)].text = <<run, epoch>>]
  /\ IF IsBest THEN /\ best' = mean /\ bestEpoch' = epoch
                    /\ GoesTo("top weights") /\ UNCHANGED epoch
               ELSE /\ UNCHANGED <<best, bestEpoch>>
                    /\ GoesTo("epoch") /\ epoch' = epoch + 1
  /\ UNCHANGED <<run, recipe, status, sending, step, taken, trained, mean, scores, metrics, top>>

TopWeights ==
  /\ At("top weights")
  /\ top' = [top EXCEPT !.weights = <<run, epoch>>]
  /\ GoesTo("top text")
  /\ UNCHANGED <<run, recipe, status, sending, counters, choice, metrics, kept>>

TopText ==
  /\ At("top text")
  /\ top' = [top EXCEPT !.text = <<run, epoch>>]
  /\ GoesTo("epoch") /\ epoch' = epoch + 1
  /\ UNCHANGED <<run, recipe, status, sending, step, taken, trained, choice, metrics, kept>>

\* What a write cut short leaves: the old file, a torn one, or a line without its end.
Cut ==
  /\ IF consumer = "report" THEN metrics' \in {metrics, Append(metrics, Torn)}
                           ELSE UNCHANGED metrics
  /\ IF consumer \in {"weights", "text"}
     THEN kept' \in {kept, [kept EXCEPT ![EpochDir(epoch)][consumer] = Torn]}
     ELSE UNCHANGED kept
  /\ CASE consumer = "top weights" -> top' \in {top, [top EXCEPT !.weights = Torn]}
       [] consumer = "top text" -> top' \in {top, [top EXCEPT !.text = Torn]}
       [] OTHER -> UNCHANGED top

\* Opening, validating or writing fails: the closure returns the error.
Fails ==
  /\ status = "running"
  /\ \/ consumer \in {"open", "report", "weights", "text", "top weights", "top text"}
     \/ consumer = "recv" /\ ~Wanted
  /\ Ends("error")
  /\ Cut
  /\ UNCHANGED <<run, recipe, status, sending, counters, choice>>

Consume ==
  \/ Open \/ Epoch \/ Train \/ Stopped \/ Validate
  \/ Report \/ KeepWeights \/ KeepText \/ TopWeights \/ TopText

-----------------------------------------------------------------------------

\* The scope has joined the producer; a panic of its goes on in the caller.
Join ==
  /\ status = "running"
  /\ consumer = "ended" /\ producer \in {"ended", "panicked"}
  /\ status' = "returned"
  /\ outcome' = IF producer = "panicked" THEN "panic" ELSE outcome
  /\ UNCHANGED <<run, recipe, sending, queue, open, consumer, counters, choice, disk>>

Killed ==
  /\ status = "running"
  /\ status' = "killed"
  /\ Cut
  /\ UNCHANGED <<run, recipe, sending, queue, open, consumer, counters, choice, outcome>>

Next == Begin \/ Produce \/ Panics \/ Consume \/ Fails \/ Join \/ Killed

\* The two threads are scheduled; nothing need fail, be killed or be started.
Fairness == WF_vars(Produce) /\ WF_vars(Consume) /\ WF_vars(Join)

Spec == Init /\ [][Next]_vars /\ Fairness

-----------------------------------------------------------------------------
(* The rate of a step: how far into its phase of OneCycle::at it is, as a     *)
(* fraction over PctDen; the first phase ends at pct_start total - 1.         *)

FirstEnd == PctNum * Total - PctDen
LastEnd == PctDen * (Total - 1)

Pct(k) ==
  IF PctDen * k <= FirstEnd
  THEN [num |-> PctDen * k, den |-> FirstEnd]
  ELSE [num |-> PctDen * k - FirstEnd, den |-> LastEnd - FirstEnd]

-----------------------------------------------------------------------------

Written == {None, Torn} \cup ((1 .. MaxRuns) \X EpochNumbers)
Files == [weights : Written, text : Written]
Places == {"open", "epoch", "recv", "report", "weights", "text", "top weights", "top text", "ended"}

\* Each variable has its values: above all, no more than two batches are ever
\* queued.
TypeOK ==
  /\ run \in 0 .. MaxRuns
  /\ recipe \in [epochs : EpochCounts \cup {0}, steps : StepLimits \cup {0}]
  /\ status \in {"idle", "running", "returned", "killed"}
  /\ producer \in {"make", "send", "ended", "panicked"}
  /\ made \in 0 .. Total /\ held \in (0 .. Total - 1) \cup {Failed}
  /\ \A i \in 1 .. Len(queue) : queue[i] \in (0 .. Total - 1) \cup {Failed}
  /\ Len(queue) <= Capacity /\ open \in BOOLEAN
  /\ consumer \in Places
  /\ step \in 0 .. StopAt /\ epoch \in 0 .. Epochs /\ taken \in 0 .. PerEpoch
  /\ mean \in Scores \cup {0, NaN} /\ best \in Scores \cup {Minus}
  /\ bestEpoch \in Minus .. Epochs - 1
  /\ outcome \in {"none", "ok", "error", "panic"}
  /\ scores \in Seq(Scores \cup {NaN})
  /\ \A i \in 1 .. Len(trained) : trained[i] \in 0 .. Total - 1
  /\ kept \in [EpochNumbers -> Files] /\ top \in Files

\* The steps are on the batches the seed fixes, in their order and without a gap,
\* whatever the pace of the two threads.
SeedFixesBatches ==
  /\ Len(trained) = step
  /\ \A i \in 1 .. step : trained[i] = i - 1

\* A run that returns Ok took all its steps and kept every epoch it ran whole, and at
\* the top the first of the best ones, whole too; where there was none (no step was
\* asked for, or no epoch had a score) it left the top as an earlier run did.
OkKeepsBest ==
  status = "returned" /\ outcome = "ok" =>
    /\ step = StopAt /\ (epoch = 0 <=> StopAt = 0)
    /\ \A e \in 0 .. epoch - 1 : kept[e] = [weights |-> <<run, e>>, text |-> <<run, e>>]
    /\ \/ /\ bestEpoch \in 0 .. epoch - 1
          /\ top = kept[bestEpoch]
          /\ \A e \in 0 .. epoch - 1 :
               /\ scores[e + 1] <= scores[bestEpoch + 1]
               /\ e < bestEpoch => scores[e + 1] < scores[bestEpoch + 1]
       \/ /\ bestEpoch = Minus /\ \A e \in 0 .. epoch - 1 : scores[e + 1] = NaN
          /\ \A f \in {"weights", "text"} : top[f] \notin {None, Torn} => top[f][1] < run

\* Weights or a description kept of an epoch, by this run or an earlier one, have
\* their report in metrics.jsonl, whenever the run was killed.
KeptIsReported ==
  \A e \in EpochNumbers : \A f \in {"weights", "text"} :
    kept[e][f] \notin {None, Torn} => \E i \in 1 .. Len(metrics) : metrics[i] = kept[e][f]

\* The top never holds weights newer than what is kept of their own epoch: a best
\* epoch is whole in epochs/NN before the top is touched.
TopIsKept ==
  \A f \in {"weights", "text"} :
    top[f] \notin {None, Torn} /\ top[f][1] = run =>
      kept[top[f][2]] = [weights |-> top[f], text |-> top[f]]

\* Every run that is not killed returns: the producer is never left waiting for
\* room in a channel nobody reads, nor the run for a batch nobody makes.
Returns == status = "running" ~> status # "running"

\* tests/epochs.rs reads metrics.jsonl as a report to a line: those of a run that
\* returned Ok begin their lines.
ReportsAreLines ==
  status = "returned" /\ outcome = "ok" =>
    \A i \in 2 .. Len(metrics) : metrics[i] # Torn => metrics[i - 1] # Torn

\* schedule.rs: "The rate climbs from `max_lr / 25`": every step has a rate.
RateIsNumber == step < StopAt => Pct(step).den # 0
==============================================================================
