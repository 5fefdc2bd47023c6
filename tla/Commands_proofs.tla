--------------------------- MODULE Commands_proofs ---------------------------
(***************************************************************************)
(* The invariants of a project's commands.  Those of a training run come   *)
(* first, for any number of frames and of runs over the same directory,    *)
(* each of any epochs and steps, none included.  A command given leaves    *)
(* the files of the others alone, so each is proved of its own actions,    *)
(* for any number of splits, workers, frames, directories and commands.    *)
(***************************************************************************)
EXTENDS Commands, SequenceTheorems, TLAPS

-----------------------------------------------------------------------------
(* The invariant of a training run. *)

\* Where the consumer is once it has scored the epoch, has its report on disk,
\* and has taken its score into account.
Scored == {"report", "weights", "text", "top weights", "top text"}
Reported == Scored \ {"report"}
Chosen == {"top weights", "top text"}

\* The files of a whole epoch of this run.
Both(e) == [weights |-> <<run, e>>, text |-> <<run, e>>]

\* TypeOK in the parts that an action leaves alone or does not.
Threads ==
  /\ run \in 0 .. MaxRuns /\ status \in {"idle", "running", "returned", "killed"}
  /\ recipe \in [epochs : EpochCounts \cup {0}, steps : StepLimits \cup {0}]
  /\ status # "idle" => run > 0
  /\ producer \in {"make", "send", "ended", "panicked"} /\ consumer \in Places
  /\ outcome \in {"none", "ok", "error", "panic"}
Sending ==
  /\ made \in 0 .. Total /\ held \in (0 .. Total - 1) \cup {Failed}
  /\ queue \in Seq((0 .. Total - 1) \cup {Failed}) /\ Len(queue) <= Capacity
  /\ open \in BOOLEAN
Counting ==
  /\ step \in 0 .. StopAt /\ epoch \in 0 .. Epochs /\ taken \in 0 .. PerEpoch
  /\ trained \in Seq(0 .. Total - 1)
Choosing ==
  /\ mean \in Scores \cup {0, NaN} /\ best \in Scores \cup {Minus}
  /\ bestEpoch \in Minus .. Epochs - 1 /\ scores \in Seq(Scores \cup {NaN})
OnDisk ==
  /\ metrics \in Seq(Written)
  /\ kept \in [EpochNumbers -> Files] /\ top \in Files
Typed == Threads /\ Sending /\ Counting /\ Choosing /\ OnDisk

\* What is in the channel comes next, in order, and the producer's hand after it.
Channel ==
  /\ open <=> consumer # "ended"
  /\ open => /\ made = step + Len(queue)
             /\ \A i \in 1 .. Len(queue) : queue[i] \in {step + i - 1, Failed}
  /\ producer \in {"make", "send"} => made < Total
  /\ producer = "send" => held \in {made, Failed}

\* How far the steps are when the consumer is in its loops.
Counted ==
  /\ consumer = "open" => epoch = 0 /\ step = 0
  /\ consumer = "epoch" => /\ step \in {epoch * PerEpoch, StopAt}
                           /\ epoch = 0 => step = 0
  /\ consumer = "recv" => epoch < Epochs /\ step = epoch * PerEpoch + taken
  /\ consumer \in Scored => epoch < Epochs /\ step \in {(epoch + 1) * PerEpoch, StopAt}
  /\ epoch > 0 \/ consumer \in {"recv"} \cup Scored => StopAt > 0

\* The first n epochs' best is the one remembered, the first of its like; where none
\* has a score there is none.
BestOf(n) ==
  \/ /\ bestEpoch \in 0 .. n - 1 /\ best = scores[bestEpoch + 1] /\ best # Minus
     /\ \A e \in 0 .. n - 1 : /\ scores[e + 1] <= best
                              /\ e < bestEpoch => scores[e + 1] < best
  \/ bestEpoch = Minus /\ best = Minus /\ \A e \in 0 .. n - 1 : scores[e + 1] = NaN

Compared ==
  /\ consumer \notin Scored \cup {"ended"} => Len(scores) = epoch /\ BestOf(epoch)
  /\ consumer \in Scored => Len(scores) = epoch + 1 /\ scores[epoch + 1] = mean
  /\ consumer \in Scored \ Chosen => BestOf(epoch)
  /\ consumer \in Chosen => BestOf(epoch + 1) /\ bestEpoch = epoch

\* The epochs that are over are whole, and so is the top but while it is written.
Whole ==
  /\ consumer # "ended" => \A e \in 0 .. epoch - 1 : kept[e] = Both(e)
  /\ consumer = "text" => kept[epoch].weights = <<run, epoch>>
  /\ consumer \in Chosen => kept[epoch] = Both(epoch)
  /\ consumer \notin Chosen \cup {"ended"} /\ bestEpoch # Minus => top = Both(bestEpoch)
  /\ consumer = "top text" => top.weights = <<run, epoch>>

\* Nothing at the top is of a later run; what is of this one is of an epoch kept.
Stamped ==
  \A f \in {"weights", "text"} : top[f] \notin {None, Torn} =>
    /\ top[f][1] <= run
    /\ top[f][1] = run => /\ kept[top[f][2]] = [weights |-> top[f], text |-> top[f]]
                          /\ top[f][2] < epoch \/ consumer \in Chosen \cup {"ended"}

\* Without a best epoch the top is an earlier run's.
Untouched ==
  bestEpoch = Minus => \A f \in {"weights", "text"} : top[f] \notin {None, Torn} => top[f][1] < run

Logged ==
  /\ KeptIsReported
  /\ consumer \in Reported => \E i \in 1 .. Len(metrics) : metrics[i] = <<run, epoch>>

\* What a run that ended well ended with.
EndedWell ==
  /\ consumer # "ended" => outcome = "none"
  /\ outcome = "ok" =>
       /\ step = StopAt /\ (epoch = 0 <=> StopAt = 0)
       /\ \A e \in 0 .. epoch - 1 : kept[e] = Both(e)
       /\ (bestEpoch # Minus => top = Both(bestEpoch)) /\ BestOf(epoch)

IInv ==
  /\ Typed /\ Channel /\ SeedFixesBatches /\ Counted /\ Compared
  /\ Whole /\ Stamped /\ Untouched /\ Logged /\ EndedWell
-----------------------------------------------------------------------------
(* The counts. *)

\* One more time round is one more part.
LEMMA TimesOnward ==
  ASSUME NEW a \in Nat, NEW b \in Nat
  PROVE  (a + 1) * b = a * b + b
  OBVIOUS

\* More times round is no less.
LEMMA TimesMonotone ==
  ASSUME NEW a \in Nat, NEW b \in Nat, NEW c \in Nat, a <= b
  PROVE  a * c <= b * c
  <1>1. PICK d \in Nat : b = a + d
    <2>1. b - a \in Nat /\ b = a + (b - a)
      OBVIOUS
    <2> QED
      BY <2>1
  <1>2. b * c = a * c + d * c /\ d * c \in Nat /\ a * c \in Nat
    BY <1>1
  <1> QED
    BY <1>2

\* A part that fits once fits at least once.
LEMMA FitsOnce ==
  ASSUME NEW a \in Nat, NEW b \in Nat \ {0}, a >= b
  PROVE  a \div b \in Nat /\ a \div b >= 1
  OBVIOUS

\* An epoch has a batch; a run may have no epoch, and no step.
LEMMA Counts ==
  ASSUME Threads
  PROVE  /\ Epochs \in Nat /\ MaxRuns \in Nat \ {0}
         /\ PerEpoch \in Nat \ {0} /\ Total \in Nat /\ StopAt \in 0 .. Total
         /\ Scores \subseteq Nat /\ Failed \notin Int
         /\ EpochNumbers \subseteq Nat /\ 0 .. Epochs - 1 \subseteq EpochNumbers
  <1>1. /\ Frames \in Nat \ {0} /\ Batch \in Nat \ {0} /\ MaxRuns \in Nat \ {0} /\ Frames >= Batch
        /\ EpochCounts \subseteq Nat /\ StepLimits \subseteq Nat
        /\ Scores \subseteq Nat /\ Failed \notin Int
    BY RecipeAssumption, MarksAssumption
  <1>2. PerEpoch \in Nat \ {0}
    BY <1>1, FitsOnce DEF PerEpoch
  <1>3. Epochs \in EpochCounts \cup {0} /\ Epochs \in Nat /\ recipe.steps \in Nat
    <2>1. recipe \in [epochs : EpochCounts \cup {0}, steps : StepLimits \cup {0}]
      BY DEF Threads
    <2>2. recipe.epochs \in EpochCounts \cup {0} /\ recipe.steps \in StepLimits \cup {0}
      BY <2>1
    <2>3. EpochCounts \cup {0} \subseteq Nat /\ StepLimits \cup {0} \subseteq Nat
      BY <1>1
    <2> QED
      BY <2>2, <2>3 DEF Epochs
  <1>4. Total \in Nat
    BY <1>2, <1>3 DEF Total
  <1>5. StopAt \in 0 .. Total
    BY <1>3, <1>4 DEF StopAt
  <1>6. EpochNumbers \subseteq Nat /\ 0 .. Epochs - 1 \subseteq EpochNumbers
    <2>1. EpochNumbers \subseteq Nat
      BY <1>1 DEF EpochNumbers
    <2>2. Epochs = 0 => 0 .. Epochs - 1 = {}
      OBVIOUS
    <2>3. Epochs \in EpochCounts => 0 .. Epochs - 1 \subseteq EpochNumbers
      BY DEF EpochNumbers
    <2> QED
      BY <1>3, <2>1, <2>2, <2>3
  <1> QED
    BY <1>1, <1>2, <1>3, <1>4, <1>5, <1>6

\* No command, no epochs.
LEMMA NothingGiven ==
  ASSUME recipe = [epochs |-> 0, steps |-> 0]
  PROVE  Epochs = 0 /\ Total = 0 /\ StopAt = 0
  <1>1. PerEpoch \in Nat \ {0}
    BY RecipeAssumption, FitsOnce DEF PerEpoch
  <1> QED
    BY <1>1 DEF Epochs, Total, StopAt

\* The command is one while it runs.
LEMMA SameRecipe ==
  ASSUME UNCHANGED recipe
  PROVE  Epochs' = Epochs /\ Total' = Total /\ StopAt' = StopAt
  BY DEF Epochs, Total, StopAt

\* The steps of e epochs: a whole number of them, and no more than the run's.
LEMMA EpochSteps ==
  ASSUME Threads, NEW e \in 0 .. Epochs
  PROVE  /\ e * PerEpoch \in 0 .. Total /\ (e + 1) * PerEpoch = e * PerEpoch + PerEpoch
         /\ e = 0 => e * PerEpoch = 0
         /\ e = Epochs => e * PerEpoch = Total
  <1>0. e \in Nat /\ Epochs \in Nat /\ e <= Epochs /\ PerEpoch \in Nat /\ Total = Epochs * PerEpoch
    BY Counts DEF Total
  <1>1. e * PerEpoch <= Total
    BY <1>0, TimesMonotone
  <1>2. e * PerEpoch \in Nat
    BY <1>0
  <1>3. (e + 1) * PerEpoch = e * PerEpoch + PerEpoch
    BY <1>0, TimesOnward
  <1> QED
    BY <1>0, <1>1, <1>2, <1>3, Counts

\* The parts together are the type invariant.
LEMMA TypedParts == Typed => TypeOK
  BY ElementOfSeq DEF Typed, Threads, Sending, Counting, Choosing, OnDisk, TypeOK

-----------------------------------------------------------------------------
(* The start, and a command given. *)

\* The invariant holds at first.
LEMMA InitKeeps == Init => IInv
  <1> SUFFICES ASSUME Init PROVE IInv
    OBVIOUS
  <1>1. Threads
    BY RecipeAssumption DEF Init, Threads, Places
  <1>g. Epochs = 0 /\ Total = 0 /\ StopAt = 0
    BY NothingGiven DEF Init
  <1> USE <1>1, <1>g
  <1>2. Sending
    <2>1. queue \in Seq((0 .. Total - 1) \cup {Failed}) /\ Len(queue) <= Capacity
      BY DEF Init, Capacity
    <2>2. made \in 0 .. Total /\ held \in {Failed}
      BY DEF Init
    <2>3. open \in BOOLEAN
      BY DEF Init
    <2> QED
      BY <2>1, <2>2, <2>3 DEF Sending
  <1>3. Counting
    BY Counts DEF Init, Counting
  <1>4. Choosing
    BY Counts DEF Init, Choosing, Minus
  <1>5. OnDisk
    BY DEF Init, OnDisk, Files, Written, NoFiles
  <1>6. Channel
    BY DEF Init, Channel
  <1>13. Untouched
    BY DEF Init, Untouched, NoFiles
  <1>7. SeedFixesBatches
    BY DEF Init, SeedFixesBatches
  <1>8. Counted
    BY DEF Init, Counted, Scored
  <1>9. Compared
    BY DEF Init, Compared, Scored, Chosen
  <1>10. Whole /\ Stamped
    BY DEF Init, Whole, Stamped, Chosen, NoFiles, Minus
  <1>11. Logged
    BY DEF Init, Logged, KeptIsReported, NoFiles, Reported, Scored
  <1>12. EndedWell
    BY DEF Init, EndedWell
  <1> QED
    BY <1>1, <1>2, <1>3, <1>4, <1>5, <1>6, <1>7, <1>8, <1>9, <1>10, <1>11, <1>12, <1>13 DEF IInv, Typed

\* A command given starts over; what it finds on the disk is of an earlier run.
LEMMA BeginKeeps == IInv /\ Begin => IInv'
  <1> SUFFICES ASSUME IInv, Begin PROVE IInv'
    OBVIOUS
  <1>0. run \in Nat /\ run' = run + 1 /\ run' \in 0 .. MaxRuns /\ run' > 0
    BY RecipeAssumption DEF IInv, Typed, Threads, Begin
  <1>1. Threads'
    BY <1>0 DEF Threads, Begin, Fresh, Places
  <1>r. /\ Epochs' \in Nat /\ Total' \in Nat /\ StopAt' \in 0 .. Total'
        /\ 0 * PerEpoch = 0 /\ PerEpoch \in Nat
    <2>1. PerEpoch \in Nat \ {0}
      BY RecipeAssumption, FitsOnce DEF PerEpoch
    <2>2. Epochs' \in Nat /\ recipe'.steps \in Nat
      <3>1. recipe'.epochs \in EpochCounts /\ recipe'.steps \in StepLimits
        BY DEF Begin
      <3> QED
        BY <3>1, RecipeAssumption DEF Epochs
    <2>3. Total' \in Nat
      <3>1. PerEpoch' = PerEpoch
        BY DEF PerEpoch
      <3>2. \A n \in Nat, m \in Nat : n * m \in Nat
        OBVIOUS
      <3> QED
        BY <2>1, <2>2, <3>1, <3>2 DEF Total
    <2>4. StopAt' \in 0 .. Total'
      BY <2>2, <2>3 DEF StopAt
    <2> QED
      BY <2>1, <2>2, <2>3, <2>4
  <1> USE <1>r
  <1>2. Sending'
    BY DEF Begin, Fresh, Sending, Capacity
  <1>3. Counting'
    BY DEF Begin, Fresh, Counting
  <1>4. Choosing'
    <2>1. mean' = 0 /\ best' = Minus /\ bestEpoch' = Minus /\ scores' = <<>>
      BY DEF Begin, Fresh
    <2>2. \A n \in Nat : Minus \in Minus .. n - 1
      BY DEF Minus
    <2>3. Minus \in Minus .. Epochs' - 1
      BY <2>2
    <2> QED
      BY <2>1, <2>3 DEF Choosing
  <1>5. OnDisk'
    BY DEF IInv, Typed, Begin, disk, OnDisk
  <1>6. Channel'
    BY DEF Begin, Fresh, Channel
  <1>7. SeedFixesBatches'
    BY DEF Begin, Fresh, SeedFixesBatches
  <1>8. Counted'
    BY DEF Begin, Fresh, Counted, Scored
  <1>9. Compared'
    BY DEF Begin, Fresh, Compared, BestOf, Scored, Chosen
  <1>10. Whole'
    BY DEF Begin, Fresh, Whole, Chosen, Minus
  <1>11. Stamped'
    BY <1>0 DEF IInv, Stamped, Begin, disk, Typed, OnDisk, Files, Written
  <1>12. Logged'
    BY DEF IInv, Logged, KeptIsReported, Begin, Fresh, disk, Reported, Scored
  <1>14. Untouched'
    BY <1>0 DEF IInv, Untouched, Stamped, Begin, disk, Typed, OnDisk, Files, Written
  <1>13. EndedWell'
    BY DEF Begin, Fresh, EndedWell
  <1> QED
    BY <1>1, <1>2, <1>3, <1>4, <1>5, <1>6, <1>7, <1>8, <1>9, <1>10, <1>11, <1>12, <1>13, <1>14
    DEF IInv, Typed
-----------------------------------------------------------------------------
(* The producer. *)

\* What the producer does not touch it keeps.
LEMMA ConsumerApart ==
  ASSUME IInv, UNCHANGED <<run, recipe, consumer, counters, choice, outcome, disk>>
  PROVE  /\ Counting' /\ Choosing' /\ OnDisk' /\ SeedFixesBatches' /\ Counted' /\ Compared'
         /\ Whole' /\ Stamped' /\ Untouched' /\ Logged' /\ EndedWell'
  <1> USE DEF IInv, counters, choice, disk
  <1>t. Threads
    BY DEF IInv, Typed
  <1>g. Epochs' = Epochs /\ Total' = Total /\ StopAt' = StopAt
    BY SameRecipe
  <1> USE <1>t, <1>g
  <1>1. Counting' /\ Choosing' /\ OnDisk'
    BY DEF Typed, Counting, Choosing, OnDisk
  <1>2. SeedFixesBatches' /\ Counted' /\ Compared'
    BY DEF SeedFixesBatches, Counted, Compared, BestOf
  <1>3. Whole' /\ Stamped' /\ Untouched'
    BY DEF Whole, Stamped, Untouched, Both
  <1>4. Logged'
    BY DEF Logged, KeptIsReported
  <1>5. EndedWell'
    BY DEF EndedWell, Both, BestOf
  <1> QED
    BY <1>1, <1>2, <1>3, <1>4, <1>5

\* A batch made is the next of the seed's order, or none.
LEMMA MakeKeeps == IInv /\ Make => IInv'
  <1> SUFFICES ASSUME IInv, Make PROVE IInv'
    OBVIOUS
  <1>t. Threads
    BY DEF IInv, Typed
  <1>g. Epochs' = Epochs /\ Total' = Total /\ StopAt' = StopAt
    BY SameRecipe DEF Make
  <1> USE <1>t, <1>g
  <1>1. Threads'
    BY DEF IInv, Typed, Threads, Make
  <1>2. Sending' /\ Channel'
    BY Counts DEF IInv, Typed, Sending, Channel, Make, counters
  <1> QED
    BY <1>1, <1>2, ConsumerApart DEF Make, IInv, Typed

\* A batch sent goes behind those of the channel.
LEMMA SendKeeps == IInv /\ Send => IInv'
  <1> SUFFICES ASSUME IInv, Send PROVE IInv'
    OBVIOUS
  <1>t. Threads
    BY DEF IInv, Typed
  <1>g. Epochs' = Epochs /\ Total' = Total /\ StopAt' = StopAt
    BY SameRecipe DEF Send
  <1> USE <1>t, <1>g
  <1>1. Threads'
    BY DEF IInv, Typed, Threads, Send
  <1>2. /\ made \in Nat /\ made < Total /\ Total \in Nat /\ step \in Nat /\ UNCHANGED step
        /\ made = step + Len(queue) /\ held \in {made, Failed}
        /\ queue \in Seq((0 .. Total - 1) \cup {Failed}) /\ Len(queue) < Capacity
    BY Counts DEF IInv, Typed, Sending, Counting, Channel, Send, counters
  <1>3. /\ queue' \in Seq((0 .. Total - 1) \cup {Failed}) /\ Len(queue') = Len(queue) + 1
        /\ \A i \in 1 .. Len(queue') : queue'[i] = IF i = Len(queue) + 1 THEN held ELSE queue[i]
    BY <1>2, AppendProperties DEF Send
  <1>4. Sending'
    BY <1>2, <1>3 DEF IInv, Typed, Sending, Send, Capacity
  <1>5. Channel'
    <2>1. \A i \in 1 .. Len(queue') : queue'[i] \in {step + i - 1, Failed}
      BY <1>2, <1>3 DEF IInv, Channel, Send
    <2>2. made' = step + Len(queue')
      BY <1>2, <1>3 DEF Send
    <2>3. producer' # "send" /\ (producer' = "make" => made' < Total)
      BY <1>2 DEF Send
    <2> QED
      BY <1>2, <2>1, <2>2, <2>3 DEF IInv, Channel, Send
  <1> QED
    BY <1>1, <1>4, <1>5, ConsumerApart DEF Send, IInv, Typed

\* A producer that returns, or dies, leaves the channel as it is.
LEMMA ProducerStops == IInv /\ (Unwanted \/ Panics) => IInv'
  <1> SUFFICES ASSUME IInv, Unwanted \/ Panics PROVE IInv'
    OBVIOUS
  <1>t. Threads
    BY DEF IInv, Typed
  <1>g. Epochs' = Epochs /\ Total' = Total /\ StopAt' = StopAt
    BY SameRecipe DEF Unwanted, Panics
  <1> USE <1>t, <1>g
  <1>1. Threads'
    BY DEF IInv, Typed, Threads, Unwanted, Panics
  <1>2. Sending' /\ Channel'
    BY DEF IInv, Typed, Sending, Channel, Unwanted, Panics, counters
  <1> QED
    BY <1>1, <1>2, ConsumerApart DEF Unwanted, Panics, IInv, Typed
-----------------------------------------------------------------------------
(* A write cut short. *)

\* Two files are all there is of an epoch.
LEMMA SameFiles ==
  ASSUME NEW a \in Files, NEW b \in Files, a.weights = b.weights, a.text = b.text
  PROVE  a = b
  BY DEF Files

\* Whatever is cut short, no file becomes anything but torn, and the log keeps its
\* lines.
LEMMA CutEffect ==
  ASSUME IInv, Cut
  PROVE  /\ metrics' \in Seq(Written) /\ Len(metrics') >= Len(metrics)
         /\ \A i \in 1 .. Len(metrics) : metrics'[i] = metrics[i]
         /\ kept' \in [EpochNumbers -> Files]
         /\ \A e \in EpochNumbers : \A f \in {"weights", "text"} :
              kept'[e][f] # kept[e][f] =>
                kept'[e][f] = Torn /\ consumer = f /\ e = epoch
         /\ \A e \in EpochNumbers : kept'[e] # kept[e] => e = epoch /\ consumer \in {"weights", "text"}
         /\ consumer \notin Chosen => top' = top
         /\ top' \in Files
         /\ \A f \in {"weights", "text"} : top'[f] # top[f] =>
              /\ top'[f] = Torn /\ consumer \in Chosen
              /\ f = "weights" <=> consumer = "top weights"
         /\ consumer = "ended" => UNCHANGED disk
  <1>t. Threads
    BY DEF IInv, Typed
  <1> USE <1>t
  <1>1. metrics \in Seq(Written) /\ kept \in [EpochNumbers -> Files] /\ top \in Files /\ Torn \in Written
    BY DEF IInv, Typed, OnDisk, Written
  <1>2. /\ metrics' \in Seq(Written) /\ Len(metrics') >= Len(metrics)
        /\ \A i \in 1 .. Len(metrics) : metrics'[i] = metrics[i]
    <2>1. CASE metrics' = metrics
      BY <1>1, <2>1
    <2>2. CASE metrics' = Append(metrics, Torn)
      BY <1>1, <2>2, AppendProperties
    <2> QED
      BY <2>1, <2>2 DEF Cut
  <1>3. /\ kept' \in [EpochNumbers -> Files]
        /\ \A e \in EpochNumbers : \A f \in {"weights", "text"} :
             kept'[e][f] # kept[e][f] => kept'[e][f] = Torn /\ consumer = f /\ e = epoch
        /\ \A e \in EpochNumbers :
             kept'[e] # kept[e] => e = epoch /\ consumer \in {"weights", "text"}
    <2>1. CASE kept' = kept
      BY <1>1, <2>1
    <2>2. CASE consumer = "weights" /\ kept' = [kept EXCEPT ![epoch]["weights"] = Torn]
      BY <1>1, <2>2 DEF Files
    <2>3. CASE consumer = "text" /\ kept' = [kept EXCEPT ![epoch]["text"] = Torn]
      BY <1>1, <2>3 DEF Files
    <2> QED
      BY <2>1, <2>2, <2>3 DEF Cut, EpochDir
  <1>4. /\ top' \in Files /\ (consumer \notin Chosen => top' = top)
        /\ \A f \in {"weights", "text"} : top'[f] # top[f] =>
             /\ top'[f] = Torn /\ consumer \in Chosen
             /\ f = "weights" <=> consumer = "top weights"
    <2>1. CASE top' = top
      BY <1>1, <2>1
    <2>2. CASE consumer = "top weights" /\ top' = [top EXCEPT !.weights = Torn]
      BY <1>1, <2>2 DEF Files, Chosen
    <2>3. CASE consumer = "top text" /\ top' = [top EXCEPT !.text = Torn]
      BY <1>1, <2>3 DEF Files, Chosen
    <2>4. \/ top' = top
          \/ consumer = "top weights" /\ top' = [top EXCEPT !.weights = Torn]
          \/ consumer = "top text" /\ top' = [top EXCEPT !.text = Torn]
      <3>1. CASE consumer = "top weights"
        BY <3>1 DEF Cut
      <3>2. CASE consumer = "top text"
        BY <3>2 DEF Cut
      <3>3. CASE consumer \notin {"top weights", "top text"}
        BY <3>3 DEF Cut
      <3> QED
        BY <3>1, <3>2, <3>3
    <2> QED
      BY <2>1, <2>2, <2>3, <2>4
  <1>5. consumer = "ended" => UNCHANGED disk
    BY DEF Cut, disk
  <1> QED
    BY <1>2, <1>3, <1>4, <1>5

\* No write may as well be a write cut short before its first byte.
LEMMA NothingCut == UNCHANGED disk => Cut
  <1> SUFFICES ASSUME UNCHANGED disk PROVE Cut
    OBVIOUS
  <1>1. CASE consumer = "top weights"
    BY <1>1 DEF Cut, disk
  <1>2. CASE consumer = "top text"
    BY <1>2 DEF Cut, disk
  <1>3. CASE consumer \notin {"top weights", "top text"}
    BY <1>3 DEF Cut, disk
  <1> QED
    BY <1>1, <1>2, <1>3

\* A write cut short leaves what is said of the disk true.
LEMMA CutKeeps ==
  ASSUME IInv, Cut, UNCHANGED <<run, recipe, epoch, bestEpoch>>, consumer' \in {consumer, "ended"}
  PROVE  OnDisk' /\ Whole' /\ Stamped' /\ Untouched' /\ KeptIsReported'
  <1>t. Threads
    BY DEF IInv, Typed
  <1>g. Epochs' = Epochs /\ Total' = Total /\ StopAt' = StopAt
    BY SameRecipe
  <1> USE <1>t, <1>g
  <1>1. OnDisk'
    BY CutEffect DEF OnDisk
  <1>7. epoch \in Nat
    BY Counts DEF IInv, Typed, Counting
  <1>2. /\ epoch \in 0 .. Epochs /\ kept \in [EpochNumbers -> Files] /\ top \in Files
        /\ kept' \in [EpochNumbers -> Files] /\ top' \in Files
    BY CutEffect DEF IInv, Typed, Counting, OnDisk
  <1>6. \A e \in EpochNumbers : kept'[e] # kept[e] => e = epoch /\ consumer \in {"weights", "text"}
    BY CutEffect
  <1>3. Whole'
    <2> SUFFICES ASSUME consumer' = consumer, consumer # "ended" PROVE Whole'
      BY DEF Whole, Chosen
    <2>1. \A e \in EpochNumbers : e < epoch => kept'[e] = kept[e]
      <3> TAKE e \in EpochNumbers
      <3>1. e \in Int
        BY Counts
      <3> QED
        BY <1>2, <1>6, <3>1
    <2>2. \A e \in 0 .. epoch - 1 : e \in EpochNumbers /\ kept[e] = Both(e)
      <3>1. \A e \in 0 .. epoch - 1 : kept[e] = Both(e)
        BY DEF IInv, Whole
      <3>2. \A e \in 0 .. epoch - 1 : e \in EpochNumbers
        BY Counts, <1>2
      <3> QED
        BY <3>1, <3>2
    <2>6. consumer \in Scored => epoch \in EpochNumbers
      BY Counts, <1>2 DEF IInv, Counted
    <2>3. consumer = "text" => kept'[epoch].weights = <<run, epoch>>
      BY <2>6, CutEffect DEF IInv, Whole, Scored
    <2>4. consumer \in Chosen => kept'[epoch] = Both(epoch)
      BY <2>6, CutEffect DEF IInv, Whole, Scored, Chosen
    <2>5. consumer \notin Chosen => top' = top
      BY CutEffect
    <2>7. consumer = "top text" => top'.weights = top.weights
      BY CutEffect
    <2>8. \A e \in 0 .. epoch - 1 : kept'[e] = Both(e)
      BY <2>1, <2>2, <1>2
    <2> QED
      BY <2>3, <2>4, <2>5, <2>7, <2>8 DEF IInv, Whole, Both
  <1>4. Stamped'
    <2> SUFFICES ASSUME NEW f \in {"weights", "text"}, top'[f] \notin {None, Torn}
                 PROVE  /\ top'[f][1] <= run
                        /\ top'[f][1] = run =>
                             /\ kept'[top'[f][2]] = [weights |-> top'[f], text |-> top'[f]]
                             /\ top'[f][2] < epoch \/ consumer' \in Chosen \cup {"ended"}
      BY DEF Stamped
    <2>1. top'[f] = top[f]
      BY CutEffect
    <2>2. ASSUME top[f][1] = run
          PROVE  kept'[top[f][2]] = kept[top[f][2]]
      <3>1. top[f] \in (1 .. MaxRuns) \X EpochNumbers
        BY <1>2, <2>1 DEF Files, Written
      <3>2. top[f][2] \in EpochNumbers
        BY <3>1
      <3>3. top[f][2] < epoch \/ consumer \in Chosen \cup {"ended"}
        BY <2>1, <2>2 DEF IInv, Stamped
      <3> QED
        <4>1. ASSUME epoch = top[f][2] PROVE consumer \notin {"weights", "text"}
          <5>1. ~ top[f][2] < epoch
            BY <1>7, <4>1
          <5> QED
            BY <3>3, <5>1 DEF Chosen
        <4> QED
          BY <1>6, <3>2, <4>1
    <2> QED
      BY <2>1, <2>2 DEF IInv, Stamped
  <1>8. Untouched'
    BY CutEffect DEF IInv, Untouched
  <1>5. KeptIsReported'
    <2> SUFFICES ASSUME NEW e \in EpochNumbers, NEW f \in {"weights", "text"},
                        kept'[e][f] \notin {None, Torn}
                 PROVE  \E i \in 1 .. Len(metrics') : metrics'[i] = kept'[e][f]
      BY DEF KeptIsReported
    <2>1. kept'[e][f] = kept[e][f]
      BY CutEffect
    <2>2. PICK i \in 1 .. Len(metrics) : metrics[i] = kept[e][f]
      BY <2>1 DEF IInv, Logged, KeptIsReported
    <2>3. metrics'[i] = metrics[i]
      BY <2>2, CutEffect
    <2>4. Len(metrics) \in Nat /\ Len(metrics') \in Nat /\ Len(metrics') >= Len(metrics)
      BY CutEffect, LenProperties DEF IInv, Typed, OnDisk
    <2>5. i \in 1 .. Len(metrics')
      BY <2>4
    <2> QED
      BY <2>1, <2>2, <2>3, <2>5
  <1> QED
    BY <1>1, <1>3, <1>4, <1>5, <1>8
-----------------------------------------------------------------------------
(* The ends. *)

\* A channel closed holds nothing.
LEMMA NothingQueued == <<>> \in Seq((0 .. Total - 1) \cup {Failed}) /\ Len(<<>>) <= Capacity
  BY Counts DEF Capacity

\* An error ends the run's own thread: the channel closes, the rest stays.
LEMMA ErrorKeeps ==
  ASSUME IInv, Ends("error"), Cut, UNCHANGED <<run, recipe, status, sending, counters, choice>>
  PROVE  IInv'
  <1>t. Threads
    BY DEF IInv, Typed
  <1>g. Epochs' = Epochs /\ Total' = Total /\ StopAt' = StopAt
    BY SameRecipe
  <1> USE <1>t, <1>g
  <1>1. OnDisk' /\ Stamped' /\ Untouched' /\ KeptIsReported' /\ Whole'
    BY CutKeeps DEF Ends, counters, choice
  <1>2. Threads'
    BY DEF IInv, Typed, Threads, Ends, Places, sending
  <1>3. Sending'
    BY NothingQueued DEF IInv, Typed, Sending, Ends, sending
  <1>7. Channel'
    BY DEF IInv, Channel, Ends, sending
  <1>4. Counting' /\ Choosing' /\ SeedFixesBatches'
    BY DEF IInv, Typed, Counting, Choosing, SeedFixesBatches, counters, choice
  <1>5. Counted' /\ Compared'
    BY DEF IInv, Ends, Counted, Compared, Scored, Chosen, counters
  <1>6. Logged' /\ EndedWell'
    BY <1>1 DEF Logged, Reported, Scored, EndedWell, Ends
  <1> QED
    BY <1>1, <1>2, <1>3, <1>4, <1>5, <1>6, <1>7 DEF IInv, Typed

\* Opening, validating or writing fails.
LEMMA FailsKeeps == IInv /\ Fails => IInv'
  BY ErrorKeeps DEF Fails

\* The producer has stopped and left nothing.
LEMMA StoppedKeeps == IInv /\ Stopped => IInv'
  BY ErrorKeeps, NothingCut DEF Stopped, At

\* The scope ends: what the run kept stays as it is.
LEMMA JoinKeeps == IInv /\ Join => IInv'
  <1> SUFFICES ASSUME IInv, Join PROVE IInv'
    OBVIOUS
  <1>t. Threads
    BY DEF IInv, Typed
  <1>g. Epochs' = Epochs /\ Total' = Total /\ StopAt' = StopAt
    BY SameRecipe DEF Join
  <1> USE <1>t, <1>g
  <1>1. Threads'
    BY DEF IInv, Typed, Threads, Join, sending
  <1>2. Sending' /\ Channel'
    BY DEF IInv, Typed, Sending, Channel, Join, sending, counters
  <1>3. Counting' /\ Choosing' /\ OnDisk' /\ SeedFixesBatches' /\ Counted'
    BY DEF IInv, Typed, Counting, Choosing, OnDisk, SeedFixesBatches, Counted, Join, counters, choice, disk
  <1>4. Compared'
    BY DEF IInv, Compared, BestOf, Join, counters, choice
  <1>5. Whole' /\ Stamped' /\ Untouched' /\ Logged'
    BY DEF IInv, Whole, Stamped, Untouched, Logged, KeptIsReported, Both, Join, counters, choice, disk
  <1>6. EndedWell'
    <2>1. consumer' = "ended" /\ (outcome' = "ok" => outcome = "ok")
      BY DEF Join
    <2> QED
      BY <2>1 DEF IInv, EndedWell, BestOf, Both, Join, counters, choice, disk
  <1> QED
    BY <1>1, <1>2, <1>3, <1>4, <1>5, <1>6 DEF IInv, Typed

\* The process is killed at any place.
LEMMA KilledKeeps == IInv /\ Killed => IInv'
  <1> SUFFICES ASSUME IInv, Killed PROVE IInv'
    OBVIOUS
  <1>t. Threads
    BY DEF IInv, Typed
  <1>g. Epochs' = Epochs /\ Total' = Total /\ StopAt' = StopAt
    BY SameRecipe DEF Killed
  <1> USE <1>t, <1>g
  <1>1. OnDisk' /\ Stamped' /\ Untouched' /\ KeptIsReported' /\ Whole'
    BY CutKeeps DEF Killed, counters, choice
  <1>2. Threads'
    BY DEF IInv, Typed, Threads, Killed, sending
  <1>3. Sending' /\ Channel'
    BY DEF IInv, Typed, Sending, Channel, Killed, sending, counters
  <1>4. Counting' /\ Choosing' /\ SeedFixesBatches' /\ Counted'
    BY DEF IInv, Typed, Counting, Choosing, SeedFixesBatches, Counted, Killed, counters, choice
  <1>5. Compared'
    BY DEF IInv, Compared, BestOf, Killed, counters, choice
  <1>6. Logged'
    <2>1. /\ Len(metrics) \in Nat /\ Len(metrics') \in Nat /\ Len(metrics') >= Len(metrics)
          /\ \A i \in 1 .. Len(metrics) : metrics'[i] = metrics[i]
      BY CutEffect, LenProperties DEF Killed, IInv, Typed, OnDisk
    <2>2. ASSUME consumer' \in Reported
          PROVE  \E i \in 1 .. Len(metrics') : metrics'[i] = <<run', epoch'>>
      <3>1. PICK i \in 1 .. Len(metrics) : metrics[i] = <<run, epoch>>
        BY <2>2 DEF IInv, Logged, Killed
      <3>2. i \in 1 .. Len(metrics') /\ metrics'[i] = <<run, epoch>>
        BY <2>1, <3>1
      <3> QED
        BY <3>2 DEF Killed, counters
    <2> QED
      BY <1>1, <2>2 DEF Logged
  <1>7. EndedWell'
    <2>1. outcome = "ok" => consumer = "ended"
      BY DEF IInv, EndedWell
    <2>2. consumer = "ended" => UNCHANGED disk
      BY CutEffect DEF Killed
    <2> QED
      BY <2>1, <2>2 DEF IInv, EndedWell, BestOf, Both, Killed, counters, choice, disk
  <1> QED
    BY <1>1, <1>2, <1>3, <1>4, <1>5, <1>6, <1>7 DEF IInv, Typed
-----------------------------------------------------------------------------
(* The steps of an epoch. *)

\* A step from one place to the next leaves the channel open.
LEMMA Going ==
  ASSUME IInv, status = "running", consumer # "ended",
         consumer' \in Places \ {"ended"},
         UNCHANGED <<run, recipe, status, sending, queue, open, outcome, step>>
  PROVE  Threads' /\ Sending' /\ Channel' /\ EndedWell'
  <1>t. Threads
    BY DEF IInv, Typed
  <1>g. Epochs' = Epochs /\ Total' = Total /\ StopAt' = StopAt
    BY SameRecipe
  <1> USE <1>t, <1>g
  <1>1. Threads'
    BY DEF IInv, Typed, Threads, sending
  <1>2. Sending'
    BY DEF IInv, Typed, Sending, sending
  <1>3. Channel'
    BY DEF IInv, Channel, sending
  <1>4. EndedWell'
    BY DEF IInv, EndedWell
  <1> QED
    BY <1>1, <1>2, <1>3, <1>4

\* Until the epoch is scored nothing is written.
LEMMA DiskApart ==
  ASSUME IInv, consumer \in {"open", "epoch", "recv"}, consumer' \in {"epoch", "recv", "report"},
         UNCHANGED <<run, recipe, epoch, bestEpoch, disk>>
  PROVE  OnDisk' /\ Whole' /\ Stamped' /\ Untouched' /\ Logged'
  <1>t. Threads
    BY DEF IInv, Typed
  <1>g. Epochs' = Epochs /\ Total' = Total /\ StopAt' = StopAt
    BY SameRecipe
  <1> USE <1>t, <1>g
  <1>1. OnDisk'
    BY DEF IInv, Typed, OnDisk, disk
  <1>2. Whole'
    BY DEF IInv, Whole, Chosen, Both, disk
  <1>3. Stamped' /\ Untouched'
    BY DEF IInv, Stamped, Untouched, Chosen, disk
  <1>4. Logged'
    BY DEF IInv, Logged, KeptIsReported, Reported, Scored, disk
  <1> QED
    BY <1>1, <1>2, <1>3, <1>4

\* The log is open.
LEMMA OpenKeeps == IInv /\ Open => IInv'
  <1> SUFFICES ASSUME IInv, Open PROVE IInv'
    OBVIOUS
  <1>t. Threads
    BY DEF IInv, Typed
  <1>g. Epochs' = Epochs /\ Total' = Total /\ StopAt' = StopAt
    BY SameRecipe DEF Open
  <1> USE <1>t, <1>g
  <1>1. Threads' /\ Sending' /\ Channel' /\ EndedWell'
    BY Going DEF Open, At, GoesTo, Places, counters
  <1>2. OnDisk' /\ Whole' /\ Stamped' /\ Untouched' /\ Logged'
    BY DiskApart DEF Open, At, GoesTo, counters, choice
  <1>3. Counting' /\ Choosing' /\ SeedFixesBatches'
    BY DEF IInv, Typed, Counting, Choosing, SeedFixesBatches, Open, counters, choice
  <1>4. Counted'
    BY EpochSteps, Counts DEF IInv, Counted, Open, At, GoesTo, counters, Scored
  <1>5. Compared'
    BY DEF IInv, Compared, BestOf, Open, At, GoesTo, counters, choice, Scored, Chosen
  <1> QED
    BY <1>1, <1>2, <1>3, <1>4, <1>5 DEF IInv, Typed

\* At the top of the loop the run is over, all its steps taken, or an epoch begins.
LEMMA EpochKeeps == IInv /\ Epoch => IInv'
  <1> SUFFICES ASSUME IInv, Epoch PROVE IInv'
    OBVIOUS
  <1>t. Threads
    BY DEF IInv, Typed
  <1>g. Epochs' = Epochs /\ Total' = Total /\ StopAt' = StopAt
    BY SameRecipe DEF Epoch
  <1> USE <1>t, <1>g
  <1>1. /\ epoch \in 0 .. Epochs /\ epoch \in Nat /\ step \in Nat /\ step <= StopAt
        /\ step \in {epoch * PerEpoch, StopAt} /\ (epoch = 0 => step = 0)
        /\ consumer = "epoch" /\ status = "running"
    BY Counts DEF IInv, Typed, Counting, Counted, Epoch, At
  <1>2. Choosing'
    BY DEF IInv, Typed, Choosing, Epoch, choice
  <1>3. Counting' /\ SeedFixesBatches'
    BY Counts DEF IInv, Typed, Counting, SeedFixesBatches, Epoch
  <1>4. CASE epoch = Epochs \/ step >= StopAt
    <2>1. step = StopAt /\ (epoch = 0 <=> StopAt = 0)
      <3>1. step = StopAt
        <4>1. StopAt \in Nat /\ StopAt <= Total
          BY Counts
        <4>2. epoch = Epochs => epoch * PerEpoch = Total
          BY <1>1, EpochSteps
        <4> QED
          BY <1>1, <1>4, <4>1, <4>2
      <3>2. epoch > 0 => StopAt > 0
        BY DEF IInv, Counted
      <3> QED
        BY <1>1, <3>1, <3>2, Counts
    <2>2. Ends("ok")
      BY <1>4 DEF Epoch
    <2>3. OnDisk' /\ Stamped' /\ Untouched' /\ KeptIsReported' /\ Whole'
      BY CutKeeps, NothingCut, <2>2 DEF Ends, Epoch, choice
    <2>4. Threads'
      BY <2>2 DEF IInv, Typed, Threads, Ends, Epoch, Places, sending
    <2>5. Sending'
      BY <2>2, NothingQueued DEF IInv, Typed, Sending, Ends, Epoch, sending
    <2>6. Channel'
      BY <2>2 DEF IInv, Channel, Ends, Epoch, sending
    <2>7. Counted' /\ Compared'
      BY <2>2 DEF IInv, Ends, Counted, Compared, Scored, Chosen, Epoch
    <2>8. EndedWell'
      <3>1. /\ \A e \in 0 .. epoch - 1 : kept[e] = Both(e)
            /\ (bestEpoch # Minus => top = Both(bestEpoch)) /\ BestOf(epoch)
        BY <1>1, <2>1 DEF IInv, Whole, Compared, Scored, Chosen
      <3> QED
        BY <2>1, <2>2, <3>1 DEF EndedWell, BestOf, Both, Ends, Epoch, choice, disk
    <2>9. Logged'
      BY <2>2, <2>3 DEF Logged, Reported, Scored, Ends
    <2> QED
      BY <1>2, <1>3, <2>3, <2>4, <2>5, <2>6, <2>7, <2>8, <2>9 DEF IInv, Typed
  <1>5. CASE ~(epoch = Epochs \/ step >= StopAt)
    <2>1. GoesTo("recv") /\ taken' = 0
      BY <1>5 DEF Epoch
    <2>2. Threads' /\ Sending' /\ Channel' /\ EndedWell'
      BY <1>1, <2>1, Going DEF Epoch, GoesTo, Places
    <2>3. OnDisk' /\ Whole' /\ Stamped' /\ Untouched' /\ Logged'
      BY <1>1, <2>1, DiskApart DEF Epoch, GoesTo, choice
    <2>4. Counted'
      <3>1. epoch < Epochs /\ step = epoch * PerEpoch /\ StopAt > 0
        BY <1>1, <1>5, Counts
      <3>2. epoch * PerEpoch + 0 = epoch * PerEpoch
        BY <1>1, EpochSteps, Counts
      <3> QED
        BY <2>1, <3>1, <3>2 DEF Counted, Epoch, GoesTo, Scored
    <2>5. Compared'
      BY <1>1, <2>1 DEF IInv, Compared, BestOf, Epoch, GoesTo, choice, Scored, Chosen
    <2> QED
      BY <1>2, <1>3, <2>2, <2>3, <2>4, <2>5 DEF IInv, Typed
  <1> QED
    BY <1>4, <1>5
\* A step is on the next batch of the seed's order.
LEMMA TrainKeeps == IInv /\ Train => IInv'
  <1> SUFFICES ASSUME IInv, Train PROVE IInv'
    OBVIOUS
  <1>t. Threads
    BY DEF IInv, Typed
  <1>g. Epochs' = Epochs /\ Total' = Total /\ StopAt' = StopAt
    BY SameRecipe DEF Train
  <1> USE <1>t, <1>g
  <1>1. /\ consumer = "recv" /\ status = "running" /\ queue # <<>> /\ open
        /\ queue \in Seq((0 .. Total - 1) \cup {Failed})
    BY DEF IInv, Typed, Sending, Channel, Train, At
  <1>2. CASE Head(queue) = Failed
    <2>1. UNCHANGED disk /\ Ends("error") /\ UNCHANGED <<run, recipe, status, sending, counters, choice>>
      BY <1>2 DEF Train
    <2> QED
      BY <2>1, NothingCut, ErrorKeeps
  <1>3. CASE Head(queue) # Failed
    <2>1. /\ queue' = Tail(queue) /\ UNCHANGED <<open, outcome, consumer, run, recipe, status, sending>>
          /\ step' = step + 1 /\ taken' = taken + 1 /\ trained' = Append(trained, Head(queue))
          /\ UNCHANGED <<epoch, choice, disk>>
      BY <1>3 DEF Train
    <2>2. /\ step \in Nat /\ step < StopAt /\ taken \in Nat /\ taken < PerEpoch
          /\ StopAt \in Nat /\ StopAt <= Total /\ PerEpoch \in Nat /\ Total \in Nat
          /\ epoch \in 0 .. Epochs
      BY Counts DEF IInv, Typed, Counting, Train, Wanted
    <2>3. /\ Len(queue) \in Nat /\ Len(queue) > 0 /\ Len(Tail(queue)) = Len(queue) - 1
          /\ Tail(queue) \in Seq((0 .. Total - 1) \cup {Failed}) /\ Head(queue) = queue[1]
          /\ \A i \in 1 .. Len(queue) - 1 : Tail(queue)[i] = queue[i + 1]
      BY <1>1, HeadTailProperties, LenProperties, EmptySeq
    <2>4. /\ made \in Nat /\ made = step + Len(queue)
          /\ \A i \in 1 .. Len(queue) : queue[i] \in {step + i - 1, Failed}
      BY <1>1, Counts DEF IInv, Channel, Typed, Sending
    <2>5. Head(queue) = step
      BY <1>3, <2>2, <2>3, <2>4
    <2>6. Threads'
      BY <2>1 DEF IInv, Typed, Threads, sending
    <2>7. Sending'
      BY <2>1, <2>3 DEF IInv, Typed, Sending, sending, Capacity
    <2>8. Channel'
      <3>1. made' = step' + Len(queue')
        BY <2>1, <2>2, <2>3, <2>4 DEF sending
      <3>2. ASSUME NEW i \in 1 .. Len(queue')
            PROVE  queue'[i] \in {step' + i - 1, Failed}
        <4>1. i + 1 \in 1 .. Len(queue) /\ queue'[i] = queue[i + 1]
          BY <2>1, <2>3
        <4>2. step' + i - 1 = step + (i + 1) - 1
          BY <2>1, <2>2, <2>3
        <4> QED
          BY <2>4, <4>1, <4>2
      <3> QED
        BY <2>1, <3>1, <3>2 DEF IInv, Channel, sending
    <2>9. /\ trained \in Seq(0 .. Total - 1) /\ Len(trained) = step
          /\ \A i \in 1 .. step : trained[i] = i - 1
      BY DEF IInv, Typed, Counting, SeedFixesBatches
    <2>10. /\ trained' \in Seq(0 .. Total - 1) /\ Len(trained') = step + 1
           /\ \A i \in 1 .. Len(trained') : trained'[i] = IF i = step + 1 THEN step ELSE trained[i]
      <3>1. step \in 0 .. Total - 1
        BY <2>2
      <3> QED
        BY <2>1, <2>5, <2>9, <3>1, AppendProperties
    <2>11. Counting'
      BY <2>1, <2>2, <2>10 DEF Counting
    <2>12. SeedFixesBatches'
      BY <2>1, <2>2, <2>9, <2>10 DEF SeedFixesBatches
    <2>13. Counted'
      <3>1. epoch < Epochs /\ step = epoch * PerEpoch + taken
        BY <1>1 DEF IInv, Counted
      <3>2. step + 1 = epoch * PerEpoch + (taken + 1)
        BY <2>2, <3>1, EpochSteps, Counts
      <3> QED
        BY <1>1, <2>1, <3>1, <3>2 DEF IInv, Counted, Scored
    <2>14. Choosing' /\ Compared'
      BY <1>1, <2>1 DEF IInv, Typed, Choosing, Compared, BestOf, choice
    <2>15. OnDisk' /\ Whole' /\ Stamped' /\ Untouched' /\ Logged'
      BY <1>1, <2>1, DiskApart DEF choice
    <2>16. EndedWell'
      BY <1>1, <2>1 DEF IInv, EndedWell
    <2> QED
      BY <2>6, <2>7, <2>8, <2>11, <2>12, <2>13, <2>14, <2>15, <2>16 DEF IInv, Typed
  <1> QED
    BY <1>2, <1>3

\* The epoch's score comes after those of the epochs before.
LEMMA ValidateKeeps == IInv /\ Validate => IInv'
  <1> SUFFICES ASSUME IInv, Validate PROVE IInv'
    OBVIOUS
  <1>t. Threads
    BY DEF IInv, Typed
  <1>g. Epochs' = Epochs /\ Total' = Total /\ StopAt' = StopAt
    BY SameRecipe DEF Validate
  <1> USE <1>t, <1>g
  <1>1. /\ consumer = "recv" /\ consumer' = "report" /\ status = "running"
        /\ UNCHANGED <<run, recipe, status, sending, queue, open, outcome>>
        /\ UNCHANGED <<step, epoch, taken, trained>>
        /\ UNCHANGED <<best, bestEpoch, disk>>
    BY DEF Validate, At, GoesTo, counters
  <1>2. Threads' /\ Sending' /\ Channel' /\ EndedWell'
    BY <1>1, Going DEF Places
  <1>3. OnDisk' /\ Whole' /\ Stamped' /\ Untouched' /\ Logged'
    BY <1>1, DiskApart
  <1>4. Counting' /\ SeedFixesBatches'
    BY <1>1 DEF IInv, Typed, Counting, SeedFixesBatches
  <1>5. /\ scores \in Seq(Scores \cup {NaN}) /\ Len(scores) = epoch /\ BestOf(epoch)
        /\ epoch \in Nat /\ epoch < Epochs /\ epoch \in 0 .. Epochs
        /\ mean' \in Scores \cup {NaN} /\ scores' = Append(scores, mean')
    BY <1>1, Counts DEF IInv, Typed, Counting, Counted, Choosing, Compared, Scored, Validate
  <1>6. /\ scores' \in Seq(Scores \cup {NaN}) /\ Len(scores') = epoch + 1 /\ scores'[epoch + 1] = mean'
        /\ \A i \in 1 .. epoch : scores'[i] = scores[i]
    BY <1>5, AppendProperties
  <1>7. Choosing'
    BY <1>1, <1>5, <1>6 DEF IInv, Typed, Choosing
  <1>8. Counted'
    <2>1. step = epoch * PerEpoch + taken /\ step \in 0 .. StopAt /\ taken \in 0 .. PerEpoch
      BY <1>1 DEF IInv, Typed, Counting, Counted
    <2>2. ~(taken < PerEpoch /\ step < StopAt)
      BY DEF Validate, Wanted
    <2>3. step \in {(epoch + 1) * PerEpoch, StopAt}
      <3>1. (epoch + 1) * PerEpoch = epoch * PerEpoch + PerEpoch /\ epoch * PerEpoch \in Nat
        BY <1>5, EpochSteps, Counts
      <3>2. PerEpoch \in Nat /\ StopAt \in Nat
        BY Counts
      <3>3. taken = PerEpoch \/ step = StopAt
        BY <2>1, <2>2, <3>2
      <3> QED
        BY <2>1, <3>1, <3>3
    <2> QED
      BY <1>1, <1>5, <2>3 DEF IInv, Counted, Scored
  <1>9. Compared'
    <2>1. \A e \in 0 .. epoch - 1 : e + 1 \in 1 .. epoch
      BY <1>5
    <2>2. BestOf(epoch)'
      BY <1>1, <1>5, <1>6, <2>1 DEF BestOf
    <2> QED
      BY <1>1, <1>6, <2>2 DEF Compared, Scored, Chosen
  <1> QED
    BY <1>2, <1>3, <1>4, <1>7, <1>8, <1>9 DEF IInv, Typed

-----------------------------------------------------------------------------
(* The files. *)

\* What a write of this run's epoch begins from.
LEMMA Writing ==
  ASSUME IInv, consumer \in Scored, status = "running"
  PROVE  /\ epoch \in EpochNumbers /\ epoch \in Nat /\ epoch < Epochs /\ Epochs \in Nat
         /\ run \in 1 .. MaxRuns /\ run \in Nat /\ <<run, epoch>> \in Written
         /\ metrics \in Seq(Written) /\ kept \in [EpochNumbers -> Files] /\ top \in Files
         /\ \A e \in 0 .. epoch - 1 : kept[e] = Both(e)
  <1>t. Threads
    BY DEF IInv, Typed
  <1> USE <1>t
  <1>1. epoch \in Nat /\ epoch < Epochs /\ Epochs \in Nat
    BY Counts DEF IInv, Typed, Counting, Counted
  <1>2. run \in 1 .. MaxRuns /\ run \in Nat
    BY Counts DEF IInv, Typed, Threads
  <1>3. metrics \in Seq(Written) /\ kept \in [EpochNumbers -> Files] /\ top \in Files
    BY DEF IInv, Typed, OnDisk
  <1>4. \A e \in 0 .. epoch - 1 : kept[e] = Both(e)
    BY DEF IInv, Whole, Scored
  <1>5. epoch \in EpochNumbers
    <2>1. epoch \in 0 .. Epochs - 1
      BY <1>1
    <2> QED
      BY <2>1, Counts
  <1> QED
    BY <1>1, <1>2, <1>3, <1>4, <1>5 DEF Written

\* A step that writes leaves the counts and the scores.
LEMMA NumbersApart ==
  ASSUME IInv, UNCHANGED <<recipe, step, epoch, taken, trained, choice>>,
         consumer \in Scored, consumer' \in Scored,
         consumer \in Chosen <=> consumer' \in Chosen
  PROVE  Counting' /\ Choosing' /\ SeedFixesBatches' /\ Counted' /\ Compared'
  <1>g. Epochs' = Epochs /\ Total' = Total /\ StopAt' = StopAt
    BY SameRecipe
  <1> USE <1>g
  <1>1. Counting' /\ Choosing' /\ SeedFixesBatches'
    BY DEF IInv, Typed, Counting, Choosing, SeedFixesBatches, choice
  <1>2. Counted'
    BY DEF IInv, Counted, Scored
  <1>3. Compared'
    BY DEF IInv, Compared, BestOf, Scored, Chosen, choice
  <1> QED
    BY <1>1, <1>2, <1>3

\* The report is a line of its own behind the earlier ones.
LEMMA ReportKeeps == IInv /\ Report => IInv'
  <1> SUFFICES ASSUME IInv, Report PROVE IInv'
    OBVIOUS
  <1>t. Threads
    BY DEF IInv, Typed
  <1>g. Epochs' = Epochs /\ Total' = Total /\ StopAt' = StopAt
    BY SameRecipe DEF Report
  <1> USE <1>t, <1>g
  <1>1. /\ consumer = "report" /\ consumer' = "weights" /\ status = "running"
        /\ UNCHANGED <<run, recipe, status, sending, queue, open, outcome>>
        /\ UNCHANGED <<step, epoch, taken, trained, choice>>
        /\ UNCHANGED <<kept, top>> /\ metrics' = Append(metrics, <<run, epoch>>)
    BY DEF Report, At, GoesTo, counters
  <1>2. Threads' /\ Sending' /\ Channel' /\ EndedWell'
    BY <1>1, Going DEF Places
  <1>3. Counting' /\ Choosing' /\ SeedFixesBatches' /\ Counted' /\ Compared'
    BY <1>1, NumbersApart DEF Scored, Chosen
  <1>4. <<run, epoch>> \in Written /\ metrics \in Seq(Written)
    BY <1>1, Writing DEF Scored
  <1>5. /\ metrics' \in Seq(Written) /\ Len(metrics') = Len(metrics) + 1 /\ Len(metrics) \in Nat
        /\ metrics'[Len(metrics) + 1] = <<run, epoch>>
        /\ \A i \in 1 .. Len(metrics) : metrics'[i] = metrics[i]
    BY <1>1, <1>4, AppendProperties, LenProperties
  <1>6. OnDisk'
    BY <1>1, <1>5 DEF IInv, Typed, OnDisk
  <1>7. Whole' /\ Stamped' /\ Untouched'
    BY <1>1 DEF IInv, Whole, Stamped, Untouched, Chosen, Both, choice
  <1>8. Logged'
    <2>1. ASSUME NEW e \in EpochNumbers, NEW f \in {"weights", "text"}, kept[e][f] \notin {None, Torn}
          PROVE  \E i \in 1 .. Len(metrics') : metrics'[i] = kept[e][f]
      <3>1. PICK i \in 1 .. Len(metrics) : metrics[i] = kept[e][f]
        BY <2>1 DEF IInv, Logged, KeptIsReported
      <3>2. i \in 1 .. Len(metrics') /\ metrics'[i] = kept[e][f]
        BY <1>5, <3>1
      <3> QED
        BY <3>2
    <2>2. Len(metrics) + 1 \in 1 .. Len(metrics')
      BY <1>5
    <2> QED
      BY <1>1, <1>5, <2>1, <2>2 DEF Logged, KeptIsReported
  <1> QED
    BY <1>2, <1>3, <1>6, <1>7, <1>8 DEF IInv, Typed
\* A file kept is of the epoch reported last, and the earlier epochs stay.
LEMMA KeepEffect ==
  ASSUME IInv, status = "running", consumer \in {"weights", "text"},
         NEW f \in {"weights", "text"},
         kept' = [kept EXCEPT ![epoch][f] = <<run, epoch>>],
         UNCHANGED <<run, recipe, metrics, top>>
  PROVE  /\ OnDisk' /\ KeptIsReported'
         /\ \A e \in EpochNumbers : e # epoch => kept'[e] = kept[e]
         /\ kept'[epoch] \in Files /\ kept'[epoch][f] = <<run, epoch>>
         /\ \A g \in {"weights", "text"} : g # f => kept'[epoch][g] = kept[epoch][g]
         /\ \A g \in {"weights", "text"} : top[g] \notin {None, Torn} =>
              /\ top[g][1] <= run
              /\ top[g][1] = run => /\ kept'[top[g][2]] = [weights |-> top[g], text |-> top[g]]
                                    /\ top[g][2] < epoch
  <1>t. Threads
    BY DEF IInv, Typed
  <1>g. Epochs' = Epochs /\ Total' = Total /\ StopAt' = StopAt
    BY SameRecipe
  <1> USE <1>t, <1>g
  <1>1. /\ epoch \in EpochNumbers /\ epoch \in Nat /\ run \in 1 .. MaxRuns
        /\ <<run, epoch>> \in Written /\ kept \in [EpochNumbers -> Files] /\ top \in Files
    BY Writing DEF Scored
  <1>2. /\ kept' \in [EpochNumbers -> Files] /\ kept'[epoch][f] = <<run, epoch>>
        /\ \A e \in EpochNumbers : e # epoch => kept'[e] = kept[e]
        /\ \A g \in {"weights", "text"} : g # f => kept'[epoch][g] = kept[epoch][g]
    <2>1. CASE f = "weights"
      BY <1>1, <2>1 DEF Files
    <2>2. CASE f = "text"
      BY <1>1, <2>2 DEF Files
    <2> QED
      BY <2>1, <2>2
  <1>3. OnDisk'
    BY <1>2 DEF IInv, Typed, OnDisk
  <1>4. ASSUME NEW e \in EpochNumbers, NEW g \in {"weights", "text"}, kept'[e][g] \notin {None, Torn}
        PROVE  \E i \in 1 .. Len(metrics) : metrics[i] = kept'[e][g]
    <2>1. CASE e = epoch /\ g = f
      BY <1>2, <2>1 DEF IInv, Logged, Reported, Scored
    <2>2. CASE ~(e = epoch /\ g = f)
      <3>1. kept'[e][g] = kept[e][g]
        BY <1>2, <2>2
      <3> QED
        BY <1>4, <3>1 DEF IInv, Logged, KeptIsReported
    <2> QED
      BY <2>1, <2>2
  <1>5. KeptIsReported'
    BY <1>4 DEF KeptIsReported
  <1>6. ASSUME NEW g \in {"weights", "text"}, top[g] \notin {None, Torn}
        PROVE  /\ top[g][1] <= run
               /\ top[g][1] = run => /\ kept'[top[g][2]] = [weights |-> top[g], text |-> top[g]]
                                     /\ top[g][2] < epoch
    <2>1. /\ top[g][1] <= run
          /\ top[g][1] = run => /\ kept[top[g][2]] = [weights |-> top[g], text |-> top[g]]
                                /\ top[g][2] < epoch
      BY <1>6 DEF IInv, Stamped, Chosen
    <2>2. top[g] \in (1 .. MaxRuns) \X EpochNumbers
      BY <1>1, <1>6 DEF Files, Written
    <2>3. top[g][2] \in EpochNumbers
      BY <2>2
    <2>4. top[g][2] < epoch => top[g][2] # epoch
      BY <1>1
    <2> QED
      BY <1>2, <2>1, <2>3, <2>4
  <1> QED
    BY <1>1, <1>2, <1>3, <1>5, <1>6

\* The epoch's weights are kept.
LEMMA KeepWeightsKeeps == IInv /\ KeepWeights => IInv'
  <1> SUFFICES ASSUME IInv, KeepWeights PROVE IInv'
    OBVIOUS
  <1>t. Threads
    BY DEF IInv, Typed
  <1>g. Epochs' = Epochs /\ Total' = Total /\ StopAt' = StopAt
    BY SameRecipe DEF KeepWeights
  <1> USE <1>t, <1>g
  <1>1. /\ consumer = "weights" /\ consumer' = "text" /\ status = "running"
        /\ UNCHANGED <<run, recipe, status, sending, queue, open, outcome>>
        /\ UNCHANGED <<step, epoch, taken, trained, choice>>
        /\ UNCHANGED <<metrics, top>>
        /\ kept' = [kept EXCEPT ![epoch]["weights"] = <<run, epoch>>]
    BY DEF KeepWeights, At, GoesTo, counters, EpochDir
  <1>2. Threads' /\ Sending' /\ Channel' /\ EndedWell'
    BY <1>1, Going DEF Places
  <1>3. Counting' /\ Choosing' /\ SeedFixesBatches' /\ Counted' /\ Compared'
    BY <1>1, NumbersApart DEF Scored, Chosen
  <1>4. /\ OnDisk' /\ KeptIsReported' /\ kept'[epoch].weights = <<run, epoch>>
        /\ \A e \in EpochNumbers : e # epoch => kept'[e] = kept[e]
    BY <1>1, KeepEffect
  <1>5. Stamped' /\ Untouched'
    BY <1>1, KeepEffect DEF IInv, Stamped, Untouched, choice
  <1>6. Whole'
    <2>1. \A e \in 0 .. epoch - 1 : kept'[e] = Both(e)
      BY <1>1, <1>4, Writing DEF Scored
    <2> QED
      BY <1>1, <1>4, <2>1 DEF IInv, Whole, Chosen, Both, choice
  <1>7. Logged'
    BY <1>1, <1>4 DEF IInv, Logged, Reported, Scored
  <1> QED
    BY <1>2, <1>3, <1>4, <1>5, <1>6, <1>7 DEF IInv, Typed

\* The epoch is whole, and becomes the best if none before it was as good.
LEMMA KeepTextKeeps == IInv /\ KeepText => IInv'
  <1> SUFFICES ASSUME IInv, KeepText PROVE IInv'
    OBVIOUS
  <1>t. Threads
    BY DEF IInv, Typed
  <1>g. Epochs' = Epochs /\ Total' = Total /\ StopAt' = StopAt
    BY SameRecipe DEF KeepText
  <1> USE <1>t, <1>g
  <1>1. /\ consumer = "text" /\ status = "running"
        /\ UNCHANGED <<run, recipe, status, sending, queue, open, outcome>>
        /\ UNCHANGED <<step, taken, trained, mean, scores>>
        /\ UNCHANGED <<metrics, top>>
        /\ kept' = [kept EXCEPT ![epoch]["text"] = <<run, epoch>>]
    BY DEF KeepText, At, GoesTo, EpochDir
  <1>2. /\ epoch \in EpochNumbers /\ epoch \in Nat /\ epoch < Epochs /\ Epochs \in Nat
        /\ \A e \in 0 .. epoch - 1 : kept[e] = Both(e)
    BY <1>1, Writing DEF Scored
  <1>3. /\ OnDisk' /\ KeptIsReported' /\ kept'[epoch] \in Files
        /\ kept'[epoch].weights = kept[epoch].weights /\ kept'[epoch].text = <<run, epoch>>
        /\ \A e \in EpochNumbers : e # epoch => kept'[e] = kept[e]
    BY <1>1, KeepEffect
  <1>4. kept'[epoch] = Both(epoch)
    <2>1. kept[epoch].weights = <<run, epoch>>
      BY <1>1 DEF IInv, Whole
    <2> QED
      BY <1>3, <2>1 DEF Both, Files
  <1>5. \A e \in 0 .. epoch : kept'[e] = Both(e)
    <2>1. ASSUME NEW e \in 0 .. epoch - 1 PROVE kept'[e] = kept[e]
      <3>1. e \in 0 .. Epochs - 1 /\ e # epoch
        BY <1>2
      <3> QED
        BY <1>3, <3>1, Counts
    <2> QED
      BY <1>2, <1>4, <2>1
  <1>6. /\ mean \in Nat \cup {NaN} /\ mean \in Scores \cup {NaN}
        /\ Len(scores) = epoch + 1 /\ scores[epoch + 1] = mean
        /\ BestOf(epoch) /\ best \in Nat \cup {Minus}
        /\ \A e \in 0 .. epoch : scores[e + 1] \in Nat \cup {NaN}
    <2>1. scores \in Seq(Scores \cup {NaN}) /\ Len(scores) = epoch + 1 /\ scores[epoch + 1] = mean
      BY <1>1 DEF IInv, Typed, Choosing, Compared, Scored
    <2>2. mean \in Scores \cup {NaN}
      BY <1>2, <2>1, ElementOfSeq
    <2>3. ASSUME NEW e \in 0 .. epoch PROVE scores[e + 1] \in Nat \cup {NaN}
      <3>1. e + 1 \in 1 .. Len(scores)
        BY <1>2, <2>1
      <3> QED
        <4>1. scores[e + 1] \in Scores \cup {NaN}
          BY <2>1, <3>1, ElementOfSeq
        <4> QED
          BY <4>1, Counts
    <2>4. BestOf(epoch)
      BY <1>1 DEF IInv, Compared, Scored, Chosen
    <2>5. best \in Nat \cup {Minus}
      BY Counts DEF IInv, Typed, Choosing
    <2> QED
      BY <2>1, <2>2, <2>3, <2>4, <2>5, Counts
  <1>7. SeedFixesBatches'
    BY <1>1 DEF IInv, SeedFixesBatches
  <1>8. /\ step \in {(epoch + 1) * PerEpoch, StopAt} /\ step \in 0 .. StopAt /\ taken \in 0 .. PerEpoch
        /\ trained \in Seq(0 .. Total - 1)
    BY <1>1 DEF IInv, Typed, Counting, Counted, Scored
  <1>9. CASE IsBest
    <2>1. /\ best' = mean /\ bestEpoch' = epoch /\ consumer' = "top weights" /\ UNCHANGED epoch
      BY <1>9 DEF KeepText, GoesTo
    <2>2. Threads' /\ Sending' /\ Channel' /\ EndedWell'
      BY <1>1, <2>1, Going DEF Places
    <2>3. Counting'
      BY <1>1, <2>1 DEF IInv, Typed, Counting
    <2>4. Choosing'
      <3>1. epoch \in Minus .. Epochs - 1
        BY <1>2 DEF Minus
      <3> QED
        BY <1>1, <1>6, <2>1, <3>1 DEF IInv, Typed, Choosing, NaN
    <2>5. Counted'
      BY <1>1, <1>2, <1>8, <2>1 DEF IInv, Counted, Scored
    <2>6. BestOf(epoch + 1)'
      <3>1. best < mean /\ mean \in Nat
        BY <1>6, <1>9 DEF IsBest, Minus, NaN
      <3>2. ASSUME NEW e \in 0 .. epoch - 1 PROVE scores[e + 1] < mean
        <4>1. scores[e + 1] <= best \/ scores[e + 1] = NaN
          BY <1>6 DEF BestOf
        <4>2. scores[e + 1] \in Nat \cup {NaN}
          BY <1>2, <1>6
        <4> QED
          BY <1>6, <3>1, <4>1, <4>2 DEF Minus, NaN
      <3>3. ASSUME NEW e \in 0 .. epoch
            PROVE  scores[e + 1] <= mean /\ (e < epoch => scores[e + 1] < mean)
        <4>1. CASE e = epoch
          BY <1>2, <1>6, <3>1, <4>1
        <4>2. CASE e # epoch
          <5>1. e \in 0 .. epoch - 1
            BY <1>2, <4>2
          <5>2. scores[e + 1] < mean /\ scores[e + 1] \in Nat \cup {NaN}
            BY <1>6, <3>2, <5>1
          <5> QED
            BY <3>1, <5>2 DEF NaN, Minus
        <4> QED
          BY <4>1, <4>2
      <3>4. epoch \in 0 .. (epoch + 1) - 1 /\ 0 .. (epoch + 1) - 1 = 0 .. epoch
        BY <1>2
      <3>5. /\ bestEpoch' = epoch /\ best' = mean /\ best' = scores'[bestEpoch' + 1] /\ best' # Minus
            /\ scores' = scores /\ epoch' = epoch
        <4>1. bestEpoch' = epoch /\ best' = mean /\ scores' = scores /\ epoch' = epoch
          BY <1>1, <2>1
        <4>2. mean # Minus
          BY <3>1 DEF Minus
        <4> QED
          BY <1>6, <4>1, <4>2
      <3> QED
        BY <3>3, <3>4, <3>5 DEF BestOf
    <2>7. Compared'
      BY <1>1, <1>6, <2>1, <2>6 DEF Compared, Scored, Chosen
    <2>8. Whole'
      <3>1. \A e \in 0 .. epoch - 1 : kept'[e] = Both(e)
        BY <1>2, <1>5
      <3> QED
        BY <1>1, <1>4, <2>1, <3>1 DEF Whole, Chosen, Both
    <2>9. Stamped' /\ Untouched'
      <3>1. /\ top' = top /\ run' = run /\ epoch' = epoch /\ bestEpoch' = epoch
            /\ \A g \in {"weights", "text"} : top[g] \notin {None, Torn} =>
                 /\ top[g][1] <= run
                 /\ top[g][1] = run => /\ kept'[top[g][2]] = [weights |-> top[g], text |-> top[g]]
                                       /\ top[g][2] < epoch
        BY <1>1, <2>1, KeepEffect
      <3>2. epoch # Minus
        BY <1>2 DEF Minus
      <3> QED
        BY <3>1, <3>2 DEF Stamped, Untouched
    <2>10. Logged'
      BY <1>1, <1>3, <2>1 DEF IInv, Logged, Reported, Scored
    <2> QED
      BY <1>3, <1>7, <2>2, <2>3, <2>4, <2>5, <2>7, <2>8, <2>9, <2>10 DEF IInv, Typed
  <1>10. CASE ~IsBest
    <2>1. UNCHANGED <<best, bestEpoch>> /\ consumer' = "epoch" /\ epoch' = epoch + 1
      BY <1>10 DEF KeepText, GoesTo
    <2>2. Threads' /\ Sending' /\ Channel' /\ EndedWell'
      BY <1>1, <2>1, Going DEF Places
    <2>3. Counting'
      BY <1>1, <1>2, <1>8, <2>1 DEF Counting
    <2>4. Choosing'
      BY <1>1, <2>1 DEF IInv, Typed, Choosing
    <2>5. Counted'
      BY <1>1, <1>2, <1>8, <2>1 DEF IInv, Counted, Scored
    <2>6. mean <= best \/ mean = NaN
      BY <1>6, <1>10 DEF IsBest, Minus, NaN
    <2>7. BestOf(epoch + 1)
      <3>4. 0 .. (epoch + 1) - 1 = 0 .. epoch
        BY <1>2
      <3>1. CASE /\ bestEpoch \in 0 .. epoch - 1 /\ best = scores[bestEpoch + 1] /\ best # Minus
                 /\ \A e \in 0 .. epoch - 1 : /\ scores[e + 1] <= best
                                              /\ e < bestEpoch => scores[e + 1] < best
        <4>1. best \in Nat /\ mean <= best
          BY <1>6, <2>6, <3>1 DEF Minus, NaN
        <4>2. \A e \in 0 .. epoch : /\ scores[e + 1] <= best
                                    /\ e < bestEpoch => scores[e + 1] < best
          BY <1>2, <1>6, <3>1, <4>1
        <4>3. bestEpoch \in 0 .. epoch
          BY <1>2, <3>1
        <4> QED
          BY <3>1, <3>4, <4>2, <4>3 DEF BestOf
      <3>2. CASE /\ bestEpoch = Minus /\ best = Minus
                 /\ \A e \in 0 .. epoch - 1 : scores[e + 1] = NaN
        <4>1. mean = NaN
          BY <1>6, <2>6, <3>2 DEF Minus, NaN
        <4>2. \A e \in 0 .. epoch : scores[e + 1] = NaN
          BY <1>2, <1>6, <3>2, <4>1
        <4> QED
          BY <3>2, <3>4, <4>2 DEF BestOf
      <3> QED
        BY <1>6, <3>1, <3>2 DEF BestOf
    <2>8. Compared'
      BY <1>1, <1>2, <1>6, <2>1, <2>7 DEF Compared, BestOf, Scored, Chosen
    <2>9. Whole'
      BY <1>1, <1>2, <1>5, <2>1 DEF IInv, Whole, Chosen, Both
    <2>10. Stamped'
      <3>1. ASSUME NEW g \in {"weights", "text"}, top[g] \notin {None, Torn}
            PROVE  /\ top[g][1] <= run
                   /\ top[g][1] = run => /\ kept'[top[g][2]] = [weights |-> top[g], text |-> top[g]]
                                         /\ top[g][2] < epoch + 1
        <4>1. /\ top[g][1] <= run
              /\ top[g][1] = run => /\ kept'[top[g][2]] = [weights |-> top[g], text |-> top[g]]
                                    /\ top[g][2] < epoch
          BY <1>1, <3>1, KeepEffect
        <4>2. top[g] \in (1 .. MaxRuns) \X EpochNumbers
          BY <1>1, <3>1, Writing DEF Scored, Files, Written
        <4>3. top[g][2] \in Nat
          BY <4>2, Counts
        <4> QED
          BY <1>2, <4>1, <4>3
      <3> QED
        BY <1>1, <2>1, <3>1 DEF Stamped
    <2>12. Untouched'
      BY <1>1, <2>1 DEF IInv, Untouched
    <2>11. Logged'
      BY <1>3, <2>1 DEF Logged, Reported, Scored
    <2> QED
      BY <1>3, <1>7, <2>2, <2>3, <2>4, <2>5, <2>8, <2>9, <2>10, <2>11, <2>12 DEF IInv, Typed
  <1> QED
    BY <1>9, <1>10
\* Copying an epoch to the top: the epoch is whole and of this run.
LEMMA TopWeightsKeeps == IInv /\ TopWeights => IInv'
  <1> SUFFICES ASSUME IInv, TopWeights PROVE IInv'
    OBVIOUS
  <1>t. Threads
    BY DEF IInv, Typed
  <1>g. Epochs' = Epochs /\ Total' = Total /\ StopAt' = StopAt
    BY SameRecipe DEF TopWeights
  <1> USE <1>t, <1>g
  <1>1. /\ consumer = "top weights" /\ consumer' = "top text" /\ status = "running"
        /\ UNCHANGED <<run, recipe, status, sending, queue, open, outcome>>
        /\ UNCHANGED <<step, epoch, taken, trained, choice>>
        /\ UNCHANGED <<metrics, kept>>
        /\ top' = [top EXCEPT !.weights = <<run, epoch>>]
    BY DEF TopWeights, At, GoesTo, counters
  <1>2. Threads' /\ Sending' /\ Channel' /\ EndedWell'
    BY <1>1, Going DEF Places
  <1>3. Counting' /\ Choosing' /\ SeedFixesBatches' /\ Counted' /\ Compared'
    BY <1>1, NumbersApart DEF Scored, Chosen
  <1>4. <<run, epoch>> \in Written /\ top \in Files /\ run \in Nat
    BY <1>1, Writing DEF Scored
  <1>5. top' \in Files /\ top'.weights = <<run, epoch>> /\ top'.text = top.text
    BY <1>1, <1>4 DEF Files
  <1>6. kept[epoch] = Both(epoch)
    BY <1>1 DEF IInv, Whole, Chosen
  <1>7. OnDisk'
    BY <1>1, <1>5 DEF IInv, Typed, OnDisk
  <1>8. Whole'
    BY <1>1, <1>5, <1>6 DEF IInv, Whole, Chosen, Both
  <1>9. Stamped'
    <2>1. ASSUME top'.weights \notin {None, Torn}
          PROVE  top'.weights[1] <= run /\ kept[top'.weights[2]] = Both(epoch)
      BY <1>4, <1>5, <1>6
    <2> QED
      BY <1>1, <1>5, <2>1 DEF IInv, Stamped, Chosen, Both
  <1>10. Logged'
    BY <1>1 DEF IInv, Logged, KeptIsReported, Reported, Scored
  <1>11. Untouched'
    <2>1. bestEpoch = epoch
      BY <1>1 DEF IInv, Compared, Chosen
    <2>2. epoch \in Nat
      BY Counts DEF IInv, Typed, Counting
    <2>3. bestEpoch' = epoch
      BY <1>1, <2>1 DEF choice
    <2>4. epoch # Minus
      BY <2>2 DEF Minus
    <2> QED
      BY <2>3, <2>4 DEF Untouched
  <1> QED
    BY <1>2, <1>3, <1>7, <1>8, <1>9, <1>10, <1>11 DEF IInv, Typed

\* The top is whole again, and the epoch over.
LEMMA TopTextKeeps == IInv /\ TopText => IInv'
  <1> SUFFICES ASSUME IInv, TopText PROVE IInv'
    OBVIOUS
  <1>t. Threads
    BY DEF IInv, Typed
  <1>g. Epochs' = Epochs /\ Total' = Total /\ StopAt' = StopAt
    BY SameRecipe DEF TopText
  <1> USE <1>t, <1>g
  <1>1. /\ consumer = "top text" /\ consumer' = "epoch" /\ status = "running"
        /\ UNCHANGED <<run, recipe, status, sending, queue, open, outcome>>
        /\ UNCHANGED <<step, taken, trained, choice>> /\ epoch' = epoch + 1
        /\ UNCHANGED <<metrics, kept>>
        /\ top' = [top EXCEPT !.text = <<run, epoch>>]
    BY DEF TopText, At, GoesTo
  <1>2. Threads' /\ Sending' /\ Channel' /\ EndedWell'
    BY <1>1, Going DEF Places
  <1>3. /\ epoch \in Nat /\ epoch < Epochs /\ Epochs \in Nat /\ run \in Nat
        /\ <<run, epoch>> \in Written /\ top \in Files /\ epoch \in EpochNumbers
        /\ \A e \in 0 .. epoch - 1 : kept[e] = Both(e)
    BY <1>1, Writing DEF Scored
  <1>13. /\ step \in {(epoch + 1) * PerEpoch, StopAt} /\ step \in 0 .. StopAt
         /\ taken \in 0 .. PerEpoch /\ trained \in Seq(0 .. Total - 1)
    BY <1>1 DEF IInv, Typed, Counting, Counted, Scored
  <1>4. /\ Len(scores) = epoch + 1 /\ BestOf(epoch + 1) /\ bestEpoch = epoch
        /\ kept[epoch] = Both(epoch) /\ top.weights = <<run, epoch>>
    BY <1>1 DEF IInv, Compared, Whole, Scored, Chosen
  <1>5. top' = Both(epoch)
    BY <1>1, <1>3, <1>4 DEF Both, Files
  <1>14. /\ epoch' = epoch + 1 /\ epoch + 1 \in 0 .. Epochs /\ epoch + 1 # 0
         /\ step' = step /\ taken' = taken /\ trained' = trained /\ consumer' = "epoch"
    <2>1. epoch + 1 \in 0 .. Epochs /\ epoch + 1 # 0
      BY <1>3
    <2> QED
      BY <1>1, <2>1
  <1>6. Counting' /\ Choosing' /\ SeedFixesBatches'
    <2>1. Counting'
      BY <1>13, <1>14 DEF Counting
    <2>2. Choosing' /\ SeedFixesBatches'
      BY <1>1 DEF IInv, Typed, Choosing, SeedFixesBatches, choice
    <2> QED
      BY <2>1, <2>2
  <1>7. Counted'
    <2>1. StopAt > 0
      BY <1>1 DEF IInv, Counted, Scored
    <2> QED
      BY <1>13, <1>14, <2>1 DEF Counted, Scored
  <1>8. Compared'
    BY <1>1, <1>3, <1>4 DEF Compared, BestOf, Scored, Chosen, choice
  <1>9. OnDisk'
    BY <1>1, <1>3, <1>5 DEF IInv, Typed, OnDisk, Both, Files
  <1>10. Whole'
    <2>1. \A e \in 0 .. (epoch + 1) - 1 : kept[e] = Both(e)
      BY <1>3, <1>4
    <2> QED
      BY <1>1, <1>4, <1>5, <2>1 DEF Whole, Chosen, Both, choice
  <1>11. Stamped'
    <2>1. ASSUME NEW f \in {"weights", "text"}
          PROVE  top'[f] = <<run, epoch>> /\ top'[f][1] <= run /\ top'[f][2] < epoch + 1
      BY <1>3, <1>5 DEF Both
    <2>2. \A f \in {"weights", "text"} : kept[top'[f][2]] = [weights |-> top'[f], text |-> top'[f]]
      BY <1>4, <2>1 DEF Both
    <2> QED
      BY <1>1, <2>1, <2>2 DEF Stamped
  <1>12. Logged'
    BY <1>1 DEF IInv, Logged, KeptIsReported, Reported, Scored
  <1>15. Untouched'
    <2>1. bestEpoch' = epoch
      BY <1>1, <1>4 DEF choice
    <2>2. epoch # Minus
      BY <1>3 DEF Minus
    <2> QED
      BY <2>1, <2>2 DEF Untouched
  <1> QED
    BY <1>2, <1>6, <1>7, <1>8, <1>9, <1>10, <1>11, <1>12, <1>15 DEF IInv, Typed

-----------------------------------------------------------------------------
(* The theorems. *)

\* A step that changes nothing.
LEMMA StutterKeeps == IInv /\ UNCHANGED vars => IInv'
  <1> SUFFICES ASSUME IInv, UNCHANGED vars PROVE IInv'
    OBVIOUS
  <1>t. Threads
    BY DEF IInv, Typed
  <1>g. Epochs' = Epochs /\ Total' = Total /\ StopAt' = StopAt
    BY SameRecipe DEF vars
  <1> USE <1>t, <1>g
  <1> USE DEF vars, IInv
  <1>1. Typed'
    BY DEF Typed, Threads, Sending, Counting, Choosing, OnDisk
  <1>2. Channel' /\ SeedFixesBatches' /\ Counted' /\ Compared'
    BY DEF Channel, SeedFixesBatches, Counted, Compared, BestOf
  <1>3. Whole' /\ Stamped' /\ Untouched' /\ Logged' /\ EndedWell'
    BY DEF Whole, Stamped, Untouched, Logged, KeptIsReported, EndedWell, BestOf, Both
  <1> QED
    BY <1>1, <1>2, <1>3

\* The invariant holds always, whatever fails, panics or is killed, and however
\* often the command is given again.
THEOREM Inductive == Spec => []IInv
  <1>1. Init => IInv
    BY InitKeeps
  <1>2. IInv /\ [Next]_vars => IInv'
    <2> SUFFICES ASSUME IInv, [Next]_vars PROVE IInv'
      OBVIOUS
    <2>1. CASE Begin
      BY <2>1, BeginKeeps
    <2>2. CASE Produce
      BY <2>2, MakeKeeps, SendKeeps, ProducerStops DEF Produce
    <2>3. CASE Panics
      BY <2>3, ProducerStops
    <2>4. CASE Consume
      BY <2>4, OpenKeeps, EpochKeeps, TrainKeeps, StoppedKeeps, ValidateKeeps, ReportKeeps,
         KeepWeightsKeeps, KeepTextKeeps, TopWeightsKeeps, TopTextKeeps DEF Consume
    <2>5. CASE Fails
      BY <2>5, FailsKeeps
    <2>6. CASE Join
      BY <2>6, JoinKeeps
    <2>7. CASE Killed
      BY <2>7, KilledKeeps
    <2>8. CASE UNCHANGED vars
      BY <2>8, StutterKeeps
    <2> QED
      BY <2>1, <2>2, <2>3, <2>4, <2>5, <2>6, <2>7, <2>8 DEF Next
  <1> QED
    BY <1>1, <1>2, PTL DEF Spec

\* Every variable keeps to its values: the channel never holds a third batch.
THEOREM TypeCorrect == Spec => []TypeOK
  <1>1. IInv => TypeOK
    BY TypedParts DEF IInv
  <1> QED
    BY <1>1, Inductive, PTL

\* The steps are on the seed's batches, in their order, whatever the pace of the
\* two threads.
THEOREM SeedDecides == Spec => []SeedFixesBatches
  <1>1. IInv => SeedFixesBatches
    BY DEF IInv
  <1> QED
    BY <1>1, Inductive, PTL

\* A run that returns Ok took all its steps and kept every epoch, the best of them
\* at the top too; where none is the best, it left the top alone.
THEOREM OkIsBest == Spec => []OkKeepsBest
  <1>1. IInv => OkKeepsBest
    <2> SUFFICES ASSUME IInv, status = "returned", outcome = "ok"
                 PROVE  /\ step = StopAt /\ (epoch = 0 <=> StopAt = 0)
                        /\ \A e \in 0 .. epoch - 1 : kept[e] = Both(e)
                        /\ \/ /\ bestEpoch \in 0 .. epoch - 1 /\ top = kept[bestEpoch]
                              /\ \A e \in 0 .. epoch - 1 :
                                   /\ scores[e + 1] <= scores[bestEpoch + 1]
                                   /\ e < bestEpoch => scores[e + 1] < scores[bestEpoch + 1]
                           \/ /\ bestEpoch = Minus /\ \A e \in 0 .. epoch - 1 : scores[e + 1] = NaN
                              /\ \A f \in {"weights", "text"} :
                                   top[f] \notin {None, Torn} => top[f][1] < run
      BY DEF OkKeepsBest, Both
    <2>1. /\ step = StopAt /\ (epoch = 0 <=> StopAt = 0) /\ BestOf(epoch)
          /\ bestEpoch # Minus => top = Both(bestEpoch)
          /\ \A e \in 0 .. epoch - 1 : kept[e] = Both(e)
          /\ Untouched
      BY DEF IInv, EndedWell
    <2>2. CASE bestEpoch = Minus
      <3>1. ~ (bestEpoch \in 0 .. epoch - 1)
        BY <2>2 DEF Minus
      <3> QED
        BY <2>1, <2>2, <3>1 DEF BestOf, Untouched
    <2>3. CASE bestEpoch # Minus
      BY <2>1, <2>3 DEF BestOf
    <2> QED
      BY <2>1, <2>2, <2>3
  <1> QED
    BY <1>1, Inductive, PTL

\* Weights or a description on the disk have their report in the log.
THEOREM ReportedFirst == Spec => []KeptIsReported
  <1>1. IInv => KeptIsReported
    BY DEF IInv, Logged
  <1> QED
    BY <1>1, Inductive, PTL

\* What this run put at the top is of an epoch it kept whole.
THEOREM TopWasKept == Spec => []TopIsKept
  <1>1. IInv => TopIsKept
    BY DEF IInv, Stamped, TopIsKept
  <1> QED
    BY <1>1, Inductive, PTL

-----------------------------------------------------------------------------
(* The invariant of the cache. *)

Numbers == 1 .. Splits

\* A split's files, whole, of build b and n frames.
ArrayOf(b, n) == [build |-> b, count |-> n, frames |-> Cache!Whole(b, n)]
RowsOf(b, n) == [build |-> b, count |-> n]
WholeSplit(s) == \E n \in Nat : npy[s] = ArrayOf(build, n) /\ jsonl[s] = RowsOf(build, n)

CacheTyped ==
  /\ build \in Nat /\ building \in {"idle", "running", "ok", "error", "killed"}
  /\ split \in Numbers /\ size \in Nat
  /\ laying \in {"lay", "header", "decode", "rows", "line"}
  /\ next \in Nat \ {0}
  /\ pc \in [Workers -> {"claim", "write", "done", "failed"}] /\ at \in [Workers -> Nat]
  /\ npy \in [Numbers -> {None} \cup Cache!Arrays]
  /\ jsonl \in [Numbers -> {None} \cup Cache!RowFiles]

\* No file is of a build to come; those the running build has yet to write are of
\* an earlier one.
Dated ==
  /\ \A s \in Numbers : /\ npy[s] # None => npy[s].build <= build
                        /\ jsonl[s] # None => jsonl[s].build <= build
  /\ building = "running" =>
       \A s \in Numbers :
         /\ s >= split /\ ~(s = split /\ laying = "line") /\ jsonl[s] # None => jsonl[s].build < build
         /\ s > split /\ npy[s] # None => npy[s].build < build

\* The splits the running build is done with, and all of a build that ended well.
Finished ==
  /\ building = "running" => \A s \in Numbers : s < split => WholeSplit(s)
  /\ building = "ok" => \A s \in Numbers : WholeSplit(s)

\* A frame is in the hand of a worker, and of one.
Claimed(i) == \E w \in Workers : pc[w] \in {"write", "failed"} /\ at[w] = i
OneEach ==
  \A w, v \in Workers :
    w # v /\ pc[w] \in {"write", "failed"} /\ pc[v] \in {"write", "failed"} => at[w] # at[v]

\* While the workers run, every frame below the counter is in the hand of one worker
\* or decoded, and no other is.
Decoding ==
  building = "running" /\ laying = "decode" =>
    /\ npy[split] # None /\ npy[split].build = build /\ npy[split].count = size
    /\ Len(npy[split].frames) = size
    /\ \A w \in Workers : /\ pc[w] \in {"write", "failed"} => at[w] \in 1 .. size /\ at[w] < next
                          /\ pc[w] = "done" => next > size
    /\ OneEach
    /\ \A i \in 1 .. size :
         npy[split].frames[i] = IF i < next /\ ~Claimed(i) THEN <<build, i>> ELSE Blank

\* Before them the array is laid out, after them it is whole.
LaidOut ==
  /\ building = "running" /\ laying = "header" => npy[split] # None /\ npy[split].build = build
  /\ building = "running" /\ laying \in {"rows", "line"} => npy[split] = ArrayOf(build, size)
  /\ building = "running" /\ laying = "line" =>
       jsonl[split] # None /\ jsonl[split].build = build /\ jsonl[split].count <= size

\* Rows are of the frames beside them, all decoded, or of an earlier build.
Follows(s) ==
  jsonl[s] # None =>
    /\ npy[s] # None /\ jsonl[s].build <= npy[s].build
    /\ jsonl[s].build = npy[s].build =>
         npy[s].count # None /\ npy[s].frames = Cache!Whole(npy[s].build, npy[s].count)

\* Of a build's frames those of one split, at most, wait for their rows.
Waiting(s) == npy[s] # None /\ (jsonl[s] # None => jsonl[s].build # npy[s].build)
OneWaits ==
  \A s, t \in Numbers : s # t /\ Waiting(s) /\ Waiting(t) => npy[s].build # npy[t].build

Followed == OneWaits /\ \A s \in Numbers : Follows(s)

CacheInv == CacheTyped /\ Dated /\ Finished /\ Decoding /\ LaidOut /\ Followed

-----------------------------------------------------------------------------
(* The invariant of the models. *)

ShiftTyped ==
  /\ calibrating \in {"idle", "load", "choose", "weights", "text", "ok", "error", "killed"}
  /\ calibrating \in {"load", "choose", "weights", "text"} => from \in Dirs /\ to \in Dirs
  /\ DOMAIN weights = Dirs /\ DOMAIN text = Dirs
  /\ weights = [d \in Dirs |-> weights[d]] /\ text = [d \in Dirs |-> text[d]]

\* What the command has in memory: without a shift when it is loaded, then with the
\* one chosen; but where the model it loaded was spoiled.
InMemory ==
  /\ calibrating = "choose" => from \in spoiled \/ bias = <<>>
  /\ calibrating \in {"weights", "text"} =>
       shift # None /\ (from \in spoiled \/ bias = <<shift>>)
  /\ calibrating = "text" =>
       weights[to] = bias /\ (to \notin spoiled => bias = <<shift>>)

ShiftInv == ShiftTyped /\ InMemory /\ DescribedUnlessCut
-----------------------------------------------------------------------------
(* The models. *)

\* At first there are none.
LEMMA ShiftInit == Shift!Init => ShiftInv
  BY DEF Shift!Init, ShiftInv, ShiftTyped, InMemory, DescribedUnlessCut, Shift!DescribedUnlessCut,
         Shift!Readable

\* A shift is a number, and no mark.
LEMMA Marks ==
  /\ \A x \in Shift!Grid : x # None
  /\ None \notin {Missing, Torn}
  <1>1. {Lo, Hi} \subseteq Nat /\ None \notin {Missing, Torn} \cup Nat
    BY CommandsAssumption DEF Shift!GridAssumption, Shift!MarkedAssumption
  <1>2. Shift!Grid \subseteq Nat
    BY <1>1 DEF Shift!Grid
  <1> QED
    BY <1>1, <1>2

\* Every step of a calibration, and every training run, keeps the invariant.
LEMMA ShiftKeeps ==
  ASSUME ShiftInv, Shift!Next
  PROVE  ShiftInv'
  <1> USE DEF ShiftInv, DescribedUnlessCut, Shift!DescribedUnlessCut, Shift!Readable
  <1>1. CASE \E d \in Dirs : Shift!Train(d)
    <2>1. PICK d \in Dirs : Shift!Train(d)
      BY <1>1
    <2>2. calibrating' = "idle" /\ ~(calibrating = "text")
      BY <2>1 DEF Shift!Train, Shift!Idle
    <2>3. \A e \in Dirs : e # d => weights'[e] = weights[e] /\ text'[e] = text[e] /\ (e \in spoiled' <=> e \in spoiled)
      BY <2>1 DEF Shift!Train, ShiftTyped
    <2>4. ShiftTyped'
      BY <2>1, <2>2 DEF Shift!Train, ShiftTyped
    <2>5. \/ weights'[d] = Torn
          \/ weights' = weights /\ text' = text /\ spoiled' = spoiled
          \/ d \in spoiled'
          \/ weights'[d] = <<>> /\ text'[d] \in {None, Torn}
      BY <2>1 DEF Shift!Train, ShiftTyped
    <2>6. DescribedUnlessCut'
      BY <2>2, <2>3, <2>5, Marks DEF Shift!Described
    <2> QED
      BY <2>2, <2>4, <2>6 DEF InMemory
  <1>2. CASE Shift!Begin
    <2>1. from' \in Dirs /\ to' \in Dirs /\ calibrating' = "load" /\ calibrating # "text"
          /\ UNCHANGED <<weights, text, spoiled>>
      BY <1>2 DEF Shift!Begin, Shift!Idle, Shift!disk
    <2> QED
      BY <2>1 DEF ShiftTyped, InMemory
  <1>3. CASE Shift!Load
    <2>1. UNCHANGED <<from, to, shift, weights, text, spoiled>> /\ calibrating = "load"
      BY <1>3 DEF Shift!Load, Shift!command, Shift!disk
    <2>2. CASE calibrating' = "error"
      BY <2>1, <2>2 DEF ShiftTyped, InMemory
    <2>3. CASE calibrating' = "choose" /\ text[from] = None /\ bias' = weights[from]
      <3>1. from \in spoiled \/ weights[from] = <<>>
        BY <1>3, <2>1, <2>3 DEF Shift!Load, ShiftTyped, Shift!Described
      <3> QED
        BY <2>1, <2>3, <3>1 DEF ShiftTyped, InMemory
    <2> QED
      BY <1>3, <2>2, <2>3 DEF Shift!Load, Shift!Refused
  <1>4. CASE Shift!Choose
    <2>1. /\ UNCHANGED <<from, to, weights, text, spoiled>> /\ calibrating = "choose" /\ calibrating' = "weights"
          /\ shift' # None /\ bias' = Append(bias, shift')
      BY <1>4, Marks DEF Shift!Choose, Shift!command, Shift!disk, Shift!Added
    <2>2. bias = <<>> => bias' = <<shift'>>
      BY <2>1
    <2> QED
      BY <2>1, <2>2 DEF ShiftTyped, InMemory
  <1>5. CASE Shift!WriteWeights
    <2>1. /\ UNCHANGED <<from, to, bias, shift, text>> /\ calibrating = "weights" /\ calibrating' = "text"
          /\ weights' = [weights EXCEPT ![to] = bias]
          /\ spoiled' = IF from \in spoiled THEN spoiled \cup {to} ELSE spoiled \ {to}
      BY <1>5 DEF Shift!WriteWeights, Shift!command, Shift!memory
    <2>2. from \in Dirs /\ to \in Dirs /\ weights'[to] = bias
      BY <2>1 DEF ShiftTyped
    <2>3. ShiftTyped'
      BY <2>1, <2>2 DEF ShiftTyped
    <2>4. InMemory'
      BY <2>1, <2>2 DEF InMemory
    <2>5. \A e \in Dirs : e # to => weights'[e] = weights[e] /\ (e \in spoiled' <=> e \in spoiled)
      BY <2>1 DEF ShiftTyped
    <2> QED
      BY <2>1, <2>3, <2>4, <2>5
  <1>6. CASE Shift!WriteText
    <2>1. /\ UNCHANGED <<from, to, bias, shift, weights, spoiled>> /\ calibrating = "text" /\ calibrating' = "ok"
          /\ text' = [text EXCEPT ![to] = shift]
      BY <1>6 DEF Shift!WriteText, Shift!command, Shift!memory
    <2>2. to \in Dirs /\ text'[to] = shift /\ shift # None
      BY <2>1 DEF ShiftTyped, InMemory
    <2>3. to \in spoiled \/ weights[to] = <<shift>>
      BY <2>1 DEF InMemory
    <2>4. ShiftTyped' /\ InMemory'
      BY <2>1, <2>2 DEF ShiftTyped, InMemory
    <2>5. \A e \in Dirs : e # to => text'[e] = text[e]
      BY <2>1 DEF ShiftTyped
    <2> QED
      BY <2>1, <2>2, <2>3, <2>4, <2>5 DEF Shift!Described
  <1>7. CASE Shift!Stops
    <2>1. /\ UNCHANGED <<from, to, bias, shift>> /\ calibrating' \in {"error", "killed"}
          /\ calibrating \in {"load", "choose", "weights", "text"}
          /\ \/ weights' = weights
             \/ calibrating = "weights" /\ weights' = [weights EXCEPT ![to] = Torn]
          /\ \/ text' = text
             \/ calibrating = "text" /\ text' = [text EXCEPT ![to] = Torn]
          /\ spoiled' = IF calibrating = "text" /\ text' = text THEN spoiled \cup {to} ELSE spoiled
      BY <1>7 DEF Shift!Stops, Shift!Idle, Shift!command, Shift!memory, ShiftTyped
    <2>2. ShiftTyped' /\ InMemory'
      BY <2>1 DEF ShiftTyped, InMemory
    <2>3. \A e \in Dirs : e # to => weights'[e] = weights[e] /\ text'[e] = text[e] /\ (e \in spoiled' <=> e \in spoiled)
      BY <2>1 DEF ShiftTyped
    <2>4. CASE calibrating = "text"
      <3>1. to \in Dirs /\ weights' = weights
        BY <2>1, <2>4 DEF ShiftTyped
      <3>2. to \in spoiled' \/ text'[to] = Torn
        BY <2>1, <2>4, <3>1 DEF ShiftTyped
      <3> QED
        BY <2>1, <2>2, <2>3, <3>1, <3>2
    <2>5. CASE calibrating # "text"
      <3>1. to \in Dirs /\ text' = text /\ spoiled' = spoiled
        BY <2>1, <2>5 DEF ShiftTyped
      <3>2. weights'[to] = weights[to] \/ weights'[to] = Torn
        BY <2>1, <3>1 DEF ShiftTyped
      <3> QED
        BY <2>1, <2>2, <2>3, <2>5, <3>1, <3>2
    <2> QED
      BY <2>4, <2>5
  <1> QED
    BY <1>1, <1>2, <1>3, <1>4, <1>5, <1>6, <1>7 DEF Shift!Next
-----------------------------------------------------------------------------
(* The files of a build. *)

\* What a frame may be.
Pictures == {Blank} \cup (Nat \X Nat)

\* An array or a split's rows on disk are never taken for a file not there.
LEMMA FilesAreThere ==
  /\ None \notin Cache!Arrays /\ None \notin Cache!RowFiles
  /\ None \notin Nat /\ Splits \in Nat \ {0} /\ Sizes \subseteq Nat /\ Workers # {}
  BY CommandsAssumption DEF Cache!SizesAssumption

\* A row of frames is a sequence as long as it was made.
LEMMA RowOfFrames ==
  ASSUME NEW n \in Nat, NEW f \in [1 .. n -> Pictures]
  PROVE  f \in Seq(Pictures) /\ Len(f) = n
  OBVIOUS

\* Two rows of frames are the same if their frames are.
LEMMA SameFrames ==
  ASSUME NEW n \in Nat, NEW f \in Seq(Pictures), NEW g \in Seq(Pictures), Len(f) = n, Len(g) = n,
         \A i \in 1 .. n : f[i] = g[i]
  PROVE  f = g
  BY SeqEqual

\* The whole array, and the blank one, of n frames.
LEMMA Filled ==
  ASSUME NEW b \in Nat, NEW n \in Nat
  PROVE  /\ Cache!Whole(b, n) \in Seq(Pictures) /\ Len(Cache!Whole(b, n)) = n
         /\ Cache!Blanks(n) \in Seq(Pictures) /\ Len(Cache!Blanks(n)) = n
         /\ ArrayOf(b, n) \in Cache!Arrays /\ RowsOf(b, n) \in Cache!RowFiles
  <1>1. Cache!Whole(b, n) \in [1 .. n -> Pictures]
    BY DEF Cache!Whole, Pictures
  <1>2. Cache!Blanks(n) \in [1 .. n -> Pictures]
    BY DEF Cache!Blanks, Pictures
  <1>3. Cache!Whole(b, n) \in Seq(Pictures)
    BY <1>1, RowOfFrames
  <1>4. ArrayOf(b, n) \in Cache!Arrays /\ RowsOf(b, n) \in Cache!RowFiles
    BY <1>3 DEF ArrayOf, RowsOf, Cache!Arrays, Cache!RowFiles, Pictures
  <1> QED
    BY <1>1, <1>2, <1>4, RowOfFrames

\* While a build runs no split but the one it is at has frames of it without rows.
LEMMA OthersWait ==
  ASSUME CacheInv, building = "running", NEW t \in Numbers, t # split, Waiting(t)
  PROVE  npy[t].build # build
  <1>1. split \in Nat /\ t \in Nat /\ build \in Nat /\ npy[t] \in Cache!Arrays
    BY FilesAreThere DEF CacheInv, CacheTyped, Numbers, Waiting
  <1>2. CASE t < split
    <2>1. PICK n \in Nat : npy[t] = ArrayOf(build, n) /\ jsonl[t] = RowsOf(build, n)
      BY <1>2 DEF CacheInv, Finished, WholeSplit
    <2>2. jsonl[t] # None
      BY <1>1, <2>1, Filled, FilesAreThere
    <2> QED
      BY <2>1, <2>2 DEF Waiting, ArrayOf, RowsOf
  <1>3. CASE t > split
    <2>1. npy[t].build < build
      BY <1>3 DEF CacheInv, Dated, Waiting
    <2> QED
      BY <1>1, <2>1 DEF Cache!Arrays
  <1> QED
    BY <1>1, <1>2, <1>3

\* Laying out or filling the array of a split whose rows are not begun leaves what
\* is said of the other splits, and of the rows.
LEMMA Laying ==
  ASSUME CacheInv, building = "running", laying # "line",
         NEW r \in Cache!Arrays, r.build = build,
         npy' = [npy EXCEPT ![split] = r],
         UNCHANGED <<build, split, jsonl>>, building' \in {"running", "error"}
  PROVE  /\ npy' \in [Numbers -> {None} \cup Cache!Arrays] /\ npy'[split] = r /\ r # None
         /\ jsonl' \in [Numbers -> {None} \cup Cache!RowFiles]
         /\ Dated' /\ Finished' /\ Followed'
  <1>1. /\ split \in Numbers /\ build \in Nat /\ npy \in [Numbers -> {None} \cup Cache!Arrays]
        /\ jsonl \in [Numbers -> {None} \cup Cache!RowFiles]
    BY DEF CacheInv, CacheTyped
  <1>2. /\ npy' \in [Numbers -> {None} \cup Cache!Arrays] /\ npy'[split] = r /\ r # None
        /\ \A s \in Numbers : s # split => npy'[s] = npy[s]
    BY <1>1, FilesAreThere
  <1>3. jsonl[split] # None => jsonl[split].build < build
    BY <1>1, FilesAreThere DEF CacheInv, Dated, Numbers
  <1>4. Dated'
    <2>1. \A s \in Numbers : npy'[s] # None => npy'[s].build <= build
      BY <1>1, <1>2 DEF CacheInv, Dated
    <2>2. \A s \in Numbers : s >= split /\ jsonl[s] # None => jsonl[s].build < build
      BY DEF CacheInv, Dated
    <2>3. \A s \in Numbers : s > split => s # split
      BY <1>1 DEF Numbers
    <2>4. \A s \in Numbers : s > split /\ npy'[s] # None => npy'[s].build < build
      BY <1>2, <2>3 DEF CacheInv, Dated
    <2> QED
      BY <2>1, <2>2, <2>4 DEF CacheInv, Dated
  <1>5. Finished'
    <2>1. ASSUME NEW s \in Numbers, s < split PROVE WholeSplit(s)'
      <3>1. s # split
        BY <1>1, <2>1, FilesAreThere DEF Numbers
      <3>2. WholeSplit(s)
        BY <2>1 DEF CacheInv, Finished
      <3> QED
        BY <1>2, <3>1, <3>2 DEF WholeSplit, ArrayOf, RowsOf, Cache!Whole
    <2> QED
      BY <2>1 DEF Finished
  <1>6. \A s \in Numbers : Follows(s)'
    <2>1. ASSUME NEW s \in Numbers, s = split PROVE Follows(s)'
      <3>1. jsonl[s] # None => jsonl[s] \in Cache!RowFiles /\ jsonl[s].build < npy'[s].build
        BY <1>1, <1>2, <1>3, <2>1
      <3>2. jsonl[s] # None => jsonl[s].build \in Nat
        BY <3>1 DEF Cache!RowFiles
      <3> QED
        BY <1>1, <1>2, <2>1, <3>1, <3>2 DEF Follows
    <2>2. ASSUME NEW s \in Numbers, s # split PROVE Follows(s)'
      BY <1>2, <2>2 DEF CacheInv, Followed, Follows, Cache!Whole
    <2> QED
      BY <2>1, <2>2
  <1>7. OneWaits'
    <2>1. ASSUME NEW s \in Numbers, NEW t \in Numbers, s # t, Waiting(s)', Waiting(t)'
          PROVE  npy'[s].build # npy'[t].build
      <3>1. \A u \in Numbers : u # split /\ Waiting(u)' => Waiting(u)
        BY <1>2 DEF Waiting
      <3>2. CASE s = split
        <4>1. Waiting(t) /\ t # split /\ npy'[t] = npy[t]
          BY <1>2, <2>1, <3>1, <3>2
        <4> QED
          BY <1>2, <3>2, <4>1, OthersWait
      <3>3. CASE t = split
        <4>1. Waiting(s) /\ s # split /\ npy'[s] = npy[s]
          BY <1>2, <2>1, <3>1, <3>3
        <4> QED
          BY <1>2, <3>3, <4>1, OthersWait
      <3>4. CASE s # split /\ t # split
        BY <1>2, <2>1, <3>1, <3>4 DEF CacheInv, Followed, OneWaits
      <3> QED
        BY <3>2, <3>3, <3>4
    <2> QED
      BY <2>1 DEF OneWaits
  <1>8. Followed'
    BY <1>6, <1>7 DEF Followed
  <1> QED
    BY <1>1, <1>2, <1>4, <1>5, <1>8

\* Before the first command no file is there.
LEMMA CacheInit == Cache!Init => CacheInv
  <1> SUFFICES ASSUME Cache!Init PROVE CacheInv
    OBVIOUS
  <1>1. CacheTyped
    BY FilesAreThere DEF Cache!Init, CacheTyped, Numbers
  <1>2. Dated /\ Finished /\ Decoding /\ LaidOut
    BY DEF Cache!Init, Dated, Finished, Decoding, LaidOut, Numbers
  <1>3. Followed
    BY DEF Cache!Init, Followed, Follows, OneWaits, Waiting, Numbers
  <1> QED
    BY <1>1, <1>2, <1>3 DEF CacheInv

\* What is said of frames and rows is said of the files alone.
LEMMA FilesStay ==
  ASSUME Followed, UNCHANGED <<npy, jsonl>>
  PROVE  Followed'
  BY DEF Followed, Follows, OneWaits, Waiting, Cache!Whole

\* A build begins over whatever files there are: all are of earlier ones.
LEMMA BeginBuildKeeps == CacheInv /\ Cache!Begin => CacheInv'
  <1> SUFFICES ASSUME CacheInv, Cache!Begin PROVE CacheInv'
    OBVIOUS
  <1>1. /\ build' = build + 1 /\ building' = "running" /\ split' = 1 /\ size' \in Sizes
        /\ laying' = "lay" /\ next' = 1 /\ npy' = npy /\ jsonl' = jsonl
        /\ pc' = [w \in Workers |-> "done"] /\ at' = [w \in Workers |-> 1]
    BY DEF Cache!Begin
  <1>2. CacheTyped'
    BY <1>1, FilesAreThere DEF CacheInv, CacheTyped, Numbers
  <1>3. Dated'
    <2>1. /\ build \in Nat
          /\ \A s \in Numbers : npy[s] # None => npy[s].build <= build /\ npy[s].build \in Nat
          /\ \A s \in Numbers : jsonl[s] # None => jsonl[s].build <= build /\ jsonl[s].build \in Nat
      BY DEF CacheInv, CacheTyped, Dated, Cache!Arrays, Cache!RowFiles
    <2> QED
      BY <1>1, <2>1 DEF Dated
  <1>4. Finished' /\ Decoding' /\ LaidOut'
    BY <1>1 DEF Finished, Decoding, LaidOut, Numbers
  <1>5. Followed'
    BY <1>1, FilesStay DEF CacheInv
  <1> QED
    BY <1>2, <1>3, <1>4, <1>5 DEF CacheInv

\* The array is created, empty.
LEMMA LayKeeps == CacheInv /\ Cache!Lay => CacheInv'
  <1> SUFFICES ASSUME CacheInv, Cache!Lay PROVE CacheInv'
    OBVIOUS
  <1> DEFINE r == [build |-> build, count |-> None, frames |-> <<>>]
  <1>1. /\ building = "running" /\ laying = "lay" /\ laying' = "header"
        /\ npy' = [npy EXCEPT ![split] = r]
        /\ UNCHANGED <<build, building, split, size, next, pc, at, jsonl>>
    BY DEF Cache!Lay, Cache!At, Cache!workers
  <1>2. r \in Cache!Arrays /\ r.build = build
    <2>1. build \in Nat
      BY DEF CacheInv, CacheTyped
    <2> QED
      BY <2>1 DEF Cache!Arrays
  <1> HIDE DEF r
  <1>3. /\ npy' \in [Numbers -> {None} \cup Cache!Arrays] /\ npy'[split] = r /\ r # None
        /\ Dated' /\ Finished' /\ Followed'
    BY <1>1, <1>2, Laying
  <1>4. CacheTyped'
    BY <1>1, <1>3 DEF CacheInv, CacheTyped
  <1>5. Decoding' /\ LaidOut'
    BY <1>1, <1>2, <1>3 DEF Decoding, LaidOut
  <1> QED
    BY <1>3, <1>4, <1>5 DEF CacheInv

\* The array has its length, and the workers start on it.
LEMMA HeaderKeeps == CacheInv /\ Cache!Header => CacheInv'
  <1> SUFFICES ASSUME CacheInv, Cache!Header PROVE CacheInv'
    OBVIOUS
  <1> DEFINE r == [build |-> build, count |-> size, frames |-> Cache!Blanks(size)]
  <1>1. /\ building = "running" /\ laying = "header" /\ laying' = "decode"
        /\ npy' = [npy EXCEPT ![split] = r] /\ next' = 1
        /\ pc' = [w \in Workers |-> "claim"]
        /\ UNCHANGED <<build, building, split, size, at, jsonl>>
    BY DEF Cache!Header, Cache!At
  <1>2. /\ build \in Nat /\ size \in Nat
        /\ Cache!Blanks(size) \in Seq(Pictures) /\ Len(Cache!Blanks(size)) = size
    BY Filled DEF CacheInv, CacheTyped
  <1>3. /\ r \in Cache!Arrays /\ r.build = build /\ r.count = size /\ Len(r.frames) = size
    BY <1>2 DEF Cache!Arrays, Pictures
  <1> HIDE DEF r
  <1>4. /\ npy' \in [Numbers -> {None} \cup Cache!Arrays] /\ npy'[split] = r /\ r # None
        /\ Dated' /\ Finished' /\ Followed'
    BY <1>1, <1>3, Laying
  <1>5. CacheTyped'
    BY <1>1, <1>4 DEF CacheInv, CacheTyped
  <1>6. \A i \in 1 .. size : r.frames[i] = Blank /\ ~(i < 1)
    BY <1>2 DEF r, Cache!Blanks
  <1>7. \A w \in Workers : pc'[w] = "claim"
    BY <1>1
  <1>8. Decoding'
    BY <1>1, <1>2, <1>3, <1>4, <1>6, <1>7 DEF Decoding, OneEach
  <1>9. LaidOut'
    BY <1>1 DEF LaidOut
  <1> QED
    BY <1>4, <1>5, <1>8, <1>9 DEF CacheInv
-----------------------------------------------------------------------------
(* The workers. *)

\* A worker's step that writes nothing leaves the files as they are.
LEMMA FilesApart ==
  ASSUME CacheInv, UNCHANGED <<build, building, split, size, laying, npy, jsonl>>
  PROVE  Dated' /\ Finished' /\ LaidOut' /\ Followed'
  <1>1. Dated' /\ LaidOut'
    BY DEF CacheInv, Dated, LaidOut, ArrayOf, Cache!Whole
  <1>2. Finished'
    BY DEF CacheInv, Finished, WholeSplit, ArrayOf, RowsOf, Cache!Whole
  <1>3. Followed'
    BY FilesStay DEF CacheInv
  <1> QED
    BY <1>1, <1>2, <1>3

\* What the workers find.
LEMMA AtWork ==
  ASSUME CacheInv, building = "running", laying = "decode"
  PROVE  /\ build \in Nat /\ size \in Nat /\ next \in Nat \ {0} /\ split \in Numbers
         /\ pc \in [Workers -> {"claim", "write", "done", "failed"}] /\ at \in [Workers -> Nat]
         /\ npy \in [Numbers -> {None} \cup Cache!Arrays]
         /\ npy[split] \in Cache!Arrays /\ npy[split].build = build /\ npy[split].count = size
         /\ npy[split].frames \in Seq(Pictures) /\ Len(npy[split].frames) = size
         /\ \A w \in Workers : /\ pc[w] \in {"write", "failed"} => at[w] \in 1 .. size /\ at[w] < next
                               /\ pc[w] = "done" => next > size
         /\ OneEach
         /\ \A i \in 1 .. size :
              npy[split].frames[i] = IF i < next /\ ~Claimed(i) THEN <<build, i>> ELSE Blank
  <1>1. npy[split] \in Cache!Arrays
    BY DEF CacheInv, CacheTyped, Decoding
  <1>2. npy[split].frames \in Seq(Pictures)
    BY <1>1 DEF Cache!Arrays, Pictures
  <1> QED
    BY <1>1, <1>2 DEF CacheInv, CacheTyped, Decoding

\* A frame claimed is the worker's own; past the last there is none.
LEMMA ClaimKeeps ==
  ASSUME CacheInv, NEW w \in Workers, Cache!Claim(w)
  PROVE  CacheInv'
  <1>1. /\ building = "running" /\ laying = "decode" /\ pc[w] = "claim" /\ next' = next + 1
        /\ UNCHANGED <<build, building, split, size, laying, npy, jsonl>>
    BY DEF Cache!Claim, Cache!Working, Cache!At, Cache!command
  <1>2. /\ size \in Nat /\ next \in Nat \ {0}
        /\ pc \in [Workers -> {"claim", "write", "done", "failed"}] /\ at \in [Workers -> Nat]
        /\ npy[split] # None /\ npy[split].build = build /\ npy[split].count = size
        /\ Len(npy[split].frames) = size
        /\ \A v \in Workers : /\ pc[v] \in {"write", "failed"} => at[v] \in 1 .. size /\ at[v] < next
                              /\ pc[v] = "done" => next > size
        /\ OneEach
        /\ \A i \in 1 .. size :
             npy[split].frames[i] = IF i < next /\ ~Claimed(i) THEN <<build, i>> ELSE Blank
    BY <1>1, AtWork DEF CacheInv, Decoding
  <1>3. /\ \A v \in Workers : v # w => pc'[v] = pc[v] /\ at'[v] = at[v]
        /\ pc' \in [Workers -> {"claim", "write", "done", "failed"}] /\ at' \in [Workers -> Nat]
        /\ \/ next <= size /\ at'[w] = next /\ pc'[w] = "write"
           \/ next > size /\ pc'[w] = "done"
    BY <1>2 DEF Cache!Claim
  <1>4. CacheTyped'
    BY <1>1, <1>2, <1>3 DEF CacheInv, CacheTyped
  <1>5. ASSUME NEW v \in Workers
        PROVE  /\ pc'[v] \in {"write", "failed"} => at'[v] \in 1 .. size /\ at'[v] < next + 1
               /\ pc'[v] = "done" => next + 1 > size
    <2>1. CASE v = w
      BY <1>2, <1>3, <2>1
    <2>2. CASE v # w
      BY <1>2, <1>3, <2>2
    <2> QED
      BY <2>1, <2>2
  <1>6. ASSUME NEW i \in 1 .. size
        PROVE  (i < next + 1 /\ ~Claimed(i)') <=> (i < next /\ ~Claimed(i))
    <2>1. i # next => (Claimed(i)' <=> Claimed(i))
      <3>1. pc[w] = "claim" /\ (pc'[w] = "write" => at'[w] = next)
            /\ pc'[w] \in {"write", "done"}
        BY <1>1, <1>3
      <3> QED
        BY <1>3, <3>1 DEF Claimed
    <2>2. i = next => Claimed(i)'
      BY <1>2, <1>3, <1>6 DEF Claimed
    <2>3. i # next => (i < next + 1 <=> i < next)
      BY <1>2
    <2> QED
      BY <1>2, <2>1, <2>2, <2>3
  <1>7. OneEach'
    <2>1. ASSUME NEW u \in Workers, NEW v \in Workers, u # v,
                 pc'[u] \in {"write", "failed"}, pc'[v] \in {"write", "failed"}
          PROVE  at'[u] # at'[v]
      <3>1. \A x \in Workers : x # w /\ pc'[x] \in {"write", "failed"} => at'[x] = at[x] /\ at[x] < next
        BY <1>2, <1>3
      <3>2. pc'[w] \in {"write", "failed"} => at'[w] = next
        BY <1>3
      <3>3. CASE u = w
        BY <1>2, <2>1, <3>1, <3>2, <3>3
      <3>4. CASE v = w
        BY <1>2, <2>1, <3>1, <3>2, <3>4
      <3>5. CASE u # w /\ v # w
        BY <1>2, <1>3, <2>1, <3>5 DEF OneEach
      <3> QED
        BY <3>3, <3>4, <3>5
    <2> QED
      BY <2>1 DEF OneEach
  <1>8. Decoding'
    BY <1>1, <1>2, <1>5, <1>6, <1>7 DEF Decoding
  <1> QED
    BY <1>1, <1>4, <1>8, FilesApart DEF CacheInv

\* The frame claimed is written, at its own place.
LEMMA WriteKeeps ==
  ASSUME CacheInv, NEW w \in Workers, Cache!Write(w)
  PROVE  CacheInv'
  <1> DEFINE f == [npy[split].frames EXCEPT ![at[w]] = <<build, at[w]>>]
             r == [npy[split] EXCEPT !.frames = f]
  <1>1. /\ building = "running" /\ laying = "decode" /\ pc[w] = "write"
        /\ UNCHANGED <<build, building, split, size, laying, next, at, jsonl>>
        /\ npy' = [npy EXCEPT ![split] = r] /\ pc' = [pc EXCEPT ![w] = "claim"]
    BY DEF Cache!Write, Cache!Working, Cache!At, Cache!command
  <1>2. /\ build \in Nat /\ size \in Nat /\ next \in Nat \ {0} /\ split \in Numbers
        /\ pc \in [Workers -> {"claim", "write", "done", "failed"}] /\ at \in [Workers -> Nat]
        /\ npy[split] \in Cache!Arrays /\ npy[split].build = build /\ npy[split].count = size
        /\ npy[split].frames \in Seq(Pictures) /\ Len(npy[split].frames) = size
        /\ at[w] \in 1 .. size /\ at[w] < next /\ OneEach
    BY <1>1, AtWork
  <1>3. <<build, at[w]>> \in Pictures
    BY <1>2 DEF Pictures
  <1>4. /\ f \in Seq(Pictures) /\ Len(f) = size
        /\ \A i \in 1 .. size : f[i] = IF i = at[w] THEN <<build, at[w]>> ELSE npy[split].frames[i]
    BY <1>2, <1>3, ExceptSeq
  <1> HIDE DEF f
  <1>5. r \in Cache!Arrays /\ r.build = build /\ r.count = size /\ r.frames = f
    BY <1>2, <1>4 DEF Cache!Arrays, Pictures
  <1> HIDE DEF r
  <1>6. /\ npy' \in [Numbers -> {None} \cup Cache!Arrays] /\ npy'[split] = r /\ r # None
        /\ Dated' /\ Finished' /\ Followed'
    BY <1>1, <1>5, Laying
  <1>7. CacheTyped'
    BY <1>1, <1>2, <1>6 DEF CacheInv, CacheTyped
  <1>8. \A v \in Workers : /\ pc'[v] \in {"write", "failed"} => pc[v] = pc'[v] /\ v # w
                           /\ pc'[v] = "done" => pc[v] = "done"
    BY <1>1, <1>2
  <1>9. ASSUME NEW i \in 1 .. size
        PROVE  f[i] = IF i < next /\ ~Claimed(i)' THEN <<build, i>> ELSE Blank
    <2>1. CASE i = at[w]
      <3>1. ~Claimed(i)'
        BY <1>1, <1>2, <1>8, <2>1 DEF Claimed, OneEach
      <3> QED
        BY <1>2, <1>4, <2>1, <3>1
    <2>2. CASE i # at[w]
      <3>1. Claimed(i)' <=> Claimed(i)
        <4>1. \A v \in Workers : v # w => pc'[v] = pc[v]
          BY <1>1, <1>2
        <4> QED
          BY <1>1, <1>8, <2>2, <4>1 DEF Claimed
      <3> QED
        BY <1>1, <1>4, <2>2, <3>1, AtWork
    <2> QED
      BY <2>1, <2>2
  <1>10. Decoding'
    <2>1. \A v \in Workers : /\ pc'[v] \in {"write", "failed"} => at[v] \in 1 .. size /\ at[v] < next
                             /\ pc'[v] = "done" => next > size
      BY <1>1, <1>8, AtWork
    <2>2. OneEach'
      BY <1>1, <1>2, <1>8 DEF OneEach
    <2> QED
      BY <1>1, <1>4, <1>5, <1>6, <1>9, <2>1, <2>2 DEF Decoding
  <1>11. LaidOut'
    BY <1>1 DEF LaidOut
  <1> QED
    BY <1>6, <1>7, <1>10, <1>11 DEF CacheInv

\* A frame that could not be decoded stays in the hand of the worker that failed.
LEMMA WriteFailsKeeps ==
  ASSUME CacheInv, NEW w \in Workers, Cache!WriteFails(w)
  PROVE  CacheInv'
  <1>1. /\ building = "running" /\ laying = "decode" /\ pc[w] = "write"
        /\ UNCHANGED <<build, building, split, size, laying, next, at, npy, jsonl>>
        /\ pc' = [pc EXCEPT ![w] = "failed"]
    BY DEF Cache!WriteFails, Cache!Working, Cache!At, Cache!command
  <1>2. pc \in [Workers -> {"claim", "write", "done", "failed"}]
    BY DEF CacheInv, CacheTyped
  <1>3. CacheTyped'
    BY <1>1, <1>2 DEF CacheInv, CacheTyped
  <1>4. /\ \A v \in Workers : /\ pc'[v] \in {"write", "failed"} <=> pc[v] \in {"write", "failed"}
                              /\ pc'[v] = "done" <=> pc[v] = "done"
        /\ \A i \in 1 .. size : Claimed(i)' <=> Claimed(i)
    BY <1>1, <1>2 DEF Claimed
  <1>5. Decoding'
    BY <1>1, <1>4 DEF CacheInv, Decoding, OneEach
  <1> QED
    BY <1>1, <1>3, <1>5, FilesApart DEF CacheInv

\* The workers joined, none having failed: the array is whole.
LEMMA JoinWorkersKeeps == CacheInv /\ Cache!Join => CacheInv'
  <1> SUFFICES ASSUME CacheInv, Cache!Join PROVE CacheInv'
    OBVIOUS
  <1>1. /\ building = "running" /\ laying = "decode"
        /\ \A w \in Workers : pc[w] \in {"done", "failed"}
        /\ UNCHANGED <<build, split, size, next, pc, at, npy, jsonl>>
    BY DEF Cache!Join, Cache!At, Cache!Ended, Cache!workers
  <1>2. CASE \E w \in Workers : pc[w] = "failed"
    <2>1. building' = "error" /\ UNCHANGED laying
      BY <1>2 DEF Cache!Join
    <2>2. CacheTyped' /\ Decoding' /\ LaidOut' /\ Dated' /\ Finished'
      BY <1>1, <2>1 DEF CacheInv, CacheTyped, Decoding, LaidOut, Dated, Finished
    <2>3. Followed'
      BY <1>1, FilesStay DEF CacheInv
    <2> QED
      BY <2>2, <2>3 DEF CacheInv
  <1>3. CASE ~\E w \in Workers : pc[w] = "failed"
    <2>1. laying' = "rows" /\ UNCHANGED building
      BY <1>3 DEF Cache!Join
    <2>2. /\ build \in Nat /\ size \in Nat /\ npy[split] \in Cache!Arrays
          /\ npy[split].build = build /\ npy[split].count = size
          /\ npy[split].frames \in Seq(Pictures) /\ Len(npy[split].frames) = size
          /\ next \in Nat
          /\ \A w \in Workers : pc[w] = "done" => next > size
          /\ \A i \in 1 .. size :
               npy[split].frames[i] = IF i < next /\ ~Claimed(i) THEN <<build, i>> ELSE Blank
      BY <1>1, AtWork
    <2>3. next > size /\ \A i \in 1 .. size : ~Claimed(i)
      BY <1>1, <1>3, <2>2, FilesAreThere DEF Claimed
    <2>4. npy[split].frames = Cache!Whole(build, size)
      <3>1. /\ Cache!Whole(build, size) \in Seq(Pictures) /\ Len(Cache!Whole(build, size)) = size
            /\ \A i \in 1 .. size : Cache!Whole(build, size)[i] = <<build, i>>
        BY <2>2, Filled DEF Cache!Whole
      <3>2. ASSUME NEW i \in 1 .. size PROVE npy[split].frames[i] = <<build, i>>
        <4>1. i < next /\ ~Claimed(i)
          BY <2>2, <2>3
        <4> QED
          BY <2>2, <4>1
      <3> QED
        <4>1. \A i \in 1 .. size : npy[split].frames[i] = Cache!Whole(build, size)[i]
          BY <3>1, <3>2
        <4> QED
          BY <2>2, <3>1, <4>1, SameFrames
    <2>5. npy[split] = ArrayOf(build, size)
      BY <2>2, <2>4 DEF ArrayOf, Cache!Arrays
    <2>6. CacheTyped' /\ Decoding' /\ Dated'
      BY <1>1, <2>1 DEF CacheInv, CacheTyped, Decoding, Dated
    <2>7. LaidOut'
      BY <1>1, <2>1, <2>5 DEF LaidOut, ArrayOf, Cache!Whole
    <2>8. Finished'
      BY <1>1, <2>1 DEF CacheInv, Finished, WholeSplit, ArrayOf, RowsOf, Cache!Whole
    <2>9. Followed'
      BY <1>1, FilesStay DEF CacheInv
    <2> QED
      BY <2>6, <2>7, <2>8, <2>9 DEF CacheInv
  <1> QED
    BY <1>2, <1>3
-----------------------------------------------------------------------------
(* The rows, and the ends. *)

\* Rows written beside their own frames, all decoded.
LEMMA RowsFollowed ==
  ASSUME CacheInv, npy' = npy, split \in Numbers, build \in Nat, size \in Nat,
         npy[split] = ArrayOf(build, size), jsonl'[split] # None, jsonl'[split].build = build,
         \A s \in Numbers : s # split => jsonl'[s] = jsonl[s]
  PROVE  Followed'
  <1>1. npy[split] # None /\ npy[split].build = build /\ npy[split].count = size
        /\ npy[split].frames = Cache!Whole(build, size) /\ size # None
    BY Filled, FilesAreThere DEF ArrayOf
  <1>2. ASSUME NEW s \in Numbers PROVE Follows(s)'
    <2>1. CASE s = split
      <3>1. /\ npy'[s] # None /\ npy'[s].build = build /\ npy'[s].count = size
            /\ npy'[s].frames = Cache!Whole(build, size) /\ jsonl'[s].build = build
        BY <1>1, <2>1
      <3> QED
        BY <1>1, <3>1 DEF Follows, Cache!Whole
    <2>2. CASE s # split
      BY <2>2 DEF CacheInv, Followed, Follows, Cache!Whole
    <2> QED
      BY <2>1, <2>2
  <1>3. \A s \in Numbers : Waiting(s)' => s # split /\ Waiting(s)
    BY <1>1 DEF Waiting
  <1>4. OneWaits'
    BY <1>3 DEF CacheInv, Followed, OneWaits
  <1> QED
    BY <1>2, <1>4 DEF Followed

\* The rows are begun once the array is whole.
LEMMA RowsKeeps == CacheInv /\ Cache!Rows => CacheInv'
  <1> SUFFICES ASSUME CacheInv, Cache!Rows PROVE CacheInv'
    OBVIOUS
  <1>1. /\ building = "running" /\ laying = "rows" /\ laying' = "line"
        /\ jsonl' = [jsonl EXCEPT ![split] = RowsOf(build, 0)]
        /\ UNCHANGED <<build, building, split, size, next, pc, at, npy>>
    BY DEF Cache!Rows, Cache!At, Cache!workers, RowsOf
  <1>2. /\ build \in Nat /\ split \in Numbers /\ size \in Nat /\ Splits \in Nat
        /\ jsonl \in [Numbers -> {None} \cup Cache!RowFiles] /\ npy[split] = ArrayOf(build, size)
    BY <1>1, FilesAreThere DEF CacheInv, CacheTyped, LaidOut
  <1>3. /\ jsonl' \in [Numbers -> {None} \cup Cache!RowFiles] /\ jsonl'[split] = RowsOf(build, 0)
        /\ jsonl'[split] # None
        /\ \A s \in Numbers : s # split => jsonl'[s] = jsonl[s]
    BY <1>1, <1>2, Filled, FilesAreThere
  <1>4. CacheTyped'
    BY <1>1, <1>3 DEF CacheInv, CacheTyped
  <1>5. Dated'
    <2>1. jsonl'[split].build = build
      BY <1>3 DEF RowsOf
    <2>2. \A s \in Numbers : jsonl'[s] # None => jsonl'[s].build <= build
      BY <1>2, <1>3, <2>1 DEF CacheInv, Dated
    <2>3. \A s \in Numbers : /\ s >= split /\ s # split /\ jsonl'[s] # None => jsonl'[s].build < build
                             /\ s > split /\ npy[s] # None => npy[s].build < build
      BY <1>1, <1>3 DEF CacheInv, Dated
    <2> QED
      BY <1>1, <2>2, <2>3 DEF CacheInv, Dated
  <1>6. Finished'
    <2>1. ASSUME NEW s \in Numbers, s < split PROVE WholeSplit(s)'
      <3>1. s # split
        BY <1>2, <2>1 DEF Numbers
      <3>2. WholeSplit(s)
        BY <1>1, <2>1 DEF CacheInv, Finished
      <3> QED
        BY <1>1, <1>3, <3>1, <3>2 DEF WholeSplit, ArrayOf, RowsOf, Cache!Whole
    <2> QED
      BY <1>1, <2>1 DEF Finished
  <1>7. LaidOut'
    BY <1>1, <1>2, <1>3 DEF LaidOut, ArrayOf, RowsOf, Cache!Whole
  <1>8. Followed'
    BY <1>1, <1>2, <1>3, RowsFollowed DEF RowsOf
  <1>9. Decoding'
    BY <1>1 DEF Decoding
  <1> QED
    BY <1>4, <1>5, <1>6, <1>7, <1>8, <1>9 DEF CacheInv

\* A split of which both files are whole.
LEMMA FinishedSplit ==
  ASSUME size \in Nat, npy' = npy, build' = build,
         npy[split] = ArrayOf(build, size), jsonl'[split] = RowsOf(build, size), NEW s \in Numbers, s = split
  PROVE  WholeSplit(s)'
  BY DEF WholeSplit, ArrayOf, RowsOf, Cache!Whole

\* Rows reach the file; with the last the split is whole, and with the last split
\* the build has ended well.
LEMMA LinesKeeps == CacheInv /\ Cache!Lines => CacheInv'
  <1> SUFFICES ASSUME CacheInv, Cache!Lines PROVE CacheInv'
    OBVIOUS
  <1>1. PICK n \in jsonl[split].count .. size :
          /\ jsonl' = [jsonl EXCEPT ![split].count = n]
          /\ IF n < size
             THEN UNCHANGED <<building, split, size, laying>>
             ELSE IF split = Splits
                  THEN building' = "ok" /\ UNCHANGED <<split, size, laying>>
                  ELSE /\ split' = split + 1 /\ size' \in Sizes /\ laying' = "lay"
                       /\ UNCHANGED building
    BY DEF Cache!Lines
  <1>2. /\ building = "running" /\ laying = "line"
        /\ UNCHANGED <<build, next, pc, at, npy>>
    BY DEF Cache!Lines, Cache!At, Cache!workers
  <1>3. /\ build \in Nat /\ split \in Numbers /\ size \in Nat /\ Splits \in Nat \ {0}
        /\ jsonl \in [Numbers -> {None} \cup Cache!RowFiles] /\ npy[split] = ArrayOf(build, size)
        /\ jsonl[split] \in Cache!RowFiles /\ jsonl[split].build = build /\ Sizes \subseteq Nat
    BY <1>2, FilesAreThere DEF CacheInv, CacheTyped, LaidOut
  <1>4. jsonl[split].count \in Nat /\ n \in Nat /\ n <= size
    BY <1>3 DEF Cache!RowFiles
  <1>5. [jsonl[split] EXCEPT !.count = n] = RowsOf(build, n) /\ RowsOf(build, n) \in Cache!RowFiles
    <2>1. RowsOf(build, n) \in Cache!RowFiles
      BY <1>3, <1>4, Filled
    <2>2. [jsonl[split] EXCEPT !.count = n] = [build |-> build, count |-> n]
      BY <1>3, <1>4 DEF Cache!RowFiles
    <2> QED
      BY <2>1, <2>2 DEF RowsOf
  <1>6. /\ jsonl' \in [Numbers -> {None} \cup Cache!RowFiles] /\ jsonl'[split] = RowsOf(build, n)
        /\ jsonl'[split] # None /\ jsonl'[split].build = build /\ jsonl'[split].count = n
        /\ \A s \in Numbers : s # split => jsonl'[s] = jsonl[s]
    <2>1. jsonl' = [jsonl EXCEPT ![split] = RowsOf(build, n)]
      BY <1>1, <1>5
    <2>2. RowsOf(build, n) # None
      BY <1>5, FilesAreThere
    <2> QED
      BY <1>3, <1>5, <2>1, <2>2 DEF RowsOf
  <1>7. \A s \in Numbers : jsonl'[s] # None => jsonl'[s].build <= build
    BY <1>3, <1>6 DEF CacheInv, Dated
  <1>8. \A s \in Numbers : /\ s >= split /\ s # split /\ jsonl'[s] # None => jsonl'[s].build < build
                           /\ s > split /\ npy[s] # None => npy[s].build < build
    BY <1>2, <1>6 DEF CacheInv, Dated
  <1>9. ASSUME NEW s \in Numbers, s < split PROVE WholeSplit(s)'
    <2>1. s # split
      BY <1>3, <1>9 DEF Numbers
    <2>2. WholeSplit(s)
      BY <1>2, <1>9 DEF CacheInv, Finished
    <2> QED
      BY <1>2, <1>6, <2>1, <2>2 DEF WholeSplit, ArrayOf, RowsOf, Cache!Whole
  <1>10. n = size => \A s \in Numbers : s = split => WholeSplit(s)'
    BY <1>2, <1>3, <1>6, FinishedSplit
  <1>11. Followed'
    BY <1>2, <1>3, <1>6, RowsFollowed
  <1>12. CASE n < size
    <2>1. UNCHANGED <<building, split, size, laying>>
      BY <1>1, <1>12
    <2>2. CacheTyped' /\ Decoding'
      BY <1>2, <1>6, <2>1 DEF CacheInv, CacheTyped, Decoding
    <2>3. Dated'
      BY <1>2, <1>7, <1>8, <2>1 DEF CacheInv, Dated
    <2>4. Finished'
      BY <1>2, <1>9, <2>1 DEF Finished
    <2>5. LaidOut'
      BY <1>2, <1>3, <1>6, <1>12, <2>1 DEF LaidOut, ArrayOf, Cache!Whole
    <2> QED
      BY <1>11, <2>2, <2>3, <2>4, <2>5 DEF CacheInv
  <1>13. CASE ~(n < size) /\ split = Splits
    <2>1. building' = "ok" /\ UNCHANGED <<split, size, laying>> /\ n = size
      BY <1>1, <1>3, <1>4, <1>13
    <2>2. CacheTyped' /\ Decoding' /\ LaidOut'
      BY <1>2, <1>6, <2>1 DEF CacheInv, CacheTyped, Decoding, LaidOut
    <2>3. Dated'
      BY <1>2, <1>7, <2>1 DEF CacheInv, Dated
    <2>4. \A s \in Numbers : s < split \/ s = split
      BY <1>3, <1>13 DEF Numbers
    <2>5. \A s \in Numbers : WholeSplit(s)'
      BY <1>9, <1>10, <2>1, <2>4
    <2>6. Finished'
      BY <2>1, <2>5 DEF Finished
    <2> QED
      BY <1>11, <2>2, <2>3, <2>6 DEF CacheInv
  <1>14. CASE ~(n < size) /\ split # Splits
    <2>1. /\ split' = split + 1 /\ size' \in Sizes /\ laying' = "lay" /\ UNCHANGED building
          /\ n = size
      BY <1>1, <1>3, <1>4, <1>14
    <2>2. split' \in Numbers /\ size' \in Nat
      BY <1>3, <1>14, <2>1 DEF Numbers
    <2>3. CacheTyped' /\ Decoding' /\ LaidOut'
      BY <1>2, <1>6, <2>1, <2>2 DEF CacheInv, CacheTyped, Decoding, LaidOut
    <2>4. \A s \in Numbers : /\ s >= split + 1 => s >= split /\ s # split
                             /\ s > split + 1 => s > split
                             /\ s < split + 1 => s < split \/ s = split
      BY <1>3 DEF Numbers
    <2>5. Dated'
      <3>1. \A s \in Numbers : /\ s >= split + 1 /\ jsonl'[s] # None => jsonl'[s].build < build
                               /\ s > split + 1 /\ npy[s] # None => npy[s].build < build
        BY <1>8, <2>4
      <3> QED
        BY <1>2, <1>7, <2>1, <3>1 DEF CacheInv, Dated
    <2>6. Finished'
      <3>1. \A s \in Numbers : s < split + 1 => WholeSplit(s)'
        BY <1>9, <1>10, <2>1, <2>4
      <3> QED
        BY <1>2, <2>1, <3>1 DEF Finished
    <2> QED
      BY <1>11, <2>3, <2>5, <2>6 DEF CacheInv
  <1> QED
    BY <1>12, <1>13, <1>14

\* A build that has failed or was killed says nothing of the files but what they
\* say themselves.
LEMMA HaltedKeeps ==
  ASSUME CacheInv, building' \in {"error", "killed"},
         UNCHANGED <<build, split, size, laying, next, pc, at, npy, jsonl>>
  PROVE  CacheInv'
  <1>1. CacheTyped' /\ Dated' /\ Finished' /\ Decoding' /\ LaidOut'
    BY DEF CacheInv, CacheTyped, Dated, Finished, Decoding, LaidOut
  <1>2. Followed'
    BY FilesStay DEF CacheInv
  <1> QED
    BY <1>1, <1>2 DEF CacheInv

\* A file operation fails, the header's perhaps halfway.
LEMMA BuildFailsKeeps == CacheInv /\ Cache!Fails => CacheInv'
  <1> SUFFICES ASSUME CacheInv, Cache!Fails PROVE CacheInv'
    OBVIOUS
  <1>1. /\ building = "running" /\ building' = "error"
        /\ UNCHANGED <<build, split, size, laying, next, pc, at, jsonl>>
        /\ \/ npy' = npy
           \/ laying = "header" /\ npy' = [npy EXCEPT ![split].count = size]
    BY DEF Cache!Fails, Cache!workers
  <1>2. CASE npy' = npy
    BY <1>1, <1>2, HaltedKeeps
  <1>3. CASE laying = "header" /\ npy' = [npy EXCEPT ![split].count = size]
    <2> DEFINE r == [npy[split] EXCEPT !.count = size]
    <2>1. npy[split] \in Cache!Arrays /\ npy[split].build = build /\ size \in Nat
      BY <1>1, <1>3 DEF CacheInv, CacheTyped, LaidOut
    <2>2. r \in Cache!Arrays /\ r.build = build /\ npy' = [npy EXCEPT ![split] = r]
      BY <1>3, <2>1 DEF Cache!Arrays
    <2> HIDE DEF r
    <2>3. npy' \in [Numbers -> {None} \cup Cache!Arrays] /\ Dated' /\ Finished' /\ Followed'
      BY <1>1, <1>3, <2>2, Laying
    <2>4. CacheTyped' /\ Decoding' /\ LaidOut'
      BY <1>1, <2>3 DEF CacheInv, CacheTyped, Decoding, LaidOut
    <2> QED
      BY <2>3, <2>4 DEF CacheInv
  <1> QED
    BY <1>1, <1>2, <1>3
-----------------------------------------------------------------------------
(* The theorems. *)

\* A command that is not the cache leaves the cache alone.
LEMMA CacheApart == CacheInv /\ UNCHANGED cacheVars => CacheInv'
  <1> SUFFICES ASSUME CacheInv, UNCHANGED cacheVars PROVE CacheInv'
    OBVIOUS
  <1> USE DEF cacheVars, CacheInv
  <1>1. CacheTyped' /\ Dated'
    BY DEF CacheTyped, Dated
  <1>2. UNCHANGED <<build, building, split, size, laying, npy, jsonl>>
    OBVIOUS
  <1>3. Decoding'
    BY DEF Decoding, Claimed, OneEach
  <1> QED
    BY <1>1, <1>2, <1>3, FilesApart

\* And one that is not calibrate the models it left.
LEMMA ShiftApart == ShiftInv /\ UNCHANGED calibrateVars => ShiftInv'
  BY DEF calibrateVars, ShiftInv, ShiftTyped, InMemory, DescribedUnlessCut, Shift!DescribedUnlessCut,
         Shift!Readable

\* Every step of a build keeps the cache's invariant.
LEMMA CacheKeeps == CacheInv /\ Cache!Next => CacheInv'
  <1> SUFFICES ASSUME CacheInv, Cache!Next PROVE CacheInv'
    OBVIOUS
  <1>1. CASE Cache!Begin
    BY <1>1, BeginBuildKeeps
  <1>2. CASE Cache!Killed
    BY <1>2, HaltedKeeps DEF Cache!Killed, Cache!workers
  <1>3. CASE Cache!Command
    BY <1>3, LayKeeps, HeaderKeeps, JoinWorkersKeeps, RowsKeeps, LinesKeeps, BuildFailsKeeps
    DEF Cache!Command
  <1>4. CASE \E w \in Workers : Cache!Work(w)
    BY <1>4, ClaimKeeps, WriteKeeps, WriteFailsKeeps DEF Cache!Work
  <1> QED
    BY <1>1, <1>2, <1>3, <1>4 DEF Cache!Next

\* The cache's invariant holds always, whatever order the workers run in, fails or
\* is killed, and however often the cache is built over an earlier one.
THEOREM CacheInductive == CommandSpec => []CacheInv
  <1>1. CommandInit => CacheInv
    BY CacheInit DEF CommandInit
  <1>2. CacheInv /\ [CommandNext]_<<command, vars, cacheVars, calibrateVars>> => CacheInv'
    <2> SUFFICES ASSUME CacheInv, [CommandNext]_<<command, vars, cacheVars, calibrateVars>>
                 PROVE  CacheInv'
      OBVIOUS
    <2>1. Cache!Next \/ UNCHANGED cacheVars
      BY DEF CommandNext
    <2> QED
      BY <2>1, CacheKeeps, CacheApart
  <1> QED
    BY <1>1, <1>2, PTL DEF CommandSpec

\* No frame is decoded twice, however the workers race for them.
THEOREM FramesDecodedOnce == CommandSpec => []DecodedOnce
  <1>1. CacheInv => DecodedOnce
    <2> SUFFICES ASSUME CacheInv, building = "running", laying = "decode",
                        NEW w \in Workers, pc[w] = "write"
                 PROVE  /\ npy[split].frames[at[w]] = Blank
                        /\ \A v \in Workers \ {w} : pc[v] = "write" => at[v] # at[w]
      BY DEF DecodedOnce, Cache!DecodedOnce, Cache!At
    <2>1. /\ at[w] \in 1 .. size /\ OneEach
          /\ \A i \in 1 .. size :
               npy[split].frames[i] = IF i < next /\ ~Claimed(i) THEN <<build, i>> ELSE Blank
      BY AtWork
    <2>2. Claimed(at[w])
      BY DEF Claimed
    <2> QED
      BY <2>1, <2>2 DEF OneEach
  <1> QED
    BY <1>1, CacheInductive, PTL

\* Rows on disk are of frames decoded or of an earlier build, and of a build cut
\* short the frames of one split at most are without theirs.
THEOREM RowsFollowFrames == CommandSpec => []RowsAfterFrames
  <1>1. CacheInv => RowsAfterFrames
    <2> SUFFICES ASSUME CacheInv, NEW s \in Numbers
                 PROVE  /\ jsonl[s] # None => npy[s] # None /\ jsonl[s].build <= npy[s].build
                        /\ Waiting(s) => \A t \in Numbers \ {s} : Waiting(t) => npy[t].build # npy[s].build
                        /\ jsonl[s] # None /\ ~Waiting(s) =>
                             npy[s].count # None /\ npy[s].frames = Cache!Whole(npy[s].build, npy[s].count)
      BY DEF RowsAfterFrames, Cache!RowsAfterFrames, Cache!Waits, Waiting, Numbers
    <2> QED
      BY DEF CacheInv, Followed, Follows, OneWaits, Waiting
  <1> QED
    BY <1>1, CacheInductive, PTL

\* A build that returns Ok leaves every split whole, its own, and open to reading.
THEOREM OkBuildIsWhole == CommandSpec => []OkIsWhole
  <1>1. CacheInv => OkIsWhole
    <2> SUFFICES ASSUME CacheInv, building = "ok", NEW s \in Numbers
                 PROVE  /\ Cache!Opens(s) /\ jsonl[s].build = build
                        /\ npy[s].frames = Cache!Whole(build, npy[s].count)
      BY DEF OkIsWhole, Cache!OkIsWhole, Numbers
    <2>1. PICK n \in Nat : npy[s] = ArrayOf(build, n) /\ jsonl[s] = RowsOf(build, n)
      BY DEF CacheInv, Finished, WholeSplit
    <2>2. build \in Nat
      BY DEF CacheInv, CacheTyped
    <2>3. npy[s] # None /\ jsonl[s] # None
      BY <2>1, <2>2, Filled, FilesAreThere
    <2> QED
      BY <2>1, <2>3, FilesAreThere DEF Cache!Opens, ArrayOf, RowsOf
  <1> QED
    BY <1>1, CacheInductive, PTL

\* The calibrations' invariant holds always, whatever was interrupted and given again,
\* from and into whatever directories.
THEOREM ShiftInductive == CommandSpec => []ShiftInv
  <1>1. CommandInit => ShiftInv
    BY ShiftInit DEF CommandInit
  <1>2. ShiftInv /\ [CommandNext]_<<command, vars, cacheVars, calibrateVars>> => ShiftInv'
    <2> SUFFICES ASSUME ShiftInv, [CommandNext]_<<command, vars, cacheVars, calibrateVars>>
                 PROVE  ShiftInv'
      OBVIOUS
    <2>1. Shift!Next \/ UNCHANGED calibrateVars
      BY DEF CommandNext
    <2> QED
      BY <2>1, ShiftKeeps, ShiftApart
  <1> QED
    BY <1>1, <1>2, PTL DEF CommandSpec

\* A model that can be loaded is shifted as its description says, but where a command
\* was cut short between the two files.
THEOREM ModelsAreDescribed == CommandSpec => []DescribedUnlessCut
  <1>1. ShiftInv => DescribedUnlessCut
    BY DEF ShiftInv
  <1> QED
    BY <1>1, ShiftInductive, PTL

\* Beside the other commands a training run does nothing it would not do alone.
LEMMA TrainsAlone == CommandSpec => Spec
  <1>1. CommandInit => Init
    BY DEF CommandInit
  <1>2. [CommandNext]_<<command, vars, cacheVars, calibrateVars>> => [Next]_vars
    BY DEF CommandNext
  <1> QED
    BY <1>1, <1>2, PTL DEF CommandSpec, Spec

\* So what is proved of a training run holds of it here.
THEOREM TrainingHolds ==
  CommandSpec => [](SeedFixesBatches /\ OkKeepsBest /\ KeptIsReported /\ TopIsKept)
  BY TrainsAlone, SeedDecides, OkIsBest, ReportedFirst, TopWasKept, PTL
=============================================================================
