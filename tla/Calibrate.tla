----------------------------- MODULE Calibrate ------------------------------
(***************************************************************************)
(* The calibrate command (dash-train calibrate.rs, fn calibrate): it loads  *)
(* a model (train.rs, fn load), refuses one whose description says it is    *)
(* calibrated, chooses a shift on the validation split, adds it to a head's *)
(* bias, and writes the weights and then the description to --out.          *)
(*                                                                         *)
(* Weights are the sequence of shifts added since training; a description   *)
(* is the shift it records, or None.  Both commands that write a model are   *)
(* given, to any directory, in any order, over whatever is there: training   *)
(* and calibration, which may fail or be killed anywhere, and be given again.*)
(***************************************************************************)
EXTENDS Integers, Sequences

CONSTANTS Dirs,         \* the directories a model may be in
          Lo, Hi,       \* the ends of the grid, in steps of it
          MaxCommands,  \* how often a command is given (a bound)
          None, Missing, Torn

\* What Commands assumes of them.
GridAssumption == {Lo, Hi} \subseteq Nat /\ Lo <= Hi /\ MaxCommands \in Nat \ {0}
MarkedAssumption == None \notin {Missing, Torn} \cup Nat

Grid == {Lo + i : i \in 0 .. Hi - Lo}

VARIABLES given, place, from, to,
          bias, shift,       \* the model in memory, the shift chosen
          weights, text,     \* model.safetensors and model.json of each directory
          spoiled            \* where a write was cut short between the two over a
                             \* description of other weights, and what was calibrated
                             \* out of such a directory (history)

vars == <<given, place, from, to, bias, shift, weights, text, spoiled>>
memory == <<bias, shift>>
command == <<given, from, to>>
disk == <<weights, text>>

Init ==
  /\ given = 0 /\ place = "idle" /\ from = None /\ to = None
  /\ bias = <<>> /\ shift = 0
  /\ weights = [d \in Dirs |-> Missing] /\ text = [d \in Dirs |-> Missing]
  /\ spoiled = {}

Idle == place \in {"idle", "ok", "error", "killed"}

\* A training run keeps a model in d, which says that it is not calibrated; it may
\* stop anywhere in the two files, what lay there before left as it was.
Train(d) ==
  /\ Idle /\ given < MaxCommands
  /\ given' = given + 1 /\ place' = "idle"
  /\ \/ /\ weights' \in {weights, [weights EXCEPT ![d] = Torn]}
        /\ UNCHANGED <<text, spoiled>>
     \/ /\ weights' = [weights EXCEPT ![d] = <<>>] /\ UNCHANGED text
        /\ spoiled' = spoiled \cup {d}
     \/ /\ weights' = [weights EXCEPT ![d] = <<>>]
        /\ text' \in {[text EXCEPT ![d] = None], [text EXCEPT ![d] = Torn]}
        /\ spoiled' = spoiled \ {d}
  /\ UNCHANGED <<from, to, memory>>

Begin ==
  /\ Idle /\ given < MaxCommands
  /\ given' = given + 1 /\ place' = "load"
  /\ from' \in Dirs /\ to' \in Dirs
  /\ UNCHANGED <<memory, disk, spoiled>>

Readable(d) == weights[d] \notin {Missing, Torn} /\ text[d] \notin {Missing, Torn}

\* Mutant: a model calibrated already is calibrated again.
RefusedNever(d) == FALSE
Refused(d) == text[d] # None

Load ==
  /\ place = "load" /\ Readable(from)
  /\ IF Refused(from)
     THEN place' = "error" /\ UNCHANGED bias
     ELSE place' = "choose" /\ bias' = weights[from]
  /\ UNCHANGED <<command, shift, disk, spoiled>>

\* Mutant: what is written is the model as it was loaded.
AddedNot(b, x) == b
Added(b, x) == Append(b, x)

\* The first best point of the grid, whichever that is; the bias takes it.
Choose ==
  /\ place = "choose"
  /\ shift' \in Grid
  /\ bias' = Added(bias, shift')
  /\ place' = "weights"
  /\ UNCHANGED <<command, disk, spoiled>>

WriteWeights ==
  /\ place = "weights"
  /\ weights' = [weights EXCEPT ![to] = bias]
  /\ place' = "text"
  /\ spoiled' = IF from \in spoiled THEN spoiled \cup {to} ELSE spoiled \ {to}
  /\ UNCHANGED <<command, memory, text>>

WriteText ==
  /\ place = "text"
  /\ text' = [text EXCEPT ![to] = shift]
  /\ place' = "ok"
  /\ UNCHANGED <<command, memory, weights, spoiled>>

\* A step fails, or the process is killed in it; a file being written may be torn.
Stops ==
  /\ ~Idle
  /\ place' \in {"error", "killed"}
  /\ weights' \in IF place = "weights" THEN {weights, [weights EXCEPT ![to] = Torn]} ELSE {weights}
  /\ text' \in IF place = "text" THEN {text, [text EXCEPT ![to] = Torn]} ELSE {text}
  /\ spoiled' = IF place = "text" /\ text' = text THEN spoiled \cup {to} ELSE spoiled
  /\ UNCHANGED <<command, memory>>

Next == (\E d \in Dirs : Train(d)) \/ Begin \/ Load \/ Choose \/ WriteWeights \/ WriteText \/ Stops
Spec == Init /\ [][Next]_vars

-----------------------------------------------------------------------------

Shifts == Lo .. Hi

\* Each variable has its values; a shift is none but a point from lo to hi.
TypeOK ==
  /\ given \in 0 .. MaxCommands /\ spoiled \subseteq Dirs
  /\ from \in Dirs \cup {None} /\ to \in Dirs \cup {None}
  /\ place \in {"idle", "load", "choose", "weights", "text", "ok", "error", "killed"}
  /\ bias \in Seq(Shifts) /\ shift \in Shifts \cup {0}
  /\ \A d \in Dirs : weights[d] \in {Missing, Torn} \cup Seq(Shifts)
  /\ \A d \in Dirs : text[d] \in {Missing, Torn, None} \cup Shifts

\* The weights a description says it is of.
Described(x) == IF x = None THEN <<>> ELSE <<x>>

\* "Refuses a model already calibrated: shifts add" (calibrate.rs): no weights carry
\* two shifts, whatever was interrupted and given again.
ShiftedOnce == \A d \in Dirs : weights[d] \notin {Missing, Torn} => Len(weights[d]) <= 1

\* The weights of a model that can be loaded carry just the shift its description
\* records, and so one at most; but where a training run or a calibration was cut
\* short between the two files over an older description, or the model was
\* calibrated out of such a one.
DescribedUnlessCut ==
  \A d \in Dirs \ spoiled :
    Readable(d) /\ ~(place = "text" /\ to = d) => weights[d] = Described(text[d])
=============================================================================
