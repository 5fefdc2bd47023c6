------------------------------- MODULE Commands -------------------------------
(***************************************************************************)
(* dash-train's command line (main.rs, fn main): one process runs one      *)
(* command.  A project's files are left by the three that write: cache     *)
(* (CacheBuild), train (TrainRun) and calibrate (Calibrate), each of which *)
(* may fail, be killed and be given again over what it left.  evaluate and *)
(* predict read a model and a cache and write nothing a command reads.     *)
(***************************************************************************)
EXTENDS TrainRun

CONSTANTS Splits, Workers, Sizes, MaxBuilds, Blank,            \* CacheBuild's
          Dirs, Lo, Hi, MaxCommands, Missing                      \* Calibrate's

VARIABLES command,                                             \* the one given
          build, building, split, size, laying, next, pc, at, npy, jsonl,
          given, calibrating, from, to, bias, shift, weights, text, spoiled

cacheVars == <<build, building, split, size, laying, next, pc, at, npy, jsonl>>
calibrateVars == <<given, calibrating, from, to, bias, shift, weights, text, spoiled>>

Cache == INSTANCE CacheBuild WITH status <- building, place <- laying
Shift == INSTANCE Calibrate WITH place <- calibrating

ASSUME CommandsAssumption ==
  /\ Cache!SizesAssumption
  /\ Shift!GridAssumption /\ Shift!MarkedAssumption

CommandInit ==
  /\ command \in {"cache", "train", "calibrate"}
  /\ Init /\ Cache!Init /\ Shift!Init

CommandNext ==
  /\ \/ command = "train" /\ Next /\ UNCHANGED <<cacheVars, calibrateVars>>
     \/ command = "cache" /\ Cache!Next /\ UNCHANGED <<vars, calibrateVars>>
     \/ command = "calibrate" /\ Shift!Next /\ UNCHANGED <<vars, cacheVars>>
  /\ UNCHANGED command

\* The threads of the command that runs are scheduled; the others have none.
CommandSpec ==
  /\ CommandInit
  /\ [][CommandNext]_<<command, vars, cacheVars, calibrateVars>>
  /\ Fairness /\ Cache!Fairness

-----------------------------------------------------------------------------
\* Every training run that is not killed returns, the producer not left waiting
\* for room in a channel nobody reads, nor the run for a batch nobody makes.
RunReturns == Returns

\* Every build of the cache that is not killed returns.
BuildReturns == Cache!Returns

\* No frame is decoded by two workers, nor twice by one.
DecodedOnce == Cache!DecodedOnce

\* The rows of a build are on disk only once all their split's frames are: a build that
\* fails or is killed leaves one split at most, the one it was at, with frames it may
\* not have decoded, beside no rows or an earlier build's.
RowsAfterFrames == Cache!RowsAfterFrames

\* A build that returns Ok leaves every split open to reading, whole and its own,
\* whatever order the workers ran in and whatever lay there before.
OkIsWhole == Cache!OkIsWhole

\* The weights of a model that can be loaded carry just the shift its description
\* records, and so one at most ("Refuses a model already calibrated: shifts add",
\* calibrate.rs); but where a training run or a calibration was cut short between the
\* two files over an older description, or the model was calibrated out of such a one.
DescribedUnlessCut == Shift!DescribedUnlessCut
=============================================================================
