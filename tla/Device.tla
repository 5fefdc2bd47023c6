------------------------------- MODULE Device --------------------------------
(***************************************************************************)
(* The device, at its two scales: either a call whose launches' cubes run   *)
(* one by one, each as a whole (Operations), or the units of one cube of a  *)
(* kernel, which share its memory (CubeMemory).  What one scale takes as a  *)
(* step is what the other shows to be one: a cube whose reads find what the *)
(* kernel's text says computes what Operations has it compute.              *)
(***************************************************************************)
EXTENDS Operations, CubeMemory

ASSUME UnitsAssumption == CubeAssumption

Nothing == [name |-> "none", program |-> <<>>]

(* One of the two is at work, the other has nothing to do.                  *)
CubeRests == kernel = Nothing /\ pc = [u \in CubeUnits |-> 1] /\ slots = <<>>
CallRests == call = [op |-> "none"] /\ at = 0 /\ todo = <<>> /\ mem = <<>>

DeviceInit ==
  \/ Init /\ CubeRests
  \/ CubeInit /\ CallRests

DeviceNext ==
  \/ kernel = Nothing /\ Next /\ UNCHANGED cubeVars
  \/ kernel # Nothing /\ CubeNext /\ UNCHANGED vars

DeviceSpec == DeviceInit /\ [][DeviceNext]_<<vars, cubeVars>>
=============================================================================
