--------------------------- MODULE AttentionResult ---------------------------
(***************************************************************************)
(* What the attention forward promises for one block of queries, whatever   *)
(* computes it (the contract crate's attention.rs): each query row ends     *)
(* with the sum over exactly the keys it sees, each once, and a log-sum-exp *)
(* that is -inf when it sees none; a row is written once.                   *)
(***************************************************************************)
EXTENDS AttentionMask

CONSTANTS Masks,    \* the calls
          BlockQ,   \* query rows per block, one at least
          Pending   \* a row not written yet

VARIABLES mask, cube, out

QBlocks == (mask.tq + BlockQ - 1) \div BlockQ

\* Query blocks are taken last first.
Q0 == (QBlocks - 1 - cube) * BlockQ
BlockRows == Q0 .. Q0 + BlockQ - 1
Queries == {r \in BlockRows : r < mask.tq}

\* The row's value: how often each key's weighted value was summed, and whether
\* the log-sum-exp is finite.
Result(m, r) ==
  [sum |-> [c \in 0 .. m.tk - 1 |-> IF c \in Sees(m, r) THEN 1 ELSE 0],
   finite |-> Sees(m, r) # {}]

Init ==
  /\ mask \in Masks
  /\ cube \in 0 .. QBlocks - 1
  /\ out = [r \in Queries |-> Pending]

\* Some rows get their values.
Attend ==
  /\ \E S \in (SUBSET Queries) \ {{}} :
       /\ \A r \in S : out[r] = Pending
       /\ out' = [r \in Queries |-> IF r \in S THEN Result(mask, r) ELSE out[r]]
  /\ UNCHANGED <<mask, cube>>

Spec == Init /\ [][Attend]_<<mask, cube, out>> /\ WF_<<mask, cube, out>>(Attend)
==============================================================================
