------------------------- MODULE MCAttentionBackward -------------------------
(* Two query heads, blocks of two keys and two queries: calls of up to four   *)
(* queries and four keys take up to two key blocks (four cubes split) of up   *)
(* to four steps each; lengths of three leave the last block of each half     *)
(* empty.                                                                     *)
EXTENDS AttentionBackward

CONSTANT Lefts, Rights

None == [s \in 0 .. 0 |-> 0]

Call(tq, tk, l, r, kind, pad, seqs, cuq, cuk) ==
  [tq |-> tq, tk |-> tk, left |-> l, right |-> r, kind |-> kind, pad |-> pad,
   seqs |-> seqs, cuq |-> cuq, cuk |-> cuk]

Aligned ==
  {Call(tq, tk, l, r, "none", {}, 0, None, None) :
     tq \in {1, 3, 4}, tk \in {2, 3, 4}, l \in Lefts, r \in Rights}
PaddedCalls ==
  {Call(3, 4, 99, r, "padding", pad, 0, None, None) :
     r \in Rights, pad \in {{}, {0}, {1, 2}, {0, 1}, 0 .. 3}}
PackedCalls ==
  {Call(4, 4, l, r, "packed", {}, 2, cuq, cuk) :
     l \in Lefts, r \in Rights,
     cuq \in {[s \in 0 .. 2 |-> <<0, a, b>>[s + 1]] : a \in {0, 1, 3}, b \in {3, 4}},
     cuk \in {[s \in 0 .. 2 |-> <<0, a, b>>[s + 1]] : a \in {0, 2}, b \in {3, 4}}}

MCMasks == Aligned \cup PaddedCalls \cup PackedCalls
==============================================================================
