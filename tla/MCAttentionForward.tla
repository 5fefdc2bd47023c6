-------------------------- MODULE MCAttentionForward --------------------------
(* Two warps of two rows, tiles of two keys: a call of five keys takes up to   *)
(* three tiles, the last of them one key short; four queries over one block,   *)
(* six over two, the second of them half past the queries.                     *)
EXTENDS AttentionForward

CONSTANT Lefts, Rights

None == [s \in 0 .. 0 |-> 0]

Offsets(seqs, n) == {cu \in [0 .. seqs -> 0 .. n] : IsOffsets(cu, seqs, n)}

Call(tq, tk, l, r, kind, pad, seqs, cuq, cuk) ==
  [tq |-> tq, tk |-> tk, left |-> l, right |-> r, kind |-> kind, pad |-> pad,
   seqs |-> seqs, cuq |-> cuq, cuk |-> cuk]

Aligned ==
  {Call(tq, tk, l, r, "none", {}, 0, None, None) :
     tq \in {3, 6}, tk \in {1, 4, 5}, l \in Lefts, r \in Rights}
PaddedCalls ==
  {Call(3, 5, l, r, "padding", pad, 0, None, None) :
     l \in Lefts, r \in Rights, pad \in {{}, {0}, {4}, {0, 1}, {2, 3, 4}, 0 .. 4}}
PackedCalls ==
  {Call(4, 5, l, r, "packed", {}, 2, cuq, cuk) :
     l \in Lefts, r \in Rights,
     cuq \in {[s \in 0 .. 2 |-> <<0, a, b>>[s + 1]] : a \in {0, 1, 3}, b \in {3, 4}},
     cuk \in {[s \in 0 .. 2 |-> <<0, a, b>>[s + 1]] : a \in {0, 2, 3}, b \in {3, 5}}}

MCMasks == Aligned \cup PaddedCalls \cup PackedCalls
==============================================================================
