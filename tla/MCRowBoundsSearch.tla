-------------------------- MODULE MCRowBoundsSearch --------------------------
(* Calls of up to MaxLen queries and keys, windows from none to past          *)
(* everything, and packed calls of up to three sequences, among them calls    *)
(* whose offsets break the contract.                                          *)
EXTENDS RowBoundsSearch

CONSTANTS MaxLen, Reaches

WildOffsets == {-2, 1, 5}

None == [s \in 0 .. 0 |-> 0]

Offsets(seqs, n) == {cu \in [0 .. seqs -> 0 .. n] : IsOffsets(cu, seqs, n)}

Call(tq, tk, l, r, kind, pad, seqs, cuq, cuk) ==
  [tq |-> tq, tk |-> tk, left |-> l, right |-> r, kind |-> kind, pad |-> pad,
   seqs |-> seqs, cuq |-> cuq, cuk |-> cuk]

Aligned ==
  {Call(tq, tk, l, r, "none", {}, 0, None, None) :
     tq \in 1 .. MaxLen, tk \in 1 .. MaxLen, l \in Reaches, r \in Reaches}
PaddedCalls ==
  UNION {{Call(MaxLen, tk, l, r, "padding", pad, 0, None, None) :
     l \in Reaches, r \in Reaches, pad \in SUBSET (0 .. tk - 1)} : tk \in 1 .. MaxLen}
PackedCalls ==
  UNION {{Call(n, n + d, l, r, "packed", {}, seqs, cuq, cuk) :
     l \in Reaches, r \in Reaches, cuq \in Offsets(seqs, n), cuk \in Offsets(seqs, n + d)} :
     seqs \in 1 .. 3, n \in {MaxLen - 1}, d \in {-1, 1}}
\* Offsets that keep nothing of the contract.
WildCalls ==
  {Call(3, 2, l, 1, "packed", {}, 2, cuq, cuk) :
     l \in Reaches, cuq \in [0 .. 2 -> WildOffsets], cuk \in [0 .. 2 -> WildOffsets]}

MCMasks == Aligned \cup PaddedCalls \cup PackedCalls \cup WildCalls
==============================================================================
