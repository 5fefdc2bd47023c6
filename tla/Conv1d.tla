------------------------------- MODULE Conv1d -------------------------------
(***************************************************************************)
(* The causal convolution of dash-ops (conv1d.rs, conv1d/cube.rs,          *)
(* conv1d/reference.rs) along one channel: channels are independent and a   *)
(* thread carries one or two of them side by side.                          *)
(*                                                                          *)
(* A thread owns a run of TILE steps, walks it with the window of the last  *)
(* K - 1 steps in registers, and where a sequence starts inside its run     *)
(* refills the window from that sequence's initial state.  Backward, the    *)
(* window of gradients carries the sequence of each slot.  The reference    *)
(* does a sequence at a time, prepending its initial state.                 *)
(*                                                                          *)
(* Memory is a record of tensors, functions from their indices.  Act stands *)
(* for the activation: the kernels use of SiLU only that they have its      *)
(* derivative.                                                              *)
(***************************************************************************)
EXTENDS Residues, Sequences, FiniteSetsExt

CONSTANTS
  K,        \* the width of the convolution, 1 to 8 where the kernels take it
  TILE,     \* steps of a run, 64 in the code
  Garbage   \* what memory nobody has written holds

(* What Operations assumes of them.                                        *)
ConvAssumption == {K, TILE} \subseteq Nat \ {0} /\ TILE >= K

CeilDiv(a, b) == (a + b - 1) \div b

-----------------------------------------------------------------------------
(* A call: b batch elements of t steps, or packed, one cut by the offsets   *)
(* cu (empty when not packed); whether there is a bias, an activation and   *)
(* initial states (of w rows), the final states asked for (<<>> or their    *)
(* length) and whether these have a gradient.                               *)
Packed(c)  == c.cu # <<>>
Count(c)   == IF Packed(c) THEN Len(c.cu) - 1 ELSE c.b
Initial(c) == c.w > 0
Runs(c)    == CeilDiv(c.t, TILE)
Threads(c) == (0..(c.b - 1)) \X (0..(Runs(c) - 1))
Elem(c, s) == IF Packed(c) THEN 0 ELSE s

Act(c, y)      == IF c.act THEN (((y * y) % P) * y + y) % P ELSE y % P
ActSlope(c, y) == IF c.act THEN (3 * ((y * y) % P) + 1) % P ELSE 1

Taken(c) == K \in 1..8 /\ c.b * c.t > 0 /\ c.device

-----------------------------------------------------------------------------
(* The boundaries as the device reads them: a negative one wraps.           *)
Offset(c, s) == IF c.cu[s + 1] < 0 THEN c.t ELSE Min({c.cu[s + 1], c.t})

(* By bisection: the last sequence that starts at step t or before.         *)
SequenceOf(c, t) ==
  LET search[lohi \in (0..Count(c)) \X (0..Count(c))] ==
        LET lo == lohi[1]
            hi == lohi[2]
            mid == CeilDiv(lo + hi, 2)
        IN  IF lo >= hi THEN lo
            ELSE IF Offset(c, mid) <= t THEN search[<<mid, hi>>]
            ELSE search[<<lo, mid - 1>>]
  IN  search[<<0, Count(c) - 1>>]

(* The one after seq that holds t, past the empty ones.                     *)
NextSequence(c, seq, t) ==
  LET last == Count(c) - 1
  IN  Min({s \in Min({seq + 1, last})..last : s = last \/ Offset(c, s + 1) > t})

-----------------------------------------------------------------------------
(* The window: slot j of 0..K - 1 holds the step K - 1 - j before the       *)
(* current one, which goes last.                                            *)
Slots   == 0..(K - 1)
Earlier == 0..(K - 2)
Slide(window) == [j \in Slots |-> window[IF j < K - 1 THEN j + 1 ELSE j]]

Convolve(m, window) == (m.bias + Total(K, LAMBDA j : m.weight[j] * window[j])) % P

StateRow(c, m, s, i) == IF Initial(c) THEN m.initial[s][i] ELSE 0

(* The plain kernels' window before a run.                                  *)
History(c, m, b, t0) ==
  [j \in Slots |-> IF t0 > 0 /\ j < K - 1 THEN m.x[<<b, t0 + j + 1 - K>>] ELSE 0]

(* The sequence a run starts in, that one's end, and the window before it.  *)
Entered(c, m, b, t0) ==
  LET seq   == IF Packed(c) THEN SequenceOf(c, t0) ELSE b
      start == IF Packed(c) THEN Min({Offset(c, seq), t0}) ELSE 0
      Slot(j) == LET q == t0 + j + 1      \* the step before the run, plus K
                 IN  IF j = K - 1 THEN 0
                     ELSE IF q >= start + K THEN m.x[<<b, q - K>>]
                     ELSE StateRow(c, m, seq, c.w + q - start - K)
  IN  [seq |-> seq, end |-> IF Packed(c) THEN Offset(c, seq + 1) ELSE c.t,
       window |-> [j \in Slots |-> Slot(j)]]

(* Mutant: the window keeps the sequence before's last steps.               *)
AtStepKeeping(c, m, b, before, t) ==
  LET starts == Packed(c) /\ t = before.end
      seq    == IF starts THEN NextSequence(c, before.seq, t) ELSE before.seq
  IN  [seq |-> seq, end |-> IF starts THEN Offset(c, seq + 1) ELSE before.end,
       window |-> [before.window EXCEPT ![K - 1] = m.x[<<b, t>>]]]

(* Step t enters it: at a sequence's start, after that one's initial state. *)
AtStep(c, m, b, before, t) ==
  LET starts == Packed(c) /\ t = before.end
      seq    == IF starts THEN NextSequence(c, before.seq, t) ELSE before.seq
      Slot(j) == IF j = K - 1 THEN m.x[<<b, t>>]
                 ELSE IF starts THEN StateRow(c, m, seq, c.w + 1 - K + j)
                 ELSE before.window[j]
  IN  [seq |-> seq, end |-> IF starts THEN Offset(c, seq + 1) ELSE before.end,
       window |-> [j \in Slots |-> Slot(j)]]

-----------------------------------------------------------------------------
(* The forward kernels: a run's outputs.                                    *)
WriteRun(buffer, b, first, values) ==
  [bt \in DOMAIN buffer |->
     IF bt[1] = b /\ bt[2] - first + 1 \in DOMAIN values THEN values[bt[2] - first + 1]
     ELSE buffer[bt]]

RunEnd(c, thread) == Min({thread[2] * TILE + TILE, c.t})

ForwardKernel(c, m, thread) ==
  LET b  == thread[1]
      t0 == thread[2] * TILE
      window[t \in t0..RunEnd(c, thread)] ==
        IF t = t0 THEN History(c, m, b, t0) ELSE Slide([window[t - 1] EXCEPT ![K - 1] = m.x[<<b, t - 1>>]])
      Out(t) == Act(c, Convolve(m, [window[t] EXCEPT ![K - 1] = m.x[<<b, t>>]]))
  IN  [m EXCEPT !.out = WriteRun(@, b, t0, [i \in 1..(RunEnd(c, thread) - t0) |-> Out(t0 + i - 1)])]

ForwardSequencesKernel(c, m, thread) ==
  LET b  == thread[1]
      t0 == thread[2] * TILE
      walk[t \in t0..(RunEnd(c, thread) - 1)] ==
        AtStep(c, m, b, IF t = t0 THEN Entered(c, m, b, t0)
                        ELSE [walk[t - 1] EXCEPT !.window = Slide(@)], t)
  IN  [m EXCEPT !.out = WriteRun(@, b, t0,
         [i \in 1..(RunEnd(c, thread) - t0) |-> Act(c, Convolve(m, walk[t0 + i - 1].window))])]

(* The first step and the length of sequence s, as the state kernels clamp  *)
(* them.                                                                    *)
StartOf(c, s)  == IF Packed(c) THEN Offset(c, s) ELSE 0
LengthOf(c, s) == IF Packed(c) THEN Max({Offset(c, s + 1) - Offset(c, s), 0}) ELSE c.t

(* A sequence's last rows of history: inputs, then its initial state's last *)
(* rows, then zeros.                                                        *)
FinalStateKernel(c, m, s) ==
  LET len  == LengthOf(c, s)
      wOut == c.fin[1]
      Row(i) == IF i + len >= wOut THEN m.x[<<Elem(c, s), StartOf(c, s) + len + i - wOut>>]
                ELSE IF Initial(c) /\ c.w + len + i >= wOut THEN m.initial[s][c.w + len + i - wOut]
                ELSE 0
  IN  [m EXCEPT !.final[s] = [i \in 0..(wOut - 1) |-> Row(i)]]

-----------------------------------------------------------------------------
(* The backward kernels, K - 1 steps past the run's end: input step t feeds *)
(* the outputs of steps t to t + K - 1.                                     *)
Reach(t0) == t0..(t0 + TILE + K - 2)

PreActivationGrad(c, m, window, grad) == (grad * ActSlope(c, Convolve(m, window))) % P

Empty == [j \in Slots |-> 0]

(* A run's sums, of gradient times window and of the gradient.              *)
Partial(c, t0, grads, windows) ==
  [j \in 0..K |->
     IF j = K THEN Total(TILE, LAMBDA i : grads[t0 + i])
     ELSE Total(TILE, LAMBDA i : grads[t0 + i] * windows[t0 + i][j])]

RowOfPartial(c, thread) == thread[1] * Runs(c) + thread[2]

BackwardKernel(c, m, thread) ==
  LET b  == thread[1]
      t0 == thread[2] * TILE
      X(s) == IF s < c.t THEN m.x[<<b, s>>] ELSE 0
      windows[s \in Reach(t0)] ==
        [(IF s = t0 THEN History(c, m, b, t0) ELSE Slide(windows[s - 1])) EXCEPT ![K - 1] = X(s)]
      grads == Tabulated([s \in Reach(t0) |->
                 IF s < c.t THEN PreActivationGrad(c, m, windows[s], m.grad[<<b, s>>]) ELSE 0])
      GradX(t) == Total(K, LAMBDA j : m.weight[j] * grads[t + K - 1 - j])
  IN  [m EXCEPT
         !.gradx = WriteRun(@, b, t0, [i \in 1..TILE |-> IF t0 + i - 1 < c.t THEN GradX(t0 + i - 1) ELSE 0]),
         !.partial[RowOfPartial(c, thread)] = Partial(c, t0, grads, windows)]

(* Over sequences: each slot of the gradients has its sequence's tag, 0     *)
(* before step 0, s + 1 in sequence s, Past after the last step, and that   *)
(* sequence's end.                                                          *)
Past(c) == IF Packed(c) THEN Len(c.cu) ELSE c.b + 1

Tagged(c, m, b, s, last, at) ==
  LET inside == s < c.t
      gs     == IF inside THEN PreActivationGrad(c, m, at.window, m.grad[<<b, s>>]) ELSE 0
  IN  [seq |-> at.seq, end |-> at.end, window |-> at.window,
       grads |-> [Slide(last.grads) EXCEPT ![K - 1] = gs],
       tags  |-> [Slide(last.tags) EXCEPT ![K - 1] = IF inside THEN at.seq + 1 ELSE Past(c)],
       ends  |-> [Slide(last.ends) EXCEPT ![K - 1] = at.end]]

Slotted(c, m, b, t0) ==
  LET walk[s \in (t0 - 1)..(t0 + TILE + K - 2)] ==
        IF s = t0 - 1
        THEN Entered(c, m, b, t0) @@ [grads |-> Empty, tags |-> Empty, ends |-> Empty]
        ELSE LET last == walk[s - 1]
                 slid == IF s = t0 THEN last ELSE [last EXCEPT !.window = Slide(@)]
             IN  Tagged(c, m, b, s, last, IF s < c.t THEN AtStep(c, m, b, slid, s)
                                          ELSE [slid EXCEPT !.window[K - 1] = 0])
  IN  walk

(* Mutant: the gradients of every sequence in the window are added.         *)
OwnSumAll(m, at, own) == Total(K, LAMBDA j : m.weight[j] * at.grads[K - 1 - j])

(* The gradient that reaches a step of sequence own - 1 from its window.    *)
OwnSum(m, at, own) ==
  Total(K, LAMBDA j : LET slot == K - 1 - j
                      IN  m.weight[j] * IF at.tags[slot] = own THEN at.grads[slot] ELSE 0)

(* And from the final state, of which step v has row v + W' - end if it is  *)
(* among the last W' before the end.  Rows past the last are read past the  *)
(* state: the row found there is another sequence's or no state's at all.   *)
FinalRow(c, v, end) == v + c.fin[1] - end
FromFinal(c, m, own, v, end) ==
  IF ~c.gfin \/ FinalRow(c, v, end) < 0 THEN 0
  ELSE IF FinalRow(c, v, end) < c.fin[1] THEN m.gradfinal[own - 1][FinalRow(c, v, end)]
  ELSE 1

(* The steps and the initial states' rows a run computes: its own, and the  *)
(* rows of the states before the sequences that start within K - 1 steps of *)
(* one; run 0 also those before step 0.                                     *)
Done(t0, s) == s + 1 >= t0 + K \/ t0 = 0

InitialRows(c, at) ==
  {slot \in 1..(K - 1) :
     /\ Initial(c) /\ at.tags[0] # at.tags[K - 1]
     /\ at.tags[slot] # at.tags[slot - 1] /\ at.tags[slot] # Past(c)}

RunGradients(c, m, thread, walk) ==
  LET b  == thread[1]
      t0 == thread[2] * TILE
      (* the steps v = s - (K - 1) computed, and the rows <<s, slot>>       *)
      Steps == {s \in Reach(t0) : Done(t0, s) /\ walk[s].tags[0] \notin {0, Past(c)}}
      Rows  == {ss \in Reach(t0) \X Slots : Done(t0, ss[1]) /\ ss[2] \in InitialRows(c, walk[ss[1]])}
      GradX(v) == LET at == walk[v + K - 1]
                  IN  (OwnSum(m, at, at.tags[0])
                       + FromFinal(c, m, at.tags[0], v, at.ends[0])) % P
      RowGrad(ss) == LET at  == walk[ss[1]]
                         own == at.tags[ss[2]]
                     IN  (OwnSum(m, at, own)
                          + FromFinal(c, m, own, ss[1] + 1 - K, at.ends[ss[2]])) % P
      RowsOf(q) == {ss \in Rows : walk[ss[1]].tags[ss[2]] = q + 1}
      At(q, i) == {ss \in RowsOf(q) : c.w - ss[2] = i}
      grads == [s \in Reach(t0) |-> walk[s].grads[K - 1]]
  IN  [m EXCEPT
         !.gradx = [bt \in DOMAIN @ |-> IF bt[1] = b /\ bt[2] + K - 1 \in Steps
                                        THEN GradX(bt[2]) ELSE @[bt]],
         !.gradinitial = [q \in DOMAIN @ |-> [i \in DOMAIN @[q] |->
            IF At(q, i) = {} THEN @[q][i] ELSE RowGrad(CHOOSE ss \in At(q, i) : TRUE)]],
         !.partial[RowOfPartial(c, thread)] =
            Partial(c, t0, grads, [s \in Reach(t0) |-> walk[s].window])]

BackwardSequencesKernel(c, m, thread) ==
  RunGradients(c, m, thread, Slotted(c, m, thread[1], thread[2] * TILE))

(* The initial states' rows no step's window reaches: what the final state  *)
(* passes to them, or zero.                                                 *)
InitialStateGradKernel(c, m, s) ==
  LET len  == LengthOf(c, s)
      rows == IF len > 0 THEN c.w + 1 - K ELSE c.w
      Row(i) == IF c.gfin /\ i + c.fin[1] >= c.w + len
                THEN m.gradfinal[s][i + c.fin[1] - c.w - len] ELSE 0
  IN  [m EXCEPT !.gradinitial[s] = [i \in DOMAIN @ |-> IF i < rows THEN Row(i) ELSE @[i]]]

(* Thread j adds up tap j's partial sums, or the bias's.                    *)
ReduceKernel(c, m, j) ==
  LET sum == Total(c.b * Runs(c), LAMBDA r : m.partial[r][j])
  IN  IF j < K THEN [m EXCEPT !.gradweight[j] = sum]
      ELSE [m EXCEPT !.gradbias = sum]

(* A decoding step of each sequence from its state of some length W >= K-1: *)
(* the output, and the state less its oldest row with the token.            *)
UpdateKernel(c, m, s) ==
  LET len    == Cardinality(DOMAIN m.state[s])
      token  == m.tokens[s][Len(m.tokout[s]) + 1]
      window == [j \in Slots |-> IF j = K - 1 THEN token ELSE m.state[s][len + 1 + j - K]]
  IN  [m EXCEPT !.tokout[s] = Append(@, Act(c, Convolve(m, window))),
                !.state[s]  = [i \in DOMAIN @ |-> IF i < len - 1 THEN @[i + 1] ELSE token]]
=============================================================================
