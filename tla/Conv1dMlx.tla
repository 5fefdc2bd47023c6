------------------------------ MODULE Conv1dMlx ------------------------------
(***************************************************************************)
(* The causal convolution on MLX (dash-mlx conv1d.rs).  Packed sequences go *)
(* to the kernels one at a time, so that a run never crosses a boundary; a  *)
(* thread walks a run of TILE steps, and the first run of a sequence also   *)
(* forms the initial state's gradient.  The final states are rows of the    *)
(* history, taken outside the kernels: their gradient comes back through    *)
(* MLX, which adds it to the kernels' and adds the runs' sums up.           *)
(*                                                                          *)
(* The call, its tensors and what it should leave are Conv1dCalls's.        *)
(***************************************************************************)
EXTENDS Conv1dCalls

LOCAL Sorting == INSTANCE SequencesExt

IsMlxCall(c) == IsCall(c) /\ Ordered(c) /\ K \in 2..8

(* The threads: a sequence and a run of it.  An empty one has none.         *)
MlxThreads(c) ==
  UNION {{s} \X (0..(CeilDiv(LengthOf(c, s), TILE) - 1)) : s \in Seqs(c)}

(* A step of a sequence: before the first, of its state, or of the zeros    *)
(* that stand for one.                                                      *)
StepOrState(c, m, s, t) == IF t >= 0 THEN X(c, m, s, t) ELSE StateRow(c, m, s, c.w + t)

MlxWindow(c, m, s, t0) ==
  [j \in Slots |-> IF j < K - 1 THEN StepOrState(c, m, s, t0 + 1 - K + j) ELSE 0]
Enters(window, x) == [window EXCEPT ![K - 1] = x]

MlxEnd(c, thread) == Min({thread[2] * TILE + TILE, LengthOf(c, thread[1])})

-----------------------------------------------------------------------------
MlxForwardKernel(c, m, thread) ==
  LET s  == thread[1]
      t0 == thread[2] * TILE
      before[t \in t0..MlxEnd(c, thread)] ==
        IF t = t0 THEN MlxWindow(c, m, s, t0)
        ELSE Slide(Enters(before[t - 1], X(c, m, s, t - 1)))
      Out(t) == Act(c, Convolve(m, Enters(before[t], X(c, m, s, t))))
  IN  [m EXCEPT !.out = WriteRun(@, Elem(c, s), StartOf(c, s) + t0,
                          [i \in 1..(MlxEnd(c, thread) - t0) |-> Out(t0 + i - 1)])]

(* The walk of the backward kernel, K - 1 steps past the run: the window,   *)
(* the last K gradients before the activation, the taps' and the bias's     *)
(* sums, and the gradients at the sequence's first K - 1 steps.             *)
Walked(c, m, thread, t, last) ==
  LET s      == thread[1]
      inside == t < LengthOf(c, s)
      window == IF inside THEN Enters(last.window, X(c, m, s, t)) ELSE last.window
      g      == IF inside THEN PreActivationGrad(c, m, window, m.grad[<<Elem(c, s), StartOf(c, s) + t>>])
                ELSE 0
      counts == inside /\ t < MlxEnd(c, thread)
  IN  [window |-> IF inside THEN Slide(window) ELSE window,
       grads  |-> [Slide(last.grads) EXCEPT ![K - 1] = g],
       dw     |-> IF counts THEN [j \in Slots |-> (last.dw[j] + g * window[j]) % P] ELSE last.dw,
       db     |-> IF counts THEN (last.db + g) % P ELSE last.db,
       first  |-> IF thread[2] = 0 /\ t < K - 1 THEN [last.first EXCEPT ![t] = g] ELSE last.first]

MlxBackwardKernel(c, m, thread) ==
  LET s    == thread[1]
      t0   == thread[2] * TILE
      t1   == MlxEnd(c, thread)
      none == [window |-> MlxWindow(c, m, s, t0), grads |-> Empty, dw |-> Empty, db |-> 0,
               first |-> [i \in Earlier |-> 0]]
      after == LET walk[t \in (t0 - 1)..(t1 + K - 2)] ==
                     IF t = t0 - 1 THEN none ELSE Walked(c, m, thread, t, walk[t - 1])
               IN  Tabulated(walk)
      GradX(tau) == Total(K, LAMBDA j : m.weight[j] * after[tau + K - 1].grads[K - 1 - j])
      end == after[t1 + K - 2]
      (* State row W - (K - 1) + i reaches the first i + 1 steps.           *)
      StateGrad(i) == Total(i + 1, LAMBDA j : m.weight[j] * end.first[i - j])
  IN  [m EXCEPT
         !.gradx = WriteRun(@, Elem(c, s), StartOf(c, s) + t0, [i \in 1..(t1 - t0) |-> GradX(t0 + i - 1)]),
         !.runs[thread] = [j \in 0..K |-> IF j = K THEN end.db ELSE end.dw[j]],
         !.gradinitial[s] = IF t0 > 0 THEN @
                            ELSE [row \in DOMAIN @ |->
                                    IF row < c.w - (K - 1) THEN 0 ELSE StateGrad(row - (c.w - (K - 1)))]]

MlxUpdateKernel(c, m, s) ==
  LET len   == c.fin[1]
      token == m.tokens[s][Len(m.tokout[s]) + 1]
      Held(j) == m.state[s][len - (K - 1) + j]
      y     == (Total(K - 1, LAMBDA j : m.weight[j] * Held(j)) + m.weight[K - 1] * token) % P
  IN  [m EXCEPT !.tokout[s] = Append(@, Act(c, y + m.bias)),
                !.state[s]  = [i \in DOMAIN @ |-> IF i < len - 1 THEN @[i + 1] ELSE token]]

-----------------------------------------------------------------------------
(* Outside the kernels.  The final states: the last rows of the history.    *)
MlxFinals(c, m) == [m EXCEPT !.final = [s \in Seqs(c) |-> LastSteps(c, m, s)]]

(* The runs' sums, over every sequence's runs.                              *)
MlxSums(c, m) ==
  LET Sum(j) == MapThenSumSet(LAMBDA thread : m.runs[thread][j], MlxThreads(c)) % P
  IN  [m EXCEPT !.gradweight = [j \in Slots |-> Sum(j)], !.gradbias = Sum(K)]

(* The final states' gradient by the history, added to what the kernels     *)
(* left: nothing, for an empty sequence.                                    *)
MlxHistories(c, m) ==
  LET Onto(s, i) == LET row == i + c.fin[1] - (c.w + LengthOf(c, s))
                    IN  IF c.gfin THEN IF row >= 0 THEN m.gradfinal[s][row] ELSE 0 ELSE 0
  IN  [m EXCEPT
         !.gradx = [bt \in DOMAIN @ |-> LET s == SequenceAt(c, bt)
                                        IN  (@[bt] + Onto(s, c.w + bt[2] - StartOf(c, s))) % P],
         !.gradinitial = [s \in DOMAIN @ |-> [i \in DOMAIN @[s] |->
            ((IF LengthOf(c, s) > 0 THEN @[s][i] ELSE 0) + Onto(s, i)) % P]]]

-----------------------------------------------------------------------------
MlxForward(c) == <<"mlx_forward">> \o IF c.fin # <<>> THEN <<"mlx_finals">> ELSE <<>>

MlxStream(c) ==
  MlxForward(c) \o IF c.kind = "train" THEN <<"mlx_backward", "mlx_sums", "mlx_histories">>
                   ELSE <<"decode">> \o [i \in 1..c.tokens |-> "mlx_update"]

MlxCubes(c, launch) ==
  IF launch \in {"mlx_forward", "mlx_backward"} THEN Sorting!SetToSeq(MlxThreads(c))
  ELSE IF launch = "mlx_update" THEN [s \in 1..Count(c) |-> s - 1]
  ELSE <<0>>

MlxEffect(c, m, launch, cube) ==
  CASE launch = "mlx_forward"   -> MlxForwardKernel(c, m, cube)
    [] launch = "mlx_finals"    -> MlxFinals(c, m)
    [] launch = "mlx_backward"  -> MlxBackwardKernel(c, m, cube)
    [] launch = "mlx_sums"      -> MlxSums(c, m)
    [] launch = "mlx_histories" -> MlxHistories(c, m)
    [] launch = "decode"        -> [m EXCEPT !.state = m.final]
    [] launch = "mlx_update"    -> MlxUpdateKernel(c, m, cube)

MlxAllocated(c) == Allocated(c) @@ [runs |-> [thread \in MlxThreads(c) |-> Garbage]]
=============================================================================
