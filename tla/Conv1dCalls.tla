----------------------------- MODULE Conv1dCalls -----------------------------
(***************************************************************************)
(* A call of the causal convolution: what the kernels' launches or, where   *)
(* the device or the call is not one for them, the reference's tensor       *)
(* operations leave, and what they should: the convolution of each          *)
(* sequence's history, over dual numbers, and its derivatives.              *)
(***************************************************************************)
EXTENDS Conv1d

(* kind "train", forward and backward, or "decode", forward and then        *)
(* c.tokens decoding steps from its final states.                           *)
IsCall(c) ==
  /\ c.kind \in {"train", "decode"}
  /\ {c.b, c.t, c.w, c.tokens} \subseteq Nat
  /\ Packed(c) => c.b = 1
  /\ Initial(c) => c.w >= K - 1
  /\ c.gfin => c.fin # <<>>
  /\ c.kind = "decode" => c.fin # <<>> /\ c.fin[1] >= K - 1

Ordered(c) ==
  Packed(c) => /\ c.cu[1] = 0 /\ c.cu[Len(c.cu)] = c.t
               /\ \A s \in 1..Count(c) : c.cu[s] <= c.cu[s + 1]

Seqs(c) == 0..(Count(c) - 1)

-----------------------------------------------------------------------------
(* The reference, a sequence at a time.                                     *)
X(c, m, s, i) == m.x[<<Elem(c, s), StartOf(c, s) + i>>]

(* The K - 1 inputs before the first step, then the inputs.                 *)
Padded(c, m, s) ==
  [i \in 0..(K - 2 + LengthOf(c, s)) |->
     IF i < K - 1 THEN StateRow(c, m, s, c.w + 1 - K + i) ELSE X(c, m, s, i + 1 - K)]

(* The pre-activation of step i of the sequence.                            *)
Convolved(m, padded, i) == (m.bias + Total(K, LAMBDA j : m.weight[j] * padded[i + j])) % P

HistoryOf(c, m, s) ==
  [i \in 0..(c.w + LengthOf(c, s) - 1) |->
     IF i < c.w THEN m.initial[s][i] ELSE X(c, m, s, i - c.w)]

LastSteps(c, m, s) ==
  LET history == HistoryOf(c, m, s)
      p == c.w + LengthOf(c, s)
  IN  [i \in 0..(c.fin[1] - 1) |->
         IF i + p >= c.fin[1] THEN history[p - c.fin[1] + i] ELSE 0]

(* Rows of the packed tensor by the sequence that holds them.               *)
SequenceAt(c, bt) ==
  IF Packed(c) THEN CHOOSE s \in Seqs(c) : c.cu[s + 1] <= bt[2] /\ bt[2] < c.cu[s + 2] ELSE bt[1]

ReferenceForward(c, m) ==
  LET out == [s \in Seqs(c) |-> LET padded == Padded(c, m, s)
                                IN  [i \in 0..(LengthOf(c, s) - 1) |-> Act(c, Convolved(m, padded, i))]]
  IN  [m EXCEPT
         !.out = [bt \in DOMAIN @ |-> LET s == SequenceAt(c, bt)
                                      IN  out[s][bt[2] - StartOf(c, s)]],
         !.final = IF c.fin = <<>> THEN @ ELSE [s \in Seqs(c) |-> LastSteps(c, m, s)]]

(* The gradient of the padded inputs, from the pre-activation's between two *)
(* gaps of K - 1 zeros.                                                     *)
ReferenceBackward(c, m) ==
  LET L(s) == LengthOf(c, s)
      padded == [s \in Seqs(c) |-> Padded(c, m, s)]
      GradY(s) ==
        [i \in 0..(L(s) - 1) |->
           (m.grad[<<Elem(c, s), StartOf(c, s) + i>>] * ActSlope(c, Convolved(m, padded[s], i))) % P]
      gradY == [s \in Seqs(c) |-> GradY(s)]
      GradPadded(s, p) ==
        Total(K, LAMBDA j : m.weight[j] *
          LET i == p - j IN IF i \in 0..(L(s) - 1) THEN gradY[s][i] ELSE 0)
      (* onto the history, from the final state's rows                      *)
      Onto(s, i) ==
        LET row == i + c.fin[1] - (c.w + L(s))
        IN  IF row >= 0 THEN m.gradfinal[s][row] ELSE 0
      FromLast(s, i) == IF c.gfin THEN Onto(s, i) ELSE 0
      Tap(s, j) == Total(L(s), LAMBDA i : gradY[s][i] * padded[s][i + j])
  IN  [m EXCEPT
         !.gradx = [bt \in DOMAIN @ |->
            LET s == SequenceAt(c, bt)
                i == bt[2] - StartOf(c, s)
            IN  (GradPadded(s, K - 1 + i) + FromLast(s, c.w + i)) % P],
         !.gradinitial = [s \in Seqs(c) |-> [i \in 0..(c.w - 1) |->
            ((IF i + K - 1 >= c.w /\ L(s) > 0 THEN GradPadded(s, i + K - 1 - c.w) ELSE 0)
              + FromLast(s, i)) % P]],
         !.gradweight = [j \in Slots |-> Total(Count(c), LAMBDA s : Tap(s, j))],
         !.gradbias = Total(Count(c), LAMBDA s : Total(L(s), LAMBDA i : gradY[s][i]))]

ReferenceUpdate(c, m) ==
  LET len == c.fin[1]
      Token(s)  == m.tokens[s][Len(m.tokout[s]) + 1]
      Window(s) == [i \in 0..(K - 1) |-> IF i = K - 1 THEN Token(s) ELSE m.state[s][len + 1 - K + i]]
  IN  [m EXCEPT
         !.tokout = [s \in Seqs(c) |-> Append(@[s], Act(c, Convolved(m, Window(s), 0)))],
         !.state  = [s \in Seqs(c) |-> [i \in 0..(len - 1) |->
                       IF i = len - 1 THEN Token(s) ELSE m.state[s][i + 1]]]]

-----------------------------------------------------------------------------
(* The launches.  What the plain kernels take differs: forward, calls with  *)
(* neither initial states nor packed sequences; backward, those with no     *)
(* gradient of final states either.                                         *)
PlainForward(c)  == ~Initial(c) /\ ~Packed(c)
PlainBackward(c) == PlainForward(c) /\ ~c.gfin

Forward(c) ==
  IF ~Taken(c) \/ c.fin = <<0>> THEN <<"reference_forward">>
  ELSE <<IF PlainForward(c) THEN "forward" ELSE "forward_sequences">>
       \o IF c.fin # <<>> THEN <<"final_state">> ELSE <<>>

Backward(c) ==
  IF ~Taken(c) \/ (c.gfin /\ c.fin = <<0>>) THEN <<"reference_backward">>
  ELSE <<IF PlainBackward(c) THEN "backward" ELSE "backward_sequences", "reduce">>
       \o IF Initial(c) THEN <<"initial_state_grad">> ELSE <<>>

Update(c) == IF c.device THEN "update" ELSE "reference_update"

Stream(c) ==
  Forward(c) \o IF c.kind = "train" THEN Backward(c)
                ELSE <<"decode">> \o [i \in 1..c.tokens |-> Update(c)]

(* The threads of a launch, along the grid.                                 *)
Cubes(c, launch) ==
  IF launch \in {"forward", "forward_sequences", "backward", "backward_sequences"}
  THEN [i \in 1..(c.b * Runs(c)) |-> <<(i - 1) \div Runs(c), (i - 1) % Runs(c)>>]
  ELSE IF launch = "reduce" THEN [j \in 1..(K + IF c.bias THEN 1 ELSE 0) |-> j - 1]
  ELSE IF launch \in {"final_state", "initial_state_grad", "update"}
  THEN [s \in 1..Count(c) |-> s - 1]
  ELSE <<0>>

Effect(c, m, launch, cube) ==
  CASE launch = "forward"             -> ForwardKernel(c, m, cube)
    [] launch = "forward_sequences"   -> ForwardSequencesKernel(c, m, cube)
    [] launch = "final_state"         -> FinalStateKernel(c, m, cube)
    [] launch = "backward"            -> BackwardKernel(c, m, cube)
    [] launch = "backward_sequences"  -> BackwardSequencesKernel(c, m, cube)
    [] launch = "reduce"              -> ReduceKernel(c, m, cube)
    [] launch = "initial_state_grad"  -> InitialStateGradKernel(c, m, cube)
    [] launch = "decode"              -> [m EXCEPT !.state = m.final]
    [] launch = "update"              -> UpdateKernel(c, m, cube)
    [] launch = "reference_forward"   -> ReferenceForward(c, m)
    [] launch = "reference_backward"  -> ReferenceBackward(c, m)
    [] launch = "reference_update"    -> ReferenceUpdate(c, m)

Allocated(c) ==
  LET cells == (0..(c.b - 1)) \X (0..(c.t - 1))
      finalRows == IF c.fin = <<>> THEN 0 ELSE c.fin[1]
      States(rows, stream) == [s \in Seqs(c) |-> [i \in 0..(rows - 1) |-> Arbitrary(stream, 20 * s + i)]]
  IN  [x |-> [bt \in cells |-> Arbitrary(1, 20 * bt[1] + bt[2])],
       grad |-> [bt \in cells |-> Arbitrary(2, 20 * bt[1] + bt[2])],
       weight |-> [j \in Slots |-> Arbitrary(3, j)], bias |-> IF c.bias THEN 77 ELSE 0,
       initial |-> States(c.w, 4), gradfinal |-> States(finalRows, 5),
       tokens |-> [s \in Seqs(c) |-> [i \in 1..c.tokens |-> Arbitrary(6, 20 * s + i)]],
       out |-> [bt \in cells |-> Garbage], gradx |-> [bt \in cells |-> Garbage],
       final |-> [s \in Seqs(c) |-> Garbage], state |-> [s \in Seqs(c) |-> Garbage],
       gradinitial |-> [s \in Seqs(c) |-> [i \in 0..(c.w - 1) |-> Garbage]],
       partial |-> [r \in 0..(c.b * Runs(c) - 1) |-> Garbage],
       gradweight |-> [j \in Slots |-> Garbage], gradbias |-> Garbage,
       tokout |-> [s \in Seqs(c) |-> <<>>]]

-----------------------------------------------------------------------------
(* The convolution of sequence s: its history from W rows before its first  *)
(* step, zeros before that, each element with derivative 1 if it is the one *)
(* differentiated by.                                                       *)
Seed(x, at, by) == [v |-> x % P, d |-> IF at = by THEN 1 ELSE 0]

Step(c, m, s, i, by) ==
  IF i >= 0 THEN Seed(X(c, m, s, i), <<"x", Elem(c, s), StartOf(c, s) + i>>, by)
  ELSE IF c.w + i >= 0 THEN Seed(m.initial[s][c.w + i], <<"initial", s, c.w + i>>, by)
  ELSE Const(0)

DualAct(c, y) == [v |-> Act(c, y.v), d |-> (ActSlope(c, y.v) * y.d) % P]

Output(c, m, s, i, by) ==
  DualAct(c, Plus(Seed(m.bias, <<"bias", 0, 0>>, by),
    DualTotal(K, LAMBDA j : Times(Seed(m.weight[j], <<"weight", j, 0>>, by),
                                  Step(c, m, s, i + 1 - K + j, by)))))

Loss(c, m, s, by) ==
  Plus(DualTotal(LengthOf(c, s), LAMBDA i :
         Times(Output(c, m, s, i, by), Const(m.grad[<<Elem(c, s), StartOf(c, s) + i>>]))),
       IF c.gfin
       THEN DualTotal(c.fin[1], LAMBDA i :
              Times(Step(c, m, s, LengthOf(c, s) - c.fin[1] + i, by), Const(m.gradfinal[s][i])))
       ELSE Const(0))

ForwardIs(c, m) ==
  \A s \in Seqs(c) :
    /\ \A i \in 0..(LengthOf(c, s) - 1) :
         m.out[<<Elem(c, s), StartOf(c, s) + i>>] = Output(c, m, s, i, <<>>).v
    /\ c.fin # <<>> => \A i \in 0..(c.fin[1] - 1) :
         m.final[s][i] = Step(c, m, s, LengthOf(c, s) - c.fin[1] + i, <<>>).v

GradientsAre(c, m) ==
  LET D(s, by)  == Loss(c, m, s, by).d
      Sum(by)   == Total(Count(c), LAMBDA s : D(s, by))
  IN  /\ \A j \in Slots : m.gradweight[j] = Sum(<<"weight", j, 0>>)
      /\ c.bias => m.gradbias = Sum(<<"bias", 0, 0>>)
      /\ \A s \in Seqs(c) :
           /\ \A i \in 0..(LengthOf(c, s) - 1) :
                LET bt == <<Elem(c, s), StartOf(c, s) + i>>
                IN  m.gradx[bt] = D(s, <<"x", bt[1], bt[2]>>)
           /\ \A i \in 0..(c.w - 1) : m.gradinitial[s][i] = D(s, <<"initial", s, i>>)

(* Decoding goes on as the convolution of the sequence with its tokens.     *)
DecodingIs(c, m) ==
  \A s \in Seqs(c) :
    LET len == LengthOf(c, s)
        At(i) == IF i < len THEN Step(c, m, s, i, <<>>).v ELSE m.tokens[s][i - len + 1]
    IN  \A n \in 1..c.tokens :
          m.tokout[s][n] =
            Act(c, m.bias + Total(K, LAMBDA j : m.weight[j] * At(len + n - 1 + 1 - K + j)))

(* No row of a final state's gradient is read past its end.                 *)
FinalRowsInside(c, m) ==
  \A thread \in Threads(c) :
    LET t0   == thread[2] * TILE
        walk == Slotted(c, m, thread[1], t0)
    IN  \A s \in Reach(t0) : \A slot \in Slots :
          (Done(t0, s) /\ walk[s].tags[slot] \notin {0, Past(c)}
             /\ (slot = 0 \/ slot \in InitialRows(c, walk[s])))
            => FinalRow(c, s + 1 - K, walk[s].ends[slot]) < c.fin[1]
=============================================================================
