------------------------------ MODULE DeltaRule ------------------------------
(***************************************************************************)
(* The gated delta rule one token at a time, as gated_delta/recurrent.rs's  *)
(* reference applies it,                                                    *)
(*   S_t = exp(g_t) S_(t-1) + beta_t k_t (v_t - exp(g_t) S_(t-1)^T k_t)^T   *)
(*   o_t = S_t^T (scale q_t),                                               *)
(* over dual numbers, so that the same definition says what the outputs of  *)
(* the kernels of GatedDelta are to be and what their gradients are to be:  *)
(* the derivative of sum o dO + sum S_last dS_last by one of the inputs.    *)
(*                                                                          *)
(* And the decoding kernel (gated_delta/recurrent/kernel.rs), which carries *)
(* a column of the state through a sequence's tokens, possibly writing it   *)
(* where it was read.                                                       *)
(***************************************************************************)
EXTENDS GatedDelta

(* A tensor's element, and its value with derivative 1 if it is the one     *)
(* differentiated by.  A gate's element is exp(g), and differentiated by g. *)
Seed(x, at, by)     == [v |-> x % P, d |-> IF at = by THEN 1 ELSE 0]
GateSeed(x, at, by) == [v |-> x % P, d |-> IF at = by THEN x % P ELSE 0]

Normal(x, norm) ==
  LET Scaled(f) == Tabulated([d \in 0..(DK - 1) |-> Times(x[d], f)])
  IN  IF norm THEN Scaled(InvRoot(Plus(DualTotal(DK, LAMBDA d : Times(x[d], x[d])), Const(Eps)))) ELSE x

(* One token: the state after it and its output.  in holds the rows of the  *)
(* inputs.                                                                  *)
Token(call, in, r, h, state, by) ==
  LET Row(name, x, depth) == Tabulated([d \in 0..(depth - 1) |-> Seed(x[d], <<name, r, h, d>>, by)])
      v     == Row("v", in.v[<<r, h>>], DV)
      decay == GateSeed(in.g[<<r, h>>], <<"g", r, h, 0>>, by)
      beta  == Seed(in.beta[<<r, h>>], <<"beta", r, h, 0>>, by)
      Aged  == DualMatrix(DK, DV, LAMBDA d, x : Times(state[d][x], decay))
      Delta(aged, k, x) == Times(Minus(v[x], DualTotal(DK, LAMBDA d : Times(aged[d][x], k[d]))), beta)
      Added(aged, k, delta) == DualMatrix(DK, DV, LAMBDA d, x : Plus(aged[d][x], Times(k[d], delta[x])))
      Next(aged, k) == Added(aged, k, Tabulated([x \in 0..(DV - 1) |-> Delta(aged, k, x)]))
      Read(next, q) ==
        [state |-> next,
         out   |-> Tabulated([x \in 0..(DV - 1) |->
                      DualTotal(DK, LAMBDA d : Times(next[d][x], Times(q[d], Const(call.scale))))])]
  IN  Read(Next(Aged, Normal(Row("k", in.k[<<r, h>>], DK), call.norm)),
           Normal(Row("q", in.q[<<r, h>>], DK), call.norm))

(* The rows first to first + n - 1 in turn.                                 *)
Run(call, in, first, n, h, initial, by) ==
  LET after[i \in 0..n] ==
        IF i = 0 THEN [state |-> initial, out |-> <<>>]
        ELSE Once(after[i - 1], LAMBDA before :
               Once(Token(call, in, first + i - 1, h, before.state, by), LAMBDA token :
                 [state |-> token.state, out |-> Append(before.out, token.out)]))
  IN  after[n]

SeededState(state, y, by) ==
  [d \in 0..(DK - 1) |-> [v \in 0..(DV - 1) |-> Seed(state[d][v], <<"h0", y, d, v>>, by)]]

(* The rows of sequence s: its first and its count.                         *)
Span(call, s) ==
  IF Packed(call) THEN <<call.cu[s + 1], call.cu[s + 2] - call.cu[s + 1]>>
                  ELSE <<s * call.t, call.t>>

RuleOf(call, mem, y, by) ==
  Run(call, mem, Span(call, y \div H)[1], Span(call, y \div H)[2], y % H,
      SeededState(mem.h0[y], y, by), by)

(* The loss of sequence and head y whose gradients the backward pass takes. *)
LossOf(call, mem, y, by) ==
  LET Of(run, span) ==
        Plus(DualTotal(span[2], LAMBDA i : DualTotal(DV, LAMBDA v :
               Times(run.out[i + 1][v], Const(mem.dout[<<span[1] + i, y % H>>][v])))),
             DualTotal(DK, LAMBDA d : DualTotal(DV, LAMBDA v :
               Times(run.state[d][v], Const(mem.dlast[y][d][v])))))
  IN  Of(RuleOf(call, mem, y, by), Span(call, y \div H))

-----------------------------------------------------------------------------
(* What a pass must leave.                                                  *)
ForwardIs(call, mem) ==
  \A y \in 0..(Seqs(call) * H - 1) :
    LET run  == RuleOf(call, mem, y, <<>>)
        span == Span(call, y \div H)
    IN  /\ \A i \in 0..(span[2] - 1) : \A v \in 0..(DV - 1) :
             mem.out[<<span[1] + i, y % H>>][v] = run.out[i + 1][v].v
        /\ \A d \in 0..(DK - 1) : \A v \in 0..(DV - 1) :
             mem.last[<<y, v>>][d] = run.state[d][v].v

GradientsAre(call, mem) ==
  \A y \in 0..(Seqs(call) * H - 1) :
    LET span == Span(call, y \div H)
        h    == y % H
        D(by) == LossOf(call, mem, y, by).d
    IN  /\ \A d \in 0..(DK - 1) : \A v \in 0..(DV - 1) :
             mem.dfirst[<<y, v>>][d] = D(<<"h0", y, d, v>>)
        /\ \A r \in span[1]..(span[1] + span[2] - 1) :
             /\ \A d \in 0..(DK - 1) : /\ mem.dq[<<r, h>>][d] = D(<<"q", r, h, d>>)
                                       /\ mem.dk[<<r, h>>][d] = D(<<"k", r, h, d>>)
             /\ \A v \in 0..(DV - 1) : mem.dv[<<r, h>>][v] = D(<<"v", r, h, v>>)
             /\ mem.dg[<<r, h>>]    = D(<<"g", r, h, 0>>)
             /\ mem.dbeta[<<r, h>>] = D(<<"beta", r, h, 0>>)

-----------------------------------------------------------------------------
(* The decoding kernel over further tokens, call.step, of the sequences a   *)
(* chunked pass left its states of: cube <<y, v>> reads column v, carries   *)
(* it through the sequence's rows and writes it back.  The boundaries are   *)
(* clamped to the rows.                                                     *)
StepSpan(step, s) ==
  LET a == Clamp(step.cu[s + 1], 0, step.t)
      e == step.cu[s + 2]
  IN  IF step.cu = <<>> THEN <<s, s + 1>>
      ELSE <<a, IF e < a THEN a ELSE IF e > step.t THEN step.t ELSE e>>

StepKernel(call, mem, cube) ==
  LET y    == cube[1]
      v    == cube[2]
      h    == y % H
      span == StepSpan(call.step, y \div H)
      in   == mem.step
      Factor(x) == IF call.norm THEN Inv(Root((Dot(DK, x, x) + Eps) % P)) ELSE 1
      after[t \in span[1]..span[2]] ==
        IF t = span[1] THEN [s |-> mem.last[cube], out |-> <<>>]
        ELSE LET r == <<t - 1, h>>
                 before == after[t - 1]
                 k == Vector(DK, LAMBDA d : in.k[r][d] * Factor(in.k[r]))
                 q == Vector(DK, LAMBDA d : ((in.q[r][d] * Factor(in.q[r])) % P) * call.scale)
                 aged  == Vector(DK, LAMBDA d : before.s[d] * in.g[r])
                 delta == ((in.v[r][v] - Dot(DK, aged, k)) * in.beta[r]) % P
                 next  == Vector(DK, LAMBDA d : aged[d] + k[d] * delta)
             IN  [s |-> next, out |-> Append(before.out, Dot(DK, next, q))]
      done == after[span[2]]
  IN  [mem EXCEPT
         !.last[cube] = done.s,
         !.stepout = [rv \in DOMAIN @ |->
                        IF rv[1][2] = h /\ rv[2] = v /\ span[1] <= rv[1][1] /\ rv[1][1] < span[2]
                        THEN done.out[rv[1][1] - span[1] + 1] ELSE @[rv]]]

(* What decoding must leave: the rule over the prompt and then the tokens.  *)
DecodingIs(call, mem) ==
  \A y \in 0..(Seqs(call) * H - 1) :
    LET prompt == RuleOf(call, mem, y, <<>>)
        span   == StepSpan(call.step, y \div H)
        Is(run) ==
          /\ \A i \in 0..(span[2] - span[1] - 1) : \A v \in 0..(DV - 1) :
               mem.stepout[<<<<span[1] + i, y % H>>, v>>] = run.out[i + 1][v].v
          /\ \A d \in 0..(DK - 1) : \A v \in 0..(DV - 1) :
               mem.last[<<y, v>>][d] = run.state[d][v].v
    IN  Is(Run(call, mem.step, span[1], span[2] - span[1], y % H, prompt.state, <<>>))
=============================================================================
