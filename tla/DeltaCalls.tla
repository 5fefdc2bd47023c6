----------------------------- MODULE DeltaCalls -----------------------------
(***************************************************************************)
(* A call of the gated delta rule as the launches of its kernels.  It runs  *)
(* forward and then, in buffers of its own, backward, which knows of the    *)
(* forward pass only the inputs and what was kept for it; or runs forward   *)
(* over a prompt and then decodes.  The device that runs the launches is    *)
(* Operations.                                                              *)
(***************************************************************************)
EXTENDS GatedDeltaTc, DeltaReference, TLC

(* kind "train" or "decode"; path "f32" or "tc", by kernels, or "reference" *)
(* where the device does not take them; keep, whether the forward pass on   *)
(* tensor cores keeps T.                                                    *)
IsCall(c) ==
  /\ c.path \in {"f32", "tc", "reference"} /\ c.kind \in {"train", "decode"} /\ c.keep \in BOOLEAN
  /\ c.b \in Nat /\ c.t \in Nat /\ c.cu \in Seq(Int)
  /\ Packed(c) => c.b = 1 /\ Seqs(c) > 0

(* The boundaries of packed sequences, when they are what they should be.   *)
Ordered(c) ==
  Packed(c) => /\ c.cu[1] = 0 /\ c.cu[Len(c.cu)] = c.t
               /\ \A s \in 1..Seqs(c) : c.cu[s] <= c.cu[s + 1]

-----------------------------------------------------------------------------
(* The launches of each path (forward_fused, backward_fused, tc_forward,    *)
(* tc_backward), "fresh" standing for the buffers allocated between.        *)
Layout(c) == IF Packed(c) THEN <<"plan">> ELSE <<>>

Forward(c) ==
  CASE c.path = "f32" -> Layout(c) \o <<"prep", "decay", "state_forward", "output">>
    [] c.path = "tc"  -> Layout(c) \o <<"tc_prep", "tc_state_forward", "output">>
    [] c.path = "reference" -> <<"reference">>

Backward(c) ==
  CASE c.path = "f32" ->
         Layout(c) \o <<"prep_ta", "decay", "state_forward", "dvlocal", "state_backward", "dvb",
                        "dstate", "dattn", "dwy", "combine">>
    [] c.path = "tc" ->
         Layout(c) \o <<IF c.keep THEN "tc_wu" ELSE "tc_prep_t", "tc_state_forward", "tc_dvlocal",
                        "tc_state_backward", "tc_dqk", "tc_wy">>
    [] c.path = "reference" -> <<"reference_backward">>

Stream(c) ==
  IF c.kind = "train" THEN Forward(c) \o <<"fresh">> \o Backward(c)
  ELSE Forward(c) \o <<IF c.path = "reference" THEN "reference_steps" ELSE "step">>

ReferenceLaunches == {"reference", "reference_backward", "reference_steps"}
StateLaunches == {"state_forward", "tc_state_forward", "state_backward", "tc_state_backward", "step"}

(* The launch's cubes, numbered as the grid numbers them.                   *)
Cubes(c, launch) ==
  IF launch \in StateLaunches
  THEN [i \in 1..Cardinality(PerState(c)) |-> <<(i - 1) \div DV, (i - 1) % DV>>]
  ELSE IF launch \in ReferenceLaunches THEN [i \in 1..(Seqs(c) * H) |-> i - 1]
  ELSE IF launch \in {"plan", "decay", "fresh"} THEN <<0>>
  ELSE [i \in 1..Cardinality(PerChunk(c)) |-> i - 1]

-----------------------------------------------------------------------------
(* Buffers nobody has written: Garbage in each cell a kernel writes whole.  *)
Rows(c) == (0..(c.b * c.t - 1)) \X (0..(H - 1))
Untouched(domain) == [x \in domain |-> Garbage]
Over(f, g) == [x \in (DOMAIN f) \cup (DOMAIN g) |-> IF x \in DOMAIN f THEN f[x] ELSE g[x]]

Scratch(c) ==
  LET chunks  == PerChunk(c)
      columns == chunks \X (0..(DV - 1))
      U(d)    == Untouched(d)
  IN  [offsets |-> Garbage, plan |-> Garbage,
       gamma |-> U(chunks), w |-> U(chunks), u |-> U(chunks), kt |-> U(chunks), kn |-> U(chunks),
       amat |-> U(chunks), gl |-> U(chunks),
       states |-> U(columns), vnew |-> U(columns), dsnext |-> U(columns), dvn |-> U(columns),
       qg |-> U(chunks), dO |-> U(chunks), dvlocal |-> U(chunks), qfactor |-> U(chunks),
       dvb |-> U(chunks), dbetav |-> U(chunks), dqg |-> U(chunks), dkt |-> U(chunks),
       dkbg |-> U(chunks), sds |-> U(chunks), dgp |-> U(chunks), dqattn |-> U(chunks),
       dkattn |-> U(chunks), dga |-> U(chunks), dka |-> U(chunks), dbetaa |-> U(chunks),
       dkpart |-> U(chunks), rgpart |-> U(chunks), rbpart |-> U(chunks), tail |-> U(chunks),
       dfirst |-> U(PerState(c)),
       dq |-> U(Rows(c)), dk |-> U(Rows(c)), dv |-> U(Rows(c)), dg |-> U(Rows(c)), dbeta |-> U(Rows(c))]

(* The inputs: residues, the rows to be normalised of square norm.          *)
Stream1(name) == CASE name = "q" -> 1 [] name = "k" -> 2 [] name = "v" -> 3 [] name = "g" -> 4
                   [] name = "beta" -> 5 [] name = "dout" -> 6 [] name = "h0" -> 7 [] name = "dlast" -> 8
                   [] OTHER -> 9

Inputs(c, rows, salt) ==
  LET Key(r)      == 100 * salt + 10 * r[1] + r[2]
      AnyRow(name, r, depth) == Vector(depth, LAMBDA d : Arbitrary(Stream1(name) + 10 * d, Key(r)))
      (* the first of a family of rows whose square norm has a root         *)
      Normable(name, r) ==
        LET X(n) == Vector(DK, LAMBDA d : Arbitrary(Stream1(name) + 10 * d, Key(r) + 1000 * n))
        IN  X(CHOOSE n \in 0..20 : IsSquare(Dot(DK, X(n), X(n)) + Eps))
  IN  [q |-> [r \in rows |-> Normable("q", r)], k |-> [r \in rows |-> Normable("k", r)],
       v |-> [r \in rows |-> AnyRow("v", r, DV)], g |-> [r \in rows |-> Arbitrary(4, Key(r))],
       beta |-> [r \in rows |-> Arbitrary(5, Key(r))],
       dout |-> [r \in rows |-> AnyRow("dout", r, DV)]]

StateInput(c, name) ==
  [y \in 0..(Seqs(c) * H - 1) |->
     Matrix(DK, DV, LAMBDA d, v : Arbitrary(Stream1(name), 100 * y + 10 * d + v))]

StepRows(c) == (0..(c.step.t - 1)) \X (0..(H - 1))

Allocated(c) ==
  LET kept    == [h0 |-> StateInput(c, "h0"), dlast |-> StateInput(c, "dlast"),
                  out |-> Untouched(Rows(c)), last |-> Untouched(PerState(c)),
                  tmat |-> Untouched(PerChunk(c))]
      decoded == IF c.kind = "decode"
                 THEN [step |-> Inputs(c, StepRows(c), 7),
                       stepout |-> Untouched(StepRows(c) \X (0..(DV - 1)))]
                 ELSE [step |-> <<>>, stepout |-> <<>>]
  IN  Over(Scratch(c), Over(Inputs(c, Rows(c), 0), Over(kept, decoded)))

(* Backward, nothing is left of the forward pass's buffers but the T kept.  *)
Fresh(c, m) ==
  Over(Scratch(c), [m EXCEPT !.tmat = IF c.path = "tc" /\ c.keep THEN @ ELSE Untouched(PerChunk(c))])

-----------------------------------------------------------------------------
Effect(c, m, launch, cube) ==
  CASE launch = "plan"              -> PlanKernel(c, m)
    [] launch = "prep"              -> PrepKernel(c, m, cube, FALSE)
    [] launch = "prep_ta"           -> PrepKernel(c, m, cube, TRUE)
    [] launch = "decay"             -> StateDecay(c, m)
    [] launch = "state_forward"     -> StateForwardKernel(c, m, cube)
    [] launch = "output"            -> OutputKernel(c, m, cube)
    [] launch = "fresh"             -> Fresh(c, m)
    [] launch = "dvlocal"           -> DvLocalKernel(c, m, cube)
    [] launch = "state_backward"    -> StateBackwardKernel(c, m, cube)
    [] launch = "dvb"               -> DvbKernel(c, m, cube)
    [] launch = "dstate"            -> DStateKernel(c, m, cube)
    [] launch = "dattn"             -> DAttnKernel(c, m, cube)
    [] launch = "dwy"               -> DWyKernel(c, m, cube)
    [] launch = "combine"           -> CombineKernel(c, m, cube)
    [] launch = "tc_prep"           -> TcPrepKernel(c, m, cube, c.keep)
    [] launch = "tc_prep_t"         -> TcPrepKernel(c, m, cube, TRUE)
    [] launch = "tc_wu"             -> TcWuKernel(c, m, cube)
    [] launch = "tc_state_forward"  -> TcStateForwardKernel(c, m, cube)
    [] launch = "tc_dvlocal"        -> TcDvLocalKernel(c, m, cube)
    [] launch = "tc_state_backward" -> TcStateBackwardKernel(c, m, cube)
    [] launch = "tc_dqk"            -> TcDqkKernel(c, m, cube)
    [] launch = "tc_wy"             -> TcWyKernel(c, m, cube)
    [] launch = "step"              -> StepKernel(c, m, cube)
    [] launch = "reference"          -> ReferenceForward(c, m, cube)
    [] launch = "reference_backward" -> ReferenceBackward(c, m, cube)
    [] launch = "reference_steps"    -> ReferenceSteps(c, m, cube)

-----------------------------------------------------------------------------
(* Chunks inside the tokens, whatever the boundaries.                       *)
PlanIsInside(c, m) ==
  /\ \A n \in DOMAIN m.plan :
       m.plan[n][2] \in 0..CHUNK /\ m.plan[n][1] + m.plan[n][2] \in 0..c.t
  /\ \A s \in 0..(Seqs(c) - 1) :
       0 <= m.offsets[s] /\ m.offsets[s] <= m.offsets[s + 1] /\ m.offsets[s + 1] <= N(c)

(* And of boundaries as they should be each token in one chunk and no       *)
(* other, a chunk of its own sequence: the plan has room for them all.      *)
Holds(m, n, p) == m.plan[n][1] <= p /\ p < m.plan[n][1] + m.plan[n][2]

PlanIsWhole(c, m) ==
  Ordered(c) =>
    \A s \in 0..(Seqs(c) - 1) : \A p \in c.cu[s + 1]..(c.cu[s + 2] - 1) :
      \E n \in m.offsets[s]..(m.offsets[s + 1] - 1) :
        n \in DOMAIN m.plan /\ Holds(m, n, p) /\ \A o \in DOMAIN m.plan : Holds(m, o, p) => o = n
=============================================================================
