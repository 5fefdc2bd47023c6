------------------------------ MODULE Checkpoint ------------------------------
(***************************************************************************)
(* A training step through a stack of layers that are run again in the     *)
(* backward pass: dash_ops::checkpoint over Burn's autodiff, as the doc of *)
(* the module writes it out, and dash_mlx::checkpoint over MLX's VJPs.     *)
(*                                                                         *)
(* The model is a sequence of calls cut into units: what comes before the  *)
(* stack (unit 1), the layers, and what comes after it (the last unit).    *)
(* `way` is how the step runs:                                             *)
(*   "plain"  one pass through every call;                                 *)
(*   "burn"   a pass through the last unit, one through each layer from    *)
(*            the last, one through unit 1, gradients added up between;    *)
(*   "mlx"    a VJP of each layer, from the last, its gradients its own.   *)
(* MLX's VJP is external and taken as the definition of a unit's gradient. *)
(***************************************************************************)
EXTENDS Autodiff

CONSTANT Models   \* [calls, cuts, own, leaves]: the calls, each unit's last
                  \* call, the parameters of each unit's module, all the
                  \* leaves that may require a gradient

\* A unit has calls, and takes of what the others compute only the output of
\* the last call of the one below: a layer's function has one argument.
\* What is computed before the stack is a module's (backward_through is given
\* it), and the weight chosen_logprob takes is frozen: it panics otherwise.
IsModel(m) ==
    /\ m.calls \in Seq(Elements(m.calls)) /\ AreCalls(m.calls)
    /\ m.cuts \in Seq(1..Len(m.calls)) /\ Len(m.cuts) >= 2
    /\ m.cuts[Len(m.cuts)] = Len(m.calls)
    /\ \A i \in 2..Len(m.cuts) :
        /\ m.cuts[i - 1] < m.cuts[i]
        /\ \A k \in (m.cuts[i - 1] + 1)..m.cuts[i] : \A s \in DOMAIN m.calls[k].ins :
              LET v == m.calls[k].ins[s]
              IN  v[1] \in 1..m.cuts[i - 1] => v = <<m.cuts[i - 1], "out">>
    /\ DOMAIN m.own = DOMAIN m.cuts /\ "input" \notin m.leaves
    /\ \A k \in DOMAIN m.calls : \A s \in DOMAIN m.calls[k].ins :
          LET v == m.calls[k].ins[s] IN
          /\ k <= m.cuts[1] /\ v[1] = 0 /\ v[2] \in m.leaves => v[2] \in m.own[1]
          /\ m.calls[k].op = "logprob" /\ s = "weight" => v[1] = 0 /\ v[2] \notin m.leaves

ASSUME ModelsAssumption == \A m \in Models : IsModel(m)

VARIABLES way,    \* how the step runs
          cuts,   \* the last call of each unit
          own,    \* the parameters of each unit's module
          stage,  \* "forward", "pass", "done" or "failed"
          at,     \* the unit at work
          seen,   \* the gradients collected, for each unit they are kept by
          held    \* the layers whose arrays are the transform's

vars == <<calls, trainable, span, tape, grads, cells, way, cuts, own, stage, at, seen, held>>

Units == Len(cuts)
First(i) == IF i = 1 THEN 1 ELSE cuts[i - 1] + 1
Last(i) == cuts[i]
Layers == 2..(Units - 1)
Out(i) == <<Last(i), "out">>   \* a unit's output

Init ==
    \E m \in Models, w \in {"plain", "burn", "mlx"} :
        /\ calls = m.calls /\ cuts = m.cuts /\ own = m.own /\ way = w
        /\ trainable \in {{<<0, p>> : p \in S} : S \in SUBSET m.leaves}
        /\ span = [first |-> 1, tracked |-> {}]
        /\ tape = [n \in {} |-> 0] /\ grads = tape /\ seen = tape
        /\ cells = [k \in DOMAIN m.calls |-> Nothing]
        /\ held = {}
        /\ stage = IF w = "plain" THEN "pass" ELSE "forward"
        /\ at = IF w = "plain" THEN 0 ELSE 2

Keep == UNCHANGED <<calls, trainable, way, cuts, own>>
Own(i) == {<<0, p>> : p \in own[i]}
Kept(i, into) == [n \in {<<i, p>> : p \in DOMAIN into} |-> into[n[2]]]
InputGradient == IF Input \in DOMAIN grads THEN grads[Input] ELSE EmptyBag

(***************************************************************************)
(* dash-ops.                                                               *)
(***************************************************************************)
\* forward: a layer runs with its parameters frozen and its input is kept;
\* one whose output is recorded all the same is refused.
ForwardLayer ==
    /\ way = "burn" /\ stage = "forward" /\ at \in Layers
    /\ IF NodeOf(Out(at), First(at)) \in Tracked(First(at), Last(at), trainable \ Own(at))
       THEN stage' = "failed" /\ UNCHANGED at
       ELSE at' = at + 1 /\ UNCHANGED stage
    /\ Keep /\ UNCHANGED <<span, tape, grads, cells, seen, held>>

\* The loss, recorded from the stack's output, and its backward pass.
HeadPass ==
    /\ way = "burn" /\ stage = "forward" /\ at = Units
    /\ Record(First(at), Last(at), trainable \cup {Input}, Out(at), Seed)
    /\ stage' = "pass"
    /\ Keep /\ UNCHANGED <<at, seen, held>>

\* Mutant: a parameter used by two layers keeps the last one's.
CollectLast(i) ==
    seen' = Kept(0, [p \in DOMAIN grads \cap trainable
                                \cap (IF i = Units THEN trainable ELSE Own(i)) |-> grads[p]]) @@ seen

\* Accumulate: the gradients of the module's parameters, to those collected.
\* The loss's own pass starts the collection with everything it reached.
Collect(i) ==
    seen' = Register(seen, Kept(0, [p \in DOMAIN grads \cap trainable
                                        \cap (IF i = Units THEN trainable ELSE Own(i)) |-> grads[p]]))

\* backward: the layer below is run again from its saved input, a leaf, and
\* the gradient of the layer's input carried through it; at the bottom,
\* backward_through carries it into what computed the stack's input, when
\* that is recorded.
LayerPass ==
    /\ way = "burn" /\ stage = "pass" /\ at > 1 /\ Ran
    /\ Collect(at)
    /\ LET i == at - 1
           leaves == trainable \cup (IF i = 1 THEN {} ELSE {Input}) IN
       /\ at' = i
       /\ IF NodeOf(Out(i), First(i)) \in Tracked(First(i), Last(i), leaves)
          THEN /\ Record(First(i), Last(i), leaves, Out(i), InputGradient)
               /\ UNCHANGED stage
          ELSE /\ stage' = "done"
               /\ UNCHANGED <<span, tape, grads, cells>>
    /\ Keep /\ UNCHANGED held

LastPass ==
    /\ way = "burn" /\ stage = "pass" /\ at = 1 /\ Ran
    /\ Collect(1)
    /\ stage' = "done"
    /\ Keep /\ UNCHANGED <<span, tape, grads, cells, at, held>>

\* Burn's autodiff alone, through every call at once.
PlainPass ==
    /\ way = "plain" /\ stage = "pass" /\ at = 0
    /\ NodeOf(Out(Units), 1) \in Tracked(1, Last(Units), trainable)
    /\ Record(1, Last(Units), trainable, Out(Units), Seed)
    /\ at' = Units
    /\ Keep /\ UNCHANGED <<stage, seen, held>>

PlainEnd ==
    /\ way = "plain" /\ stage = "pass" /\ Ran
    /\ at = 0 => NodeOf(Out(Units), 1) \notin Tracked(1, Last(Units), trainable)
    /\ Collect(Units)
    /\ stage' = "done"
    /\ Keep /\ UNCHANGED <<span, tape, grads, cells, at, held>>

RunNode == stage = "pass" /\ Run /\ UNCHANGED <<way, cuts, own, stage, at, seen, held>>

(***************************************************************************)
(* dash-mlx.                                                               *)
(***************************************************************************)
MlxForward ==
    /\ way = "mlx" /\ stage = "forward" /\ at \in Layers
    /\ \/ at' = at + 1 /\ UNCHANGED stage
       \/ stage' = "failed" /\ UNCHANGED at
    /\ Keep /\ UNCHANGED <<span, tape, grads, cells, seen, held>>

\* The loss's gradient with respect to the stack's output, the caller's.
MlxHead ==
    /\ way = "mlx" /\ stage = "forward" /\ at = Units
    /\ grads' = [n \in {Input} |-> Gradient(Out(at - 1), First(at), Last(at), Out(at), Seed)]
    /\ stage' = "pass" /\ at' = at - 1
    /\ Keep /\ UNCHANGED <<span, tape, cells, seen, held>>

\* The layer, run under the transform, holds the transform's arrays.
MlxTrace ==
    /\ way = "mlx" /\ stage = "pass" /\ at \in Layers \ held
    /\ held' = held \cup {at}
    /\ Keep /\ UNCHANGED <<span, tape, grads, cells, stage, at, seen>>

\* fallible_vjp fails, before it runs the layer or after, and `?` returns: what
\* arrays the layer holds then it keeps.
MlxFail ==
    /\ way = "mlx" /\ stage = "pass" /\ at \in Layers
    /\ stage' = "failed"
    /\ Keep /\ UNCHANGED <<span, tape, grads, cells, at, seen, held>>

\* The layer holds its own again, and then its gradients cannot be evaluated;
\* or they are, and its input's goes on down.
MlxEvalFails ==
    /\ way = "mlx" /\ stage = "pass" /\ at \in held
    /\ stage' = "failed" /\ held' = held \ {at}
    /\ Keep /\ UNCHANGED <<span, tape, grads, cells, at, seen>>

\* Mutant: the layer's own arrays not put back.
MlxLayerKeeping ==
    /\ way = "mlx" /\ stage = "pass" /\ at \in held
    /\ LET Vjp(v) == Gradient(v, First(at), Last(at), Out(at), grads[Input]) IN
       /\ grads' = [n \in {Input} |-> Vjp(Out(at - 1))]
       /\ seen' = Register(seen, Kept(at, [p \in Own(at) \cap trainable |-> Vjp(p)]))
    /\ at' = at - 1
    /\ Keep /\ UNCHANGED <<span, tape, cells, stage, held>>

MlxLayer ==
    /\ way = "mlx" /\ stage = "pass" /\ at \in held
    /\ LET Vjp(v) == Gradient(v, First(at), Last(at), Out(at), grads[Input]) IN
       /\ grads' = [n \in {Input} |-> Vjp(Out(at - 1))]
       /\ seen' = Register(seen, Kept(at, [p \in Own(at) \cap trainable |-> Vjp(p)]))
    /\ held' = held \ {at}
    /\ at' = at - 1
    /\ Keep /\ UNCHANGED <<span, tape, cells, stage>>

MlxEnd ==
    /\ way = "mlx" /\ stage = "pass" /\ at = 1
    /\ stage' = "done"
    /\ Keep /\ UNCHANGED <<span, tape, grads, cells, at, seen, held>>

Next == ForwardLayer \/ HeadPass \/ LayerPass \/ LastPass \/ PlainPass \/ PlainEnd \/ RunNode
        \/ MlxForward \/ MlxHead \/ MlxTrace \/ MlxFail \/ MlxEvalFails
        \/ MlxLayer \/ MlxEnd
Ended == stage \in {"done", "failed"} /\ UNCHANGED vars

\* A step that can neither go on nor has ended is a deadlock.
Spec == Init /\ [][Next \/ Ended]_vars

(***************************************************************************)
(* Properties.                                                             *)
(***************************************************************************)
Whole(v) == Gradient(v, 1, Last(Units), Out(Units), Seed)
SeenOf(n) == IF n \in DOMAIN seen THEN seen[n] ELSE EmptyBag

\* Plain autodiff and the checkpointed step give every trainable parameter,
\* shared between units or used twice in one, the sum of its gradients and
\* nothing else, whichever of an operation's outputs are used; a frozen one
\* gets none (checkpoint.rs:29).  A stack is refused only for a tensor that
\* requires a gradient and is not a parameter of the layer that uses it.
SumsArePlain ==
    /\ way # "mlx" /\ stage = "done" =>
        /\ DOMAIN seen \subseteq {0} \X trainable
        /\ \A p \in trainable : SeenOf(<<0, p>>) = Whole(p)
    /\ way = "burn" /\ stage = "failed" =>
        \E k \in First(at)..Last(at) : \E s \in DOMAIN calls[k].ins :
            calls[k].ins[s] \in trainable \ Own(at)

\* The part of p's gradient that goes through unit i's use of it.
PartThrough(i, p) ==
    LET all == Whole(p)
    IN  [w \in {v \in BagToSet(all) : v.path[Len(v.path)][1] \in First(i)..Last(i)} |-> all[w]]

\* On MLX each layer's parameters end with the part of the gradient that goes
\* through that layer's use of them, and the stack's input with all of its own, every
\* layer holding its own arrays again.  A step that fails leaves the transform's in
\* one layer at most, the one it failed at: every other holds its own (the code does
\* not put the failing one's back, dash-mlx checkpoint.rs:106).
MlxEndsWhole ==
    /\ way = "mlx" /\ stage = "done" =>
        /\ grads[Input] = Whole(Out(1)) /\ held = {}
        /\ \A i \in Layers : \A p \in Own(i) \cap trainable :
            SeenOf(<<i, p>>) = PartThrough(i, p)
    /\ stage = "failed" => held \subseteq {at}

=============================================================================
