------------------------------- MODULE Autodiff -------------------------------
(***************************************************************************)
(* What dash-ops' operations record on Burn's autodiff, and one backward   *)
(* pass over it.  A Burn node has one output.  An operation with two       *)
(* outputs, or with a gradient that two nodes share, is therefore several  *)
(* nodes that hand gradients over beside the tape:                         *)
(*                                                                         *)
(*   low_rank with a base: the product's node outputs a token; the node    *)
(*     adding the base on it leaves its gradient in a cell for it;         *)
(*   causal_conv1d with final states: the convolution's node outputs a     *)
(*     token; one node for each output leaves its gradient in its place;   *)
(*   chunk_gated_delta with final states: one node outputs both, packed,   *)
(*     and slices of it are the outputs.                                   *)
(*                                                                         *)
(* A gradient is the bag of the ways the loss depends on a value: each a   *)
(* sequence of <<call, output, input>>, the last the nearest the value.    *)
(* Burn itself is external: it runs the nodes the loss depends on level by *)
(* level, from the highest, a node's level being one above its highest     *)
(* input's (the doc of BaseNode), in any order within a level.             *)
(*                                                                         *)
(* A call is [op, ins, outs]: what each of its inputs is, and which        *)
(* outputs it has.  A value is <<k, output>> of the k-th call, <<0, leaf>>,*)
(* or, when the call is before the pass's first, the pass's input.         *)
(***************************************************************************)
EXTENDS Naturals, Sequences, FiniteSetsExt, Functions, Bags, TLC

VARIABLES calls,      \* the calls recorded, in order
          trainable,  \* the leaves that require a gradient
          span,       \* the first and the last call of the pass under way
          tape,       \* the nodes still to run, with their levels
          grads,      \* the gradients registered, a bag for each node
          cells       \* the gradients handed over beside the tape

tapeVars == <<calls, trainable, span, tape, grads, cells>>

Input == <<0, "input">>

HasBase(c) == c.op = "lowrank" /\ "base" \in DOMAIN c.ins
Shares(c) == c.op = "conv" /\ "state" \in c.outs
Packs(c) == c.op = "chunk" /\ "state" \in c.outs

\* The inputs of a call's own node: the base has a node of its own, and the
\* chosen tokens' log-probabilities take the weight as frozen.
Taken(c) == DOMAIN c.ins \ (IF c.op = "logprob" THEN {"weight"} ELSE {"base"})

Roles(c) == IF HasBase(c) THEN {"node", "base"}
            ELSE IF Shares(c) \/ Packs(c) THEN {"node"} \cup c.outs ELSE {"node"}

\* The node that outputs output o of a call.
Role(c, o) == IF HasBase(c) THEN "base" ELSE IF Shares(c) \/ Packs(c) THEN o ELSE "node"

NodeOf(v, first) ==
    IF v[1] = 0 THEN v
    ELSE IF v[1] < first THEN Input ELSE <<v[1], Role(calls[v[1]], v[2])>>

Parents(n, first) ==
    LET c == calls[n[1]] IN
    CASE n[2] = "node" -> [s \in Taken(c) |-> NodeOf(c.ins[s], first)]
      [] n[2] = "base" -> [s \in {"base", "token"} |->
                              IF s = "base" THEN NodeOf(c.ins[s], first) ELSE <<n[1], "node">>]
      [] OTHER -> [s \in {"token"} |-> <<n[1], "node">>]

Elements(f) == {f[s] : s \in DOMAIN f}
With(f, k, x) == [n \in DOMAIN f \cup {k} |-> IF n = k THEN x ELSE f[n]]

\* What calls are: a call takes leaves, and outputs of calls recorded before.
AreCalls(cs) ==
    \A k \in DOMAIN cs :
        LET c == cs[k] IN
        /\ c.outs \in {{"out"}, {"out", "state"}}
        /\ "state" \in c.outs => c.op \in {"conv", "chunk"}
        /\ "base" \in DOMAIN c.ins => c.op = "lowrank"
        /\ IsFiniteSet(DOMAIN c.ins)
        /\ \A s \in DOMAIN c.ins :
              LET v == c.ins[s] IN
              /\ v = <<v[1], v[2]>>
              /\ \/ v[1] = 0 /\ v[2] # "input"
                 \/ v[1] \in 1..(k - 1) /\ v[2] \in cs[v[1]].outs

\* The nodes of calls first..last, and the leaves among `leaves`, that
\* require a gradient: OpsKind::Tracked when one parent at least does.
Tracked(first, last, leaves) ==
    LET Upon(T, N) == T \cup {n \in N : Elements(Parents(n, first)) \cap T # {}}
        upTo[k \in (first - 1)..last] ==
            IF k < first THEN leaves
            ELSE Upon(Upon(upTo[k - 1], {<<k, "node">>}),
                      {<<k, r>> : r \in Roles(calls[k]) \ {"node"}})
    IN  upTo[last]

\* Mutant: only the call's inputs counted, not the token between its nodes.
LevelNoToken(first, last) ==
    LET Above(L, N) ==
            [n \in DOMAIN L \cup N |->
                IF n \in DOMAIN L THEN L[n]
                ELSE 1 + Max({0} \cup {L[p] : p \in (Elements(Parents(n, first)) \ {<<n[1], "node">>})
                                                  \cap DOMAIN L})]
        of[k \in (first - 1)..last] ==
            IF k < first THEN [n \in {} |-> 0]
            ELSE Above(Above(of[k - 1], {<<k, "node">>}),
                       {<<k, r>> : r \in Roles(calls[k]) \ {"node"}})
    IN  of[last]

\* A node's level: one above its highest input's.
Level(first, last) ==
    LET Above(L, N) ==
            [n \in DOMAIN L \cup N |->
                IF n \in DOMAIN L THEN L[n]
                ELSE 1 + Max({0} \cup {L[p] : p \in Elements(Parents(n, first)) \cap DOMAIN L})]
        of[k \in (first - 1)..last] ==
            IF k < first THEN [n \in {} |-> 0]
            ELSE Above(Above(of[k - 1], {<<k, "node">>}),
                       {<<k, r>> : r \in Roles(calls[k]) \ {"node"}})
    IN  of[last]

\* The nodes requiring a gradient that `root` is computed from.
Reached(root, first, tracked) ==
    LET Up(S) == S \cup UNION {Elements(Parents(n, first)) \cap tracked :
                                  n \in {m \in S : m[1] > 0}}
        after[j \in 0..(2 * root[1])] ==   \* two nodes a call at most on a path
            IF j = 0 THEN {root} \cap tracked ELSE Up(after[j - 1])
    IN  after[2 * root[1]]

(***************************************************************************)
(* Gradients.  A way is [part, path]: `part` tells the two halves of a     *)
(* packed output apart.                                                    *)
(***************************************************************************)
Seed == SetToBag({[part |-> "all", path |-> <<>>]})
Copies(w, count) == [v \in {w} |-> count]
Added(bags) == FoldFunction(LAMBDA b, sum : sum (+) b, EmptyBag, bags)
Through(bag, k, o, s) ==
    Added([w \in DOMAIN bag |->
              Copies([part |-> "all", path |-> Append(w.path, <<k, o, s>>)], bag[w])])
InPart(bag, o) ==
    Added([w \in DOMAIN bag |-> Copies([part |-> o, path |-> w.path], bag[w])])
PartOf(bag, o) == [w \in {v \in BagToSet(bag) : v.part = o} |-> bag[w]]
Nothing == [o \in {} |-> EmptyBag]   \* an empty cell

\* Gradients::register: adds to what is there.
Register(into, more) ==
    [n \in DOMAIN into \cup DOMAIN more |->
        IF n \notin DOMAIN more THEN into[n]
        ELSE IF n \notin DOMAIN into THEN more[n] ELSE into[n] (+) more[n]]

\* What a node gives its parents that require a gradient, Gradient(s) to the
\* one at input s.
Given(n, Gradient(_)) ==
    LET parents == Parents(n, span.first)
    IN  [p \in Elements(parents) \cap span.tracked |->
            Added([s \in {i \in DOMAIN parents : parents[i] = p} |-> Gradient(s)])]

\* Gradients::consume, then what the node registers.
Consume(n, given) == grads' = Register([m \in DOMAIN grads \ {n} |-> grads[m]], given)

(***************************************************************************)
(* The nodes.                                                              *)
(***************************************************************************)
\* A node whose output is the call's: Burn's own operations, AttentionNode,
\* LinearCrossEntropyNode, ChosenLogprobBackward, ChunkBackward with nothing
\* packed, LowRankNode with no base, CausalConv1dNode with no final states.
PlainNode(n) ==
    LET k == n[1]
        c == calls[k] IN
    /\ n[2] = "node" /\ ~HasBase(c) /\ ~Shares(c) /\ ~Packs(c)
    /\ Consume(n, Given(n, LAMBDA s : Through(grads[n], k, "out", s)))
    /\ UNCHANGED cells

\* BaseNode: the gradient to the base as it is, and to the low-rank node.
BaseNode(n) ==
    LET k == n[1] IN
    /\ n[2] = "base"
    /\ Consume(n, Given(n, LAMBDA s : IF s = "token" THEN EmptyBag
                                      ELSE Through(grads[n], k, "out", s)))
    /\ cells' = IF <<k, "node">> \in span.tracked
                THEN [cells EXCEPT ![k] = [out |-> grads[n]]] ELSE cells

\* LowRankNode with a base: the gradient left for it, which it expects.
LowRankNode(n) ==
    LET k == n[1] IN
    /\ n[2] = "node" /\ HasBase(calls[k])
    /\ "out" \in DOMAIN cells[k]
    /\ Consume(n, Given(n, LAMBDA s : Through(cells[k].out, k, "out", s)))
    /\ cells' = [cells EXCEPT ![k] = Nothing]

\* HandoverNode: leaves its output's gradient and makes the convolution run.
HandoverNode(n) ==
    LET k == n[1] IN
    /\ n[2] # "node" /\ Shares(calls[k])
    /\ Consume(n, Given(n, LAMBDA s : EmptyBag))
    /\ cells' = [cells EXCEPT ![k] = With(@, n[2], grads[n])]

\* CausalConv1dNode with final states: what was left for it, zeros for an
\* output whose node did not run.
ConvNode(n) ==
    LET k == n[1]
        Left(o) == IF o \in DOMAIN cells[k] THEN cells[k][o] ELSE EmptyBag IN
    /\ n[2] = "node" /\ Shares(calls[k])
    /\ Consume(n, Given(n, LAMBDA s : Through(Left("out"), k, "out", s)
                                      (+) Through(Left("state"), k, "state", s)))
    /\ cells' = [cells EXCEPT ![k] = Nothing]

\* The slice of a packed output, Burn's own.
SliceNode(n) ==
    LET k == n[1] IN
    /\ n[2] # "node" /\ Packs(calls[k])
    /\ Consume(n, Given(n, LAMBDA s : InPart(grads[n], n[2])))
    /\ UNCHANGED cells

\* ChunkBackward with the outputs packed: each half's gradient.
PackedNode(n) ==
    LET k == n[1] IN
    /\ n[2] = "node" /\ Packs(calls[k])
    /\ Consume(n, Given(n, LAMBDA s : Through(PartOf(grads[n], "out"), k, "out", s)
                                      (+) Through(PartOf(grads[n], "state"), k, "state", s)))
    /\ UNCHANGED cells

\* Nodes of one level, the highest left, run in any order.
Highest(n) == \A m \in DOMAIN tape : tape[m] <= tape[n]

Run ==
    \E n \in DOMAIN tape :
        /\ Highest(n)
        /\ n \in DOMAIN grads
        /\ \/ PlainNode(n) \/ BaseNode(n) \/ LowRankNode(n) \/ HandoverNode(n)
           \/ ConvNode(n) \/ SliceNode(n) \/ PackedNode(n)
        /\ tape' = [m \in DOMAIN tape \ {n} |-> tape[m]]
        /\ UNCHANGED <<calls, trainable, span>>

\* Recording calls first..last, whose leaves requiring a gradient are
\* `leaves`, and starting a backward pass at value y with gradient `bag`.
Record(first, last, leaves, y, bag) ==
    LET tracked == Tracked(first, last, leaves)
        root == NodeOf(y, first)
        reached == Reached(root, first, tracked)
        level == Level(first, last)
    IN  /\ span' = [first |-> first, tracked |-> tracked]
        /\ tape' = [n \in {m \in reached : m[1] > 0} |-> level[n]]
        /\ grads' = [n \in {root} |-> bag]
        /\ cells' = [k \in DOMAIN calls |-> Nothing]

\* The pass has run every node.
Ran == DOMAIN tape = {}

(***************************************************************************)
(* The definition: the calls as functions of several outputs.              *)
(***************************************************************************)
Uses(v, K) == UNION {{<<m, o, s>> : o \in calls[m].outs,
                                    s \in {i \in DOMAIN calls[m].ins : calls[m].ins[i] = v}} : m \in K}

\* The gradient of a value that calls first..last take, y's being `bag`:
\* the sum over the calls that take it, each output's gradient through it.
Gradient(v, first, last, y, bag) ==
    LET Sum(w, K, d) == (IF w = y THEN bag ELSE EmptyBag)
                        (+) Added([u \in Uses(w, K) |-> Through(d[u[1]][u[2]], u[1], u[2], u[3])])
        More(d, k) == With(d, k, [o \in calls[k].outs |-> Sum(<<k, o>>, DOMAIN d, d)])
        \* The gradients of the outputs of calls k..last.
        from[k \in first..(last + 1)] ==
            IF k > last THEN [m \in {} |-> Nothing] ELSE More(from[k + 1], k)
    IN  Sum(v, first..last, from[first])

\* Whenever a node may run, the gradient it consumes has been registered,
\* and the low-rank node's base has left the gradient it expects
\* (lowrank.rs:303, which panics otherwise).
NodesReady ==
    \A n \in DOMAIN tape :
        Highest(n) => /\ n \in DOMAIN grads
                      /\ n[2] = "node" /\ HasBase(calls[n[1]]) => "out" \in DOMAIN cells[n[1]]

=============================================================================
