----------------------------- MODULE MCCheckpoint -----------------------------
(***************************************************************************)
(* Checkpoint on small stacks: each operation in a layer of its own kind,  *)
(* with its optional inputs and outputs present and absent, used and not;  *)
(* parameters tied across units; a leaf no layer declares.                 *)
(***************************************************************************)
EXTENDS Checkpoint

P(p) == <<0, p>>
Y(k) == <<k, "out">>
S(k) == <<k, "state">>
One(op, ins) == [op |-> op, ins |-> ins, outs |-> {"out"}]
Two(op, ins) == [op |-> op, ins |-> ins, outs |-> {"out", "state"}]

\* Each unit's calls on the k-th call and after, its input being v.
Embed(k, v) == <<One("mul", [w |-> P("emb")])>>
Tied(k, v) == <<One("loss", [hidden |-> v, weight |-> P("emb")])>>
Logprob(k, v) == <<One("logprob", [hidden |-> v, weight |-> P("frozen")])>>
LoRA(k, v) == <<One("mul", [x |-> v, w |-> P("w")]),
                One("lowrank", [x |-> v, u |-> P("a"), v |-> P("b"), base |-> Y(k)])>>
Low(k, v) == <<One("lowrank", [x |-> v, u |-> P("a"), v |-> P("a")])>>
LowOn(k, v) == <<One("lowrank", [x |-> v, u |-> P("a"), v |-> P("b"), base |-> v])>>
LowBase(k, v) == <<One("lowrank", [x |-> P("c"), u |-> P("a"), v |-> P("b"), base |-> v])>>
Conv(k, v) == <<Two("conv", [x |-> v, weight |-> P("w"), bias |-> P("b"), state |-> P("c")]),
                One("mul", [l |-> Y(k), r |-> S(k)])>>
ConvState(k, v) == <<Two("conv", [x |-> v, weight |-> P("w")]), One("mul", [l |-> S(k)])>>
ConvOut(k, v) == <<Two("conv", [x |-> v, weight |-> P("w"), state |-> P("c")]),
                   One("mul", [l |-> Y(k), r |-> v])>>
ConvBatch(k, v) == <<One("conv", [x |-> v, weight |-> P("w"), bias |-> P("b")])>>
Chunk(k, v) == <<Two("chunk", [q |-> v, k |-> v, v |-> v, beta |-> P("b"), state |-> P("c")]),
                 One("mul", [l |-> S(k), r |-> Y(k)])>>
ChunkState(k, v) == <<Two("chunk", [q |-> v, k |-> v, v |-> P("w")]), One("mul", [l |-> S(k)])>>
ChunkOut(k, v) == <<One("chunk", [q |-> v, k |-> v, v |-> v, beta |-> P("b")])>>
Attention(k, v) == <<One("mul", [x |-> v, w |-> P("w")]),
                     One("attention", [q |-> v, k |-> Y(k), v |-> Y(k)])>>
Foreign(k, v) == <<One("mul", [x |-> v, w |-> P("emb")])>>

Unit(u, k, v) ==
    CASE u = "embed" -> Embed(k, v) [] u = "tied" -> Tied(k, v) [] u = "logprob" -> Logprob(k, v)
      [] u = "lora" -> LoRA(k, v) [] u = "low" -> Low(k, v) [] u = "lowon" -> LowOn(k, v)
      [] u = "lowbase" -> LowBase(k, v)
      [] u = "conv" -> Conv(k, v) [] u = "convstate" -> ConvState(k, v)
      [] u = "convout" -> ConvOut(k, v) [] u = "convbatch" -> ConvBatch(k, v)
      [] u = "chunk" -> Chunk(k, v) [] u = "chunkstate" -> ChunkState(k, v)
      [] u = "chunkout" -> ChunkOut(k, v) [] u = "attention" -> Attention(k, v)
      [] u = "foreign" -> Foreign(k, v)

Joined(units) ==
    LET to[i \in 0..Len(units)] ==
            IF i = 0 THEN [calls |-> <<>>, cuts |-> <<>>]
            ELSE LET n == Len(to[i - 1].calls)
                     more == Unit(units[i], n + 1, Y(n))
                 IN  [calls |-> to[i - 1].calls \o more,
                      cuts |-> Append(to[i - 1].cuts, n + Len(more))]
    IN  to[Len(units)]

LeavesOf(calls_, first, last) ==
    {calls_[k].ins[s][2] : <<k, s>> \in {<<m, i>> \in (first..last) \X
        {"x", "u", "v", "w", "base", "weight", "bias", "state", "q", "k", "beta", "hidden", "l", "r"} :
            i \in DOMAIN calls_[m].ins /\ calls_[m].ins[i][1] = 0}}

Model(units) ==
    LET j == Joined(units)
        from(i) == IF i = 1 THEN 1 ELSE j.cuts[i - 1] + 1
    IN  [calls |-> j.calls, cuts |-> j.cuts,
         own |-> [i \in DOMAIN units |->
                     LeavesOf(j.calls, from(i), j.cuts[i])
                         \ (IF units[i] = "foreign" THEN {"emb"} ELSE {})],
         leaves |-> LeavesOf(j.calls, 1, Len(j.calls)) \ {"frozen"}]

MCModels ==
    {Model(<<"embed", l, "tied">>) : l \in {"low", "lowon", "lowbase", "convbatch", "convout",
                                            "chunkout", "foreign"}}
    \cup {Model(<<"embed", l, l, "tied">>) : l \in {"lora", "conv", "convstate", "chunk",
                                                    "chunkstate", "attention"}}
    \cup {Model(<<"embed", "lora", "convstate", "chunk", "logprob">>)}

=============================================================================
