--------------------------- MODULE Checkpoint_proofs ---------------------------
(***************************************************************************)
(* A checkpointed step, for every stack: any number of layers, any calls in *)
(* them, any choice of trainable parameters.                               *)
(*                                                                         *)
(*   NodesAreReady  the nodes of a pass run in an order that suits them;   *)
(*   ChainRule      a unit's gradients from its output's are the step's;   *)
(*   MlxEndsRight   a step on MLX gives them;                              *)
(*   SumsAreWhole   so do a plain step and a checkpointed one on Burn's    *)
(*                  tape.                                                  *)
(*                                                                         *)
(* What a recursive function holds at every argument is proved here by     *)
(* induction over a set of naturals, those at which it does.               *)
(***************************************************************************)
EXTENDS Checkpoint, FiniteSetTheorems, WellFoundedInduction, TLAPS

\* A set that has 0, and with a number the next, has every natural.
LEMMA EveryNatural ==
  ASSUME NEW S, 0 \in S, \A n \in Nat : n \in S => n + 1 \in S
  PROVE  Nat \subseteq S
<1> DEFINE Below == OpToRel(<, Nat)
<1>1. IsWellFoundedOn(Below, Nat)
  BY NatLessThanWellFounded
<1>2. \A x, y \in Nat : x < y => <<x, y>> \in Below
  BY DEF OpToRel
<1> HIDE DEF Below
<1>3. SUFFICES ASSUME Nat \ S # {} PROVE FALSE
  OBVIOUS
<1>4. PICK n \in Nat \ S : \A k \in Nat \ S : ~ (<<k, n>> \in Below)
  BY <1>1, <1>3, WFMin
<1>5. n # 0 /\ n - 1 \in Nat /\ n - 1 < n
  BY <1>4
<1>6. n - 1 \in S
  BY <1>2, <1>4, <1>5
<1> QED BY <1>4, <1>5, <1>6

\* A bounded set of naturals has a greatest.
LEMMA Greatest ==
  ASSUME NEW S, S \subseteq Nat, S # {}, NEW b \in Nat, \A x \in S : x <= b
  PROVE  Max(S) \in S /\ \A x \in S : x <= Max(S)
<1> DEFINE T == {c \in Nat : (\A x \in S : x <= c) => \E g \in S : \A x \in S : g >= x}
<1>1. 0 \in T
  <2> SUFFICES ASSUME \A x \in S : x <= 0 PROVE \E g \in S : \A x \in S : g >= x
    OBVIOUS
  <2>1. PICK g \in S : TRUE
    OBVIOUS
  <2> QED BY <2>1
<1>2. ASSUME NEW n \in Nat, n \in T PROVE n + 1 \in T
  <2> SUFFICES ASSUME \A x \in S : x <= n + 1 PROVE \E g \in S : \A x \in S : g >= x
    OBVIOUS
  <2>1. CASE n + 1 \in S
    BY <2>1
  <2>2. CASE n + 1 \notin S
    <3>1. \A x \in S : x <= n
      BY <2>2
    <3> QED BY <1>2, <3>1
  <2> QED BY <2>1, <2>2
<1>3. b \in T
  <2> HIDE DEF T
  <2> QED BY <1>1, <1>2, EveryNatural
<1>4. \E g \in S : \A x \in S : g >= x
  BY <1>3
<1>5. Max(S) \in S /\ \A x \in S : Max(S) >= x
  BY <1>4 DEF Max
<1> QED BY <1>5

-----------------------------------------------------------------------------
(* The nodes of calls: no way goes round.                                   *)

Called == calls \in Seq(Elements(calls)) /\ AreCalls(calls)
NodesOf(first, last) ==
  {n \in (first .. last) \X {"node", "base", "out", "state"} : n[2] \in Roles(calls[n[1]])}
Rank(n) == 2 * n[1] + IF n[2] = "node" THEN 0 ELSE 1

\* What a call's inputs are.
LEMMA Inputs ==
  ASSUME Called, NEW k \in DOMAIN calls, NEW s \in DOMAIN calls[k].ins
  PROVE  LET v == calls[k].ins[s] IN
         /\ v = <<v[1], v[2]>>
         /\ \/ v[1] = 0 /\ v[2] # "input"
            \/ /\ v[1] \in 1 .. (k - 1) /\ v[1] \in DOMAIN calls
               /\ v[2] \in calls[v[1]].outs /\ v[2] \in {"out", "state"}
<1>1. /\ calls[k].ins[s] = <<calls[k].ins[s][1], calls[k].ins[s][2]>>
      /\ \/ calls[k].ins[s][1] = 0 /\ calls[k].ins[s][2] # "input"
         \/ /\ calls[k].ins[s][1] \in 1 .. (k - 1)
            /\ calls[k].ins[s][2] \in calls[calls[k].ins[s][1]].outs
  BY DEF Called, AreCalls
<1>2. DOMAIN calls = 1 .. Len(calls) /\ Len(calls) \in Nat
  BY DEF Called
<1>3. \A j \in DOMAIN calls : calls[j].outs \subseteq {"out", "state"}
  BY DEF Called, AreCalls
<1> QED BY <1>1, <1>2, <1>3

\* An output is of one of its call's nodes, a low-rank product's with a base of its base's.
LEMMA OutputsNode ==
  ASSUME Called, NEW k \in DOMAIN calls, NEW o \in calls[k].outs
  PROVE  /\ Role(calls[k], o) \in Roles(calls[k]) /\ Roles(calls[k]) \subseteq {"node", "base", "out", "state"}
         /\ HasBase(calls[k]) => Role(calls[k], o) = "base"
<1>1. calls[k].outs \subseteq {"out", "state"}
  BY DEF Called, AreCalls
<1> QED BY <1>1 DEF Role, Roles

\* A node's parents come before it, and are leaves or nodes of the pass.
LEMMA ParentsBefore ==
  ASSUME Called, NEW first \in Nat \ {0}, NEW n \in NodesOf(first, Len(calls)),
         NEW p \in Elements(Parents(n, first))
  PROVE  /\ p[1] = 0 \/ p \in NodesOf(first, n[1])
         /\ p[1] \in Nat /\ Rank(p) < Rank(n)
         /\ HasBase(calls[p[1]]) /\ p[2] = "node" /\ p[1] > 0 => n = <<p[1], "base">>
<1> DEFINE k == n[1]
<1>1. /\ k \in first .. Len(calls) /\ k \in DOMAIN calls /\ Len(calls) \in Nat
      /\ n[2] \in {"node", "base", "out", "state"} /\ n[2] \in Roles(calls[k]) /\ n = <<k, n[2]>>
      /\ DOMAIN calls = 1 .. Len(calls)
  BY DEF NodesOf, Called
<1>2. ASSUME NEW s \in DOMAIN calls[k].ins, p = NodeOf(calls[k].ins[s], first)
      PROVE  /\ p[1] = 0 \/ (p \in NodesOf(first, k - 1) /\ p[1] \in first .. (k - 1))
             /\ p[1] \in Nat
             /\ HasBase(calls[p[1]]) /\ p[2] = "node" => p[1] = 0
  <2> DEFINE v == calls[k].ins[s]
  <2>1. /\ v = <<v[1], v[2]>>
        /\ \/ v[1] = 0
           \/ v[1] \in 1 .. (k - 1) /\ v[1] \in DOMAIN calls /\ v[2] \in calls[v[1]].outs
    BY <1>1, Inputs
  <2> HIDE DEF v
  <2>2. CASE v[1] = 0
    BY <1>2, <2>2 DEF NodeOf, v
  <2>3. CASE v[1] # 0 /\ v[1] < first
    BY <1>2, <2>3 DEF NodeOf, v, Input
  <2>4. CASE v[1] # 0 /\ ~(v[1] < first)
    <3>1. p = <<v[1], Role(calls[v[1]], v[2])>>
      BY <1>2, <2>4 DEF NodeOf, v
    <3>2. v[1] \in 1 .. (k - 1) /\ v[1] \in DOMAIN calls /\ v[2] \in calls[v[1]].outs
      BY <2>1, <2>4
    <3>3. v[1] \in first .. (k - 1)
      BY <1>1, <2>4, <3>2
    <3>4. /\ Role(calls[v[1]], v[2]) \in Roles(calls[v[1]])
          /\ Roles(calls[v[1]]) \subseteq {"node", "base", "out", "state"}
          /\ HasBase(calls[v[1]]) => Role(calls[v[1]], v[2]) = "base"
      BY <3>2, OutputsNode
    <3> QED BY <3>1, <3>3, <3>4 DEF NodesOf
  <2> QED BY <2>1, <2>2, <2>3, <2>4
<1>3. NodesOf(first, k - 1) \subseteq NodesOf(first, k)
  BY <1>1 DEF NodesOf
<1>4. ASSUME NEW s \in DOMAIN calls[k].ins, p = NodeOf(calls[k].ins[s], first)
      PROVE  Rank(p) < Rank(n)
  BY <1>1, <1>2, <1>4 DEF Rank
<1>5. CASE n[2] = "node"
  <2>1. PICK s \in DOMAIN calls[k].ins : p = NodeOf(calls[k].ins[s], first)
    BY <1>5 DEF Parents, Elements, Taken
  <2> QED BY <1>2, <1>3, <1>4, <2>1
<1>6. CASE n[2] = "base"
  <2>1. HasBase(calls[k])
    <3>1. calls[k].outs \subseteq {"out", "state"}
      BY <1>1 DEF Called, AreCalls
    <3> QED BY <1>1, <1>6, <3>1 DEF Roles
  <2>2. \/ p = NodeOf(calls[k].ins["base"], first) /\ "base" \in DOMAIN calls[k].ins
        \/ p = <<k, "node">>
    BY <1>6, <2>1 DEF Parents, Elements, HasBase
  <2>3. CASE p = <<k, "node">>
    <3>1. p \in NodesOf(first, k)
      BY <1>1, <2>3 DEF NodesOf, Roles
    <3> QED BY <1>1, <1>6, <2>3, <3>1 DEF Rank
  <2> QED BY <1>2, <1>3, <1>4, <2>2, <2>3
<1>7. CASE n[2] \notin {"node", "base"}
  <2>1. p = <<k, "node">>
    BY <1>7 DEF Parents, Elements
  <2>2. ~HasBase(calls[k])
    BY <1>1, <1>7 DEF Roles
  <2>3. p \in NodesOf(first, k)
    BY <1>1, <2>1 DEF NodesOf, Roles
  <2> QED BY <1>1, <1>7, <2>1, <2>2, <2>3 DEF Rank
<1> QED BY <1>5, <1>6, <1>7
-----------------------------------------------------------------------------
(* The levels: a node's is above its parents'.                              *)

Levels(L, D, first) ==
  /\ DOMAIN L = D
  /\ \A n \in D : /\ L[n] \in 0 .. Rank(n)
                  /\ \A p \in Elements(Parents(n, first)) \cap D : L[p] < L[n]

Closed(D, first) == \A n \in D : \A p \in Elements(Parents(n, first)) : p[1] = 0 \/ p \in D

Raised(L, N, first) ==
  [n \in DOMAIN L \cup N |->
     IF n \in DOMAIN L THEN L[n]
     ELSE 1 + Max({0} \cup {L[p] : p \in Elements(Parents(n, first)) \cap DOMAIN L})]

\* Nodes whose parents have their levels get theirs.
LEMMA RaisedLevels ==
  ASSUME NEW first \in Nat \ {0}, NEW D, NEW N, NEW L, Levels(L, D, first), Closed(D, first),
         D \cap N = {}, \A n \in D \cup N : n[1] \in Nat,
         \A n \in D \cup N : n[1] > 0,
         \A n \in N : \A p \in Elements(Parents(n, first)) : p[1] = 0 \/ p \in D,
         \A n \in D \cup N : \A p \in Elements(Parents(n, first)) : Rank(p) < Rank(n)
  PROVE  Levels(Raised(L, N, first), D \cup N, first) /\ Closed(D \cup N, first)
<1> DEFINE M == Raised(L, N, first)
           Below(n) == {0} \cup {L[p] : p \in Elements(Parents(n, first)) \cap DOMAIN L}
<1>1. DOMAIN L = D
  BY DEF Levels
<1>2. DOMAIN M = D \cup N /\ (\A n \in D : M[n] = L[n]) /\ \A n \in N : M[n] = 1 + Max(Below(n))
  BY <1>1 DEF Raised
<1>3. \A n \in D \cup N : Rank(n) \in Nat \ {0}
  BY DEF Rank
<1>4. ASSUME NEW n \in N
      PROVE  /\ Max(Below(n)) \in Nat /\ Max(Below(n)) <= Rank(n) - 1
             /\ \A p \in Elements(Parents(n, first)) \cap D : L[p] <= Max(Below(n))
  <2>1. \A p \in Elements(Parents(n, first)) \cap D : L[p] \in Nat /\ L[p] <= Rank(n) - 1
    <3> SUFFICES ASSUME NEW p \in Elements(Parents(n, first)) \cap D
                 PROVE  L[p] \in Nat /\ L[p] <= Rank(n) - 1
      OBVIOUS
    <3>1. L[p] \in 0 .. Rank(p) /\ Rank(p) < Rank(n) /\ Rank(p) \in Nat /\ Rank(n) \in Nat
      BY <1>3 DEF Levels
    <3> QED BY <3>1
  <2>2. Below(n) \subseteq Nat /\ Below(n) # {} /\ \A x \in Below(n) : x <= Rank(n) - 1
    BY <1>1, <1>3, <2>1
  <2>3. Rank(n) - 1 \in Nat
    BY <1>3
  <2> HIDE DEF Below
  <2>4. Max(Below(n)) \in Below(n) /\ \A x \in Below(n) : x <= Max(Below(n))
    BY <2>2, <2>3, Greatest
  <2>5. \A p \in Elements(Parents(n, first)) \cap D : L[p] \in Below(n)
    BY <1>1 DEF Below
  <2> QED BY <2>2, <2>4, <2>5
<1> HIDE DEF M, Below
<1>5. ASSUME NEW n \in D \cup N
      PROVE  /\ M[n] \in 0 .. Rank(n)
             /\ \A p \in Elements(Parents(n, first)) \cap (D \cup N) : M[p] < M[n]
  <2>1. \A p \in Elements(Parents(n, first)) \cap (D \cup N) : p \in D
    BY DEF Closed
  <2>2. CASE n \in D
    BY <1>2, <2>1, <2>2 DEF Levels
  <2>3. CASE n \in N
    <3>1. M[n] = 1 + Max(Below(n)) /\ Rank(n) \in Nat
      BY <1>2, <1>3, <2>3
    <3>2. \A p \in Elements(Parents(n, first)) \cap D : M[p] = L[p] /\ L[p] \in Nat
      BY <1>2, <1>3 DEF Levels
    <3> QED BY <1>4, <2>1, <2>3, <3>1, <3>2
  <2> QED BY <2>2, <2>3
<1>6. Closed(D \cup N, first)
  BY DEF Closed
<1> QED BY <1>2, <1>5, <1>6 DEF Levels, M
\* One call more: its own node, then those above it.
RaisedBy(L, k, first) ==
  Raised(Raised(L, {<<k, "node">>}, first), {<<k, r>> : r \in Roles(calls[k]) \ {"node"}}, first)

\* The levels after each call.
LEMMA LevelSteps ==
  ASSUME NEW first \in Nat \ {0}, NEW last \in Nat, first <= last
  PROVE  \E of : /\ of[first - 1] = [n \in {} |-> 0]
                 /\ \A k \in first .. last : of[k] = RaisedBy(of[k - 1], k, first)
                 /\ Level(first, last) = of[last]
<1> DEFINE E == [n \in {} |-> 0]
           R(L, k) == RaisedBy(L, k, first)
           F(g, k) == IF k < first THEN E ELSE R(g[k - 1], k)
           S == {j \in Nat : \E g : g = [k \in (first - 1) .. (first - 1 + j) |-> F(g, k)]}
           of == CHOOSE g : g = [k \in (first - 1) .. last |-> F(g, k)]
<1>1. Level(first, last) = of[last]
  BY Zenon DEF Level, RaisedBy, Raised
<1> HIDE DEF E, R
<1>2. 0 \in S
  <2> DEFINE g == [k \in (first - 1) .. (first - 1) |-> E]
  <2>1. g = [k \in (first - 1) .. (first - 1 + 0) |-> F(g, k)]
    OBVIOUS
  <2> QED BY <2>1
<1>3. ASSUME NEW j \in Nat, j \in S PROVE j + 1 \in S
  <2>1. PICK g : g = [k \in (first - 1) .. (first - 1 + j) |-> F(g, k)]
    BY <1>3
  <2> DEFINE h == [k \in (first - 1) .. (first - 1 + (j + 1)) |->
                     IF k = first + j THEN R(g[k - 1], k) ELSE g[k]]
  <2>2. ASSUME NEW k \in (first - 1) .. (first - 1 + (j + 1)) PROVE h[k] = F(h, k)
    <3>1. CASE k = first + j
      <4>1. k - 1 \in (first - 1) .. (first - 1 + j) /\ k - 1 # first + j /\ ~(k < first)
        BY <3>1
      <4> QED BY <3>1, <4>1
    <3>2. CASE k # first + j
      <4>1. k \in (first - 1) .. (first - 1 + j)
        BY <3>2
      <4>2. h[k] = F(g, k)
        BY <2>1, <3>2, <4>1
      <4>3. ~(k < first) => k - 1 \in (first - 1) .. (first - 1 + j) /\ h[k - 1] = g[k - 1]
        BY <4>1
      <4> QED BY <4>2, <4>3
    <3> QED BY <3>1, <3>2
  <2>3. h = [k \in (first - 1) .. (first - 1 + (j + 1)) |-> F(h, k)]
    BY <2>2
  <2> HIDE DEF h, F
  <2>4. \E x : x = [k \in (first - 1) .. (first - 1 + (j + 1)) |-> F(x, k)]
    BY <2>3
  <2> QED BY <2>4
<1>4. last - first + 1 \in S
  <2> HIDE DEF S
  <2> QED BY <1>2, <1>3, EveryNatural
<1>5. \E g : g = [k \in (first - 1) .. last |-> F(g, k)]
  BY <1>4
<1>6. of = [k \in (first - 1) .. last |-> F(of, k)]
  BY <1>5
<1> HIDE DEF of
<1>7. of[first - 1] = E /\ \A k \in first .. last : of[k] = R(of[k - 1], k)
  BY <1>6
<1> QED BY <1>1, <1>7 DEF E, R
\* One call's nodes get their levels.
LEMMA RaisedCall ==
  ASSUME Called, NEW first \in Nat \ {0}, NEW k \in first .. Len(calls), NEW L,
         Levels(L, NodesOf(first, k - 1), first), Closed(NodesOf(first, k - 1), first)
  PROVE  /\ Levels(RaisedBy(L, k, first), NodesOf(first, k), first)
         /\ Closed(NodesOf(first, k), first)
<1> DEFINE D == NodesOf(first, k - 1)
           N == {<<k, "node">>}
           O == {<<k, r>> : r \in Roles(calls[k]) \ {"node"}}
           All == NodesOf(first, Len(calls))
<1>0. Len(calls) \in Nat /\ DOMAIN calls = 1 .. Len(calls) /\ k \in DOMAIN calls
  BY DEF Called
<1>1. Roles(calls[k]) \subseteq {"node", "base", "out", "state"} /\ "node" \in Roles(calls[k])
  <2>1. calls[k].outs \subseteq {"out", "state"}
    BY <1>0 DEF Called, AreCalls
  <2> QED BY <2>1 DEF Roles
<1>2. D \cup N \subseteq All /\ (D \cup N) \cup O = NodesOf(first, k) /\ NodesOf(first, k) \subseteq All
  BY <1>0, <1>1 DEF NodesOf
<1>3. \A n \in All : /\ n[1] \in Nat /\ n[1] > 0
                     /\ n = <<n[1], n[2]>> /\ n[1] \in first .. Len(calls) /\ n[2] \in Roles(calls[n[1]])
  BY <1>0 DEF NodesOf
<1>4. /\ \A n \in D : n[1] < k
      /\ \A n \in N : n[1] = k /\ n[2] = "node"
      /\ \A n \in O : n[1] = k /\ n[2] # "node"
  BY <1>0 DEF NodesOf
<1>5. D \cap N = {} /\ (D \cup N) \cap O = {}
  BY <1>4
<1>6. \A n \in All : \A p \in Elements(Parents(n, first)) :
        /\ p[1] = 0 \/ p \in NodesOf(first, n[1])
        /\ p[1] \in Nat /\ Rank(p) < Rank(n)
  BY ParentsBefore
<1>7. \A n \in N : \A p \in Elements(Parents(n, first)) : p[1] = 0 \/ p \in D
  <2> SUFFICES ASSUME NEW n \in N, NEW p \in Elements(Parents(n, first)), p[1] # 0 PROVE p \in D
    OBVIOUS
  <2>1. p \in NodesOf(first, k) /\ Rank(p) < Rank(n) /\ p[1] \in Nat
    BY <1>2, <1>4, <1>6
  <2>2. p[1] < k
    BY <1>0, <1>4, <2>1 DEF Rank
  <2> QED BY <2>1, <2>2 DEF NodesOf
<1>8. \A n \in O : \A p \in Elements(Parents(n, first)) : p[1] = 0 \/ p \in D \cup N
  <2> SUFFICES ASSUME NEW n \in O, NEW p \in Elements(Parents(n, first)), p[1] # 0 PROVE p \in D \cup N
    OBVIOUS
  <2>1. p \in NodesOf(first, k) /\ Rank(p) < Rank(n) /\ p[1] \in Nat
    BY <1>2, <1>4, <1>6
  <2>2. p[1] < k \/ (p[1] = k /\ p[2] = "node")
    BY <1>0, <1>4, <2>1 DEF Rank, NodesOf
  <2> QED BY <2>1, <2>2 DEF NodesOf
<1> HIDE DEF D, N, O, All
<1>9. /\ Levels(Raised(L, N, first), D \cup N, first)
      /\ Closed(D \cup N, first)
  <2>1. /\ \A n \in D \cup N : n[1] \in Nat /\ n[1] > 0
        /\ \A n \in D \cup N : \A p \in Elements(Parents(n, first)) : Rank(p) < Rank(n)
    BY <1>2, <1>3, <1>6
  <2>2. Levels(L, D, first) /\ Closed(D, first)
    BY DEF D
  <2> QED BY <1>5, <1>7, <2>1, <2>2, RaisedLevels
<1>10. /\ Levels(Raised(Raised(L, N, first), O, first), (D \cup N) \cup O, first)
       /\ Closed((D \cup N) \cup O, first)
  <2>1. /\ \A n \in (D \cup N) \cup O : n[1] \in Nat /\ n[1] > 0
        /\ \A n \in (D \cup N) \cup O : \A p \in Elements(Parents(n, first)) : Rank(p) < Rank(n)
    BY <1>2, <1>3, <1>6
  <2> QED BY <1>5, <1>8, <1>9, <2>1, RaisedLevels
<1> QED BY <1>2, <1>10 DEF RaisedBy, N, O

\* A node of the pass is above its parents.
LEMMA LevelIs ==
  ASSUME Called, NEW first \in Nat \ {0}, NEW last \in first .. Len(calls)
  PROVE  /\ Levels(Level(first, last), NodesOf(first, last), first)
         /\ Closed(NodesOf(first, last), first)
<1>0. last \in Nat /\ Len(calls) \in Nat /\ first <= last
  BY DEF Called
<1>1. PICK of : /\ of[first - 1] = [n \in {} |-> 0]
                /\ \A k \in first .. last : of[k] = RaisedBy(of[k - 1], k, first)
                /\ Level(first, last) = of[last]
  BY <1>0, LevelSteps
<1> DEFINE Good(k) == /\ Levels(of[k], NodesOf(first, k), first)
                      /\ Closed(NodesOf(first, k), first)
           S == {j \in Nat : first - 1 + j <= last => Good(first - 1 + j)}
<1>2. 0 \in S
  <2>1. NodesOf(first, first - 1) = {}
    BY DEF NodesOf
  <2>2. DOMAIN of[first - 1] = {}
    BY <1>1
  <2>3. Good(first - 1) /\ first - 1 + 0 = first - 1
    BY <2>1, <2>2 DEF Levels, Closed
  <2> QED BY <2>3
<1>3. ASSUME NEW j \in Nat, j \in S PROVE j + 1 \in S
  <2> SUFFICES ASSUME first - 1 + (j + 1) <= last PROVE Good(first - 1 + (j + 1))
    OBVIOUS
  <2> DEFINE k == first + j
  <2>1. k \in first .. last /\ k \in first .. Len(calls) /\ first - 1 + (j + 1) = k /\ k - 1 = first - 1 + j
    BY <1>0
  <2>2. Good(k - 1)
    BY <1>0, <1>3, <2>1
  <2> HIDE DEF k
  <2>3. Good(k)
    BY <1>1, <2>1, <2>2, RaisedCall
  <2> QED BY <2>1, <2>3
<1>4. last - first + 1 \in S /\ first - 1 + (last - first + 1) = last
  <2> HIDE DEF S
  <2> QED BY <1>0, <1>2, <1>3, EveryNatural
<1>5. Good(last)
  BY <1>0, <1>4
<1> QED BY <1>1, <1>5
-----------------------------------------------------------------------------
(* The nodes reached: those a way leads to, and no others.                  *)

Onto(S, first, tracked) ==
  S \cup UNION {Elements(Parents(n, first)) \cap tracked : n \in {m \in S : m[1] > 0}}

\* What is reached after each step.
Steps(after, root, first, tracked) ==
  /\ after[0] = {root} \cap tracked
  /\ \A j \in 1 .. 2 * root[1] : after[j] = Onto(after[j - 1], first, tracked)
  /\ Reached(root, first, tracked) = after[2 * root[1]]

\* What is reached is worked out in steps, from the root's level down.
LEMMA ReachedSteps ==
  ASSUME NEW root, NEW first, NEW tracked, root[1] \in Nat
  PROVE  \E after : Steps(after, root, first, tracked)
<1> DEFINE E == {root} \cap tracked
           R(X) == Onto(X, first, tracked)
           F(g, j) == IF j = 0 THEN E ELSE R(g[j - 1])
           S == {i \in Nat : \E g : g = [j \in 0 .. i |-> F(g, j)]}
           after == CHOOSE g : g = [j \in 0 .. (2 * root[1]) |-> F(g, j)]
<1>1. Reached(root, first, tracked) = after[2 * root[1]]
  BY Zenon DEF Reached, Onto
<1> HIDE DEF E, R
<1>2. 0 \in S
  <2> DEFINE g == [j \in 0 .. 0 |-> E]
  <2>1. g = [j \in 0 .. 0 |-> F(g, j)]
    OBVIOUS
  <2> QED BY <2>1
<1>3. ASSUME NEW i \in Nat, i \in S PROVE i + 1 \in S
  <2>1. PICK g : g = [j \in 0 .. i |-> F(g, j)]
    BY <1>3
  <2> DEFINE h == [j \in 0 .. (i + 1) |-> IF j = i + 1 THEN R(g[j - 1]) ELSE g[j]]
  <2>2. ASSUME NEW j \in 0 .. (i + 1) PROVE h[j] = F(h, j)
    <3>1. CASE j = i + 1
      <4>1. j - 1 \in 0 .. i /\ j - 1 # i + 1 /\ j # 0
        BY <3>1
      <4> QED BY <3>1, <4>1
    <3>2. CASE j # i + 1
      <4>1. j \in 0 .. i
        BY <3>2
      <4>2. h[j] = F(g, j)
        BY <2>1, <3>2, <4>1
      <4>3. j # 0 => j - 1 \in 0 .. i /\ h[j - 1] = g[j - 1]
        BY <4>1
      <4> QED BY <4>2, <4>3
    <3> QED BY <3>1, <3>2
  <2>3. h = [j \in 0 .. (i + 1) |-> F(h, j)]
    BY <2>2
  <2> HIDE DEF h, F
  <2>4. \E x : x = [j \in 0 .. (i + 1) |-> F(x, j)]
    BY <2>3
  <2> QED BY <2>4
<1>4. 2 * root[1] \in S
  <2> HIDE DEF S
  <2> QED BY <1>2, <1>3, EveryNatural
<1>5. \E g : g = [j \in 0 .. (2 * root[1]) |-> F(g, j)]
  BY <1>4
<1>6. after = [j \in 0 .. (2 * root[1]) |-> F(after, j)]
  BY <1>5
<1> HIDE DEF after
<1>7. after[0] = E /\ \A j \in 1 .. 2 * root[1] : after[j] = R(after[j - 1])
  BY <1>6
<1> QED BY <1>1, <1>7 DEF E, R, Steps

\* The pass's nodes are the root and the parents, requiring a gradient, of its nodes.
Spans(R, root, first, tracked) ==
  /\ R \subseteq tracked
  /\ \A n \in R : n = root \/ \E m \in R : m[1] > 0 /\ n \in Elements(Parents(m, first))
  /\ \A n \in R : n[1] = 0 \/ n \in NodesOf(first, root[1])
  /\ \A n \in R : n[1] > 0 => Elements(Parents(n, first)) \cap tracked \subseteq R

\* It is the nodes below the root that are tracked.
LEMMA ReachedIs ==
  ASSUME Called, NEW first \in Nat \ {0}, NEW root \in NodesOf(first, Len(calls)), NEW tracked
  PROVE  /\ Spans(Reached(root, first, tracked), root, first, tracked)
         /\ root \in tracked => root \in Reached(root, first, tracked)
<1> DEFINE top == root[1]
           Below(n) == Elements(Parents(n, first)) \cap tracked
<1>0. /\ top \in first .. Len(calls) /\ Len(calls) \in Nat /\ top \in Nat \ {0} /\ first <= top
      /\ Rank(root) \in 2 * top .. 2 * top + 1 /\ root \in NodesOf(first, top)
  BY DEF Called, NodesOf, Rank
<1>1. PICK after : Steps(after, root, first, tracked)
  BY <1>0, ReachedSteps
<1>2. /\ NodesOf(first, top) \subseteq NodesOf(first, Len(calls))
      /\ \A n \in NodesOf(first, top) :
           /\ n[1] \in first .. top /\ NodesOf(first, n[1]) \subseteq NodesOf(first, top)
           /\ Rank(n) \in Nat
  BY <1>0 DEF NodesOf, Rank
<1> DEFINE Good(j) ==
             /\ after[j] \subseteq tracked
             /\ \A n \in after[j] : n = root \/ \E m \in after[j] : m[1] > 0 /\ n \in Elements(Parents(m, first))
             /\ \A n \in after[j] : n[1] = 0 \/ n \in NodesOf(first, top)
             /\ \A n \in after[j] : n[1] > 0 => Below(n) \subseteq after[j] \/ Rank(n) + j <= Rank(root)
             /\ root \in tracked => root \in after[j]
           S == {j \in Nat : j <= 2 * top => Good(j)}
<1>3. 0 \in S
  <2>1. Good(0)
    BY <1>0, <1>1 DEF Steps
  <2> QED BY <2>1
<1>4. ASSUME NEW j \in Nat, j \in S PROVE j + 1 \in S
  <2> SUFFICES ASSUME j + 1 <= 2 * top PROVE Good(j + 1)
    OBVIOUS
  <2>1. Good(j) /\ j + 1 \in 1 .. 2 * root[1] /\ (j + 1) - 1 = j
    BY <1>0, <1>4
  <2>2. after[j + 1] = after[j] \cup UNION {Below(n) : n \in {m \in after[j] : m[1] > 0}}
    BY <1>1, <2>1 DEF Onto, Steps
  <2>3. ASSUME NEW n \in after[j + 1], n \notin after[j]
        PROVE  \E m \in after[j] : /\ m[1] > 0 /\ n \in Below(m)
                                   /\ Rank(m) + j <= Rank(root)
                                   /\ Rank(n) < Rank(m) /\ Rank(m) \in Nat
                                   /\ n[1] = 0 \/ n \in NodesOf(first, top)
    <3>1. PICK m \in after[j] : m[1] > 0 /\ n \in Below(m)
      BY <2>2, <2>3
    <3>2. ~(Below(m) \subseteq after[j])
      BY <2>3, <3>1
    <3>3. m \in NodesOf(first, top)
      BY <2>1, <3>1
    <3>4. n[1] = 0 \/ n \in NodesOf(first, m[1])
      BY <1>2, <3>1, <3>3, ParentsBefore
    <3>5. Rank(n) < Rank(m)
      BY <1>2, <3>1, <3>3, ParentsBefore
    <3>6. Rank(m) + j <= Rank(root)
      BY <2>1, <3>1, <3>2
    <3> QED BY <1>2, <3>1, <3>3, <3>4, <3>5, <3>6
  <2> HIDE DEF Below
  <2>4. after[j] \subseteq after[j + 1] /\ \A n \in after[j] : n[1] > 0 => Below(n) \subseteq after[j + 1]
    BY <2>2
  <2>5. after[j + 1] \subseteq tracked
    BY <2>1, <2>3 DEF Below
  <2>6. \A n \in after[j + 1] :
          n = root \/ \E m \in after[j + 1] : m[1] > 0 /\ n \in Elements(Parents(m, first))
    BY <2>1, <2>3, <2>4 DEF Below
  <2>7. \A n \in after[j + 1] : n[1] = 0 \/ n \in NodesOf(first, top)
    BY <2>1, <2>3
  <2>8. ASSUME NEW n \in after[j + 1], n[1] > 0, n \notin after[j]
        PROVE  Rank(n) + (j + 1) <= Rank(root)
    <3>1. n \in NodesOf(first, top) /\ Rank(n) \in Nat
      BY <1>2, <2>7, <2>8
    <3>2. PICK m \in after[j] : Rank(m) + j <= Rank(root) /\ Rank(n) < Rank(m) /\ Rank(m) \in Nat
      BY <2>3, <2>8
    <3> QED BY <1>0, <3>1, <3>2
  <2> QED BY <2>1, <2>4, <2>5, <2>6, <2>7, <2>8
<1>5. Good(2 * top)
  <2> HIDE DEF S
  <2>1. 2 * top \in S
    <3>1. 2 * top \in Nat
      BY <1>0
    <3>2. Nat \subseteq S
      BY <1>3, <1>4, EveryNatural
    <3> QED BY <3>1, <3>2
  <2> QED BY <1>0, <2>1 DEF S
<1>6. \A n \in after[2 * top] : n[1] > 0 => Below(n) \subseteq after[2 * top]
  <2> SUFFICES ASSUME NEW n \in after[2 * top], n[1] > 0, Rank(n) + 2 * top <= Rank(root) PROVE FALSE
    BY <1>5
  <2>1. n \in NodesOf(first, top) /\ n[1] \in Nat \ {0}
    BY <1>0, <1>2, <1>5
  <2>2. Rank(n) >= 2 /\ Rank(n) \in Nat
    BY <1>2, <2>1 DEF Rank
  <2> QED BY <1>0, <2>2
<1> QED BY <1>1, <1>5, <1>6 DEF Spans, Steps
-----------------------------------------------------------------------------
(* The tape of a pass under way.                                            *)

\* What is left of it: a node and all below it, each with its gradient
\* registered or a node left to register it, the low-rank product's with its
\* base's left or run.
Left ==
  /\ span.first \in Nat \ {0} /\ DOMAIN cells = DOMAIN calls
  /\ \A n \in DOMAIN tape : n \in NodesOf(span.first, Len(calls)) /\ n \in span.tracked /\ tape[n] \in Nat
  /\ \A m \in DOMAIN tape : \A p \in Elements(Parents(m, span.first)) \cap span.tracked :
       p[1] > 0 => p \in DOMAIN tape /\ tape[p] < tape[m]
  /\ \A n \in DOMAIN tape :
       n \in DOMAIN grads \/ \E m \in DOMAIN tape : n \in Elements(Parents(m, span.first))
  /\ \A n \in DOMAIN tape : n[2] = "node" /\ HasBase(calls[n[1]]) =>
       "out" \in DOMAIN cells[n[1]] \/ <<n[1], "base">> \in DOMAIN tape

\* The node a pass starts from.
LEMMA RootNode ==
  ASSUME Called, NEW first \in Nat \ {0}, NEW last \in first .. Len(calls)
  PROVE  /\ NodeOf(<<last, "out">>, first) \in NodesOf(first, last)
         /\ NodeOf(<<last, "out">>, first) = <<last, Role(calls[last], "out")>>
         /\ HasBase(calls[last]) => Role(calls[last], "out") = "base"
<1>1. last \in DOMAIN calls /\ last # 0 /\ ~(last < first) /\ last \in first .. last
  BY DEF Called
<1>2. "out" \in calls[last].outs
  BY <1>1 DEF Called, AreCalls
<1>3. NodeOf(<<last, "out">>, first) = <<last, Role(calls[last], "out")>>
  BY <1>1 DEF NodeOf
<1> QED BY <1>1, <1>2, <1>3, OutputsNode DEF NodesOf

\* A pass starts with every node left.
LEMMA RecordLeft ==
  ASSUME Called, calls' = calls, NEW first \in Nat \ {0}, NEW last \in first .. Len(calls),
         NEW leaves, NEW bag, Record(first, last, leaves, <<last, "out">>, bag)
  PROVE  Left'
<1> DEFINE tracked == Tracked(first, last, leaves)
           root == NodeOf(<<last, "out">>, first)
           R == Reached(root, first, tracked)
           level == Level(first, last)
<1>1. /\ span' = [first |-> first, tracked |-> tracked]
      /\ tape' = [n \in {m \in R : m[1] > 0} |-> level[n]]
      /\ grads' = [n \in {root} |-> bag]
      /\ cells' = [k \in DOMAIN calls |-> Nothing]
  BY DEF Record
<1>2. /\ root \in NodesOf(first, last) /\ root[1] = last /\ last \in Nat
      /\ root \in NodesOf(first, Len(calls)) /\ NodesOf(first, last) \subseteq NodesOf(first, Len(calls))
      /\ HasBase(calls[last]) => root[2] = "base"
  <2>1. /\ root \in NodesOf(first, last) /\ root = <<last, Role(calls[last], "out")>>
        /\ HasBase(calls[last]) => Role(calls[last], "out") = "base"
    BY RootNode
  <2>2. NodesOf(first, last) \subseteq NodesOf(first, Len(calls)) /\ last \in Nat
    BY DEF NodesOf, Called
  <2> HIDE DEF root
  <2> QED BY <2>1, <2>2
<1> HIDE DEF root, tracked, R, level
<1>3. Spans(R, root, first, tracked)
  BY <1>2, ReachedIs DEF R
<1>4. Levels(level, NodesOf(first, last), first) /\ Closed(NodesOf(first, last), first)
  BY LevelIs DEF level
<1>5. /\ span'.first = first /\ span'.tracked = tracked
      /\ DOMAIN tape' = {m \in R : m[1] > 0} /\ \A n \in DOMAIN tape' : tape'[n] = level[n]
      /\ DOMAIN grads' = {root} /\ DOMAIN cells' = DOMAIN calls
  BY <1>1
<1>6. \A n \in DOMAIN tape' : /\ n \in NodesOf(first, last) /\ n \in tracked /\ level[n] \in Nat
                              /\ n \in NodesOf(first, Len(calls))
  <2>1. \A n \in DOMAIN tape' : n \in NodesOf(first, last) /\ n \in tracked
    BY <1>2, <1>3, <1>5 DEF Spans
  <2> QED BY <1>2, <1>4, <2>1 DEF Levels
<1>7. ASSUME NEW m \in DOMAIN tape', NEW p \in Elements(Parents(m, first)) \cap tracked, p[1] > 0
      PROVE  p \in DOMAIN tape' /\ level[p] < level[m]
  <2>1. p \in R /\ m \in R
    BY <1>3, <1>5, <1>7 DEF Spans
  <2>2. p \in NodesOf(first, last)
    BY <1>2, <1>3, <1>7, <2>1 DEF Spans
  <2> QED BY <1>4, <1>5, <1>6, <1>7, <2>1, <2>2 DEF Levels
<1>8. \A n \in DOMAIN tape' : n = root \/ \E m \in DOMAIN tape' : n \in Elements(Parents(m, first))
  BY <1>3, <1>5 DEF Spans
<1>9. ASSUME NEW n \in DOMAIN tape', n[2] = "node", HasBase(calls[n[1]])
      PROVE  <<n[1], "base">> \in DOMAIN tape'
  <2>1. n # root
    BY <1>2, <1>9
  <2>2. PICK m \in DOMAIN tape' : n \in Elements(Parents(m, first))
    BY <1>8, <2>1
  <2>3. n[1] > 0
    BY <1>5
  <2> QED BY <1>6, <1>9, <2>2, <2>3, ParentsBefore
<1>10. /\ NodesOf(span.first, Len(calls))' = NodesOf(first, Len(calls))
       /\ \A n : Elements(Parents(n, span.first))' = Elements(Parents(n, first))
       /\ \A k : HasBase(calls[k])' = HasBase(calls[k])
  BY <1>5 DEF NodesOf, Elements, Parents, HasBase, NodeOf, Taken, Role, Roles, Shares, Packs
<1> QED BY <1>5, <1>6, <1>7, <1>8, <1>9, <1>10 DEF Left
\* A node run registers a gradient of each of its parents, and a base leaves
\* its own for its low-rank product.
LEMMA RunEffect ==
  ASSUME NEW n, NEW k, n = <<k, n[2]>>, n[2] = "base" => HasBase(calls[k]),
         DOMAIN cells = DOMAIN calls, k \in DOMAIN calls,
         \/ PlainNode(n) \/ BaseNode(n) \/ LowRankNode(n) \/ HandoverNode(n)
         \/ ConvNode(n) \/ SliceNode(n) \/ PackedNode(n)
  PROVE  /\ DOMAIN grads' = (DOMAIN grads \ {n}) \cup (Elements(Parents(n, span.first)) \cap span.tracked)
         /\ DOMAIN cells' = DOMAIN cells
         /\ \A j \in DOMAIN calls : HasBase(calls[j]) /\ n # <<j, "node">> =>
              /\ "out" \in DOMAIN cells[j] => "out" \in DOMAIN cells'[j]
              /\ n = <<j, "base">> /\ <<j, "node">> \in span.tracked => "out" \in DOMAIN cells'[j]
<1>0. /\ \A c : HasBase(c) => ~Shares(c) /\ ~Packs(c)
      /\ n[1] = k
  BY DEF HasBase, Shares, Packs
<1>1. DOMAIN grads' = (DOMAIN grads \ {n}) \cup (Elements(Parents(n, span.first)) \cap span.tracked)
  <2>1. CASE PlainNode(n)
    BY <2>1 DEF PlainNode, Consume, Register, Given
  <2>2. CASE BaseNode(n)
    BY <2>2 DEF BaseNode, Consume, Register, Given
  <2>3. CASE LowRankNode(n)
    BY <2>3 DEF LowRankNode, Consume, Register, Given
  <2>4. CASE HandoverNode(n)
    BY <2>4 DEF HandoverNode, Consume, Register, Given
  <2>5. CASE ConvNode(n)
    BY <2>5 DEF ConvNode, Consume, Register, Given
  <2>6. CASE SliceNode(n)
    BY <2>6 DEF SliceNode, Consume, Register, Given
  <2>7. CASE PackedNode(n)
    BY <2>7 DEF PackedNode, Consume, Register, Given
  <2> QED BY <2>1, <2>2, <2>3, <2>4, <2>5, <2>6, <2>7
<1>2. CASE cells' = cells /\ (n[2] # "base" \/ <<k, "node">> \notin span.tracked)
  <2>1. \A j : n # <<j, "base">> \/ <<j, "node">> \notin span.tracked
    BY <1>2
  <2> QED BY <1>1, <1>2, <2>1
<1>3. CASE BaseNode(n) /\ <<k, "node">> \in span.tracked
  <2>1. cells' = [cells EXCEPT ![k] = [out |-> grads[n]]]
    BY <1>0, <1>3 DEF BaseNode
  <2> QED BY <1>1, <2>1
<1>4. CASE \E x : ~HasBase(calls[k]) /\ cells' = [cells EXCEPT ![k] = x]
  <2>1. \A j : HasBase(calls[j]) => n # <<j, "base">> /\ j # k
    BY <1>4
  <2> QED BY <1>1, <1>4, <2>1
<1>5. CASE LowRankNode(n)
  <2>1. cells' = [cells EXCEPT ![k] = Nothing] /\ n[2] = "node"
    BY <1>0, <1>5 DEF LowRankNode
  <2> QED BY <1>0, <1>1, <2>1
<1>6. /\ PlainNode(n) \/ SliceNode(n) \/ PackedNode(n) => cells' = cells
      /\ PlainNode(n) \/ PackedNode(n) => n[2] # "base"
      /\ SliceNode(n) => n[2] # "base"
  BY <1>0 DEF PlainNode, SliceNode, PackedNode
<1>7. HandoverNode(n) \/ ConvNode(n) => \E x : ~HasBase(calls[k]) /\ cells' = [cells EXCEPT ![k] = x]
  BY <1>0 DEF HandoverNode, ConvNode
<1>8. BaseNode(n) /\ <<k, "node">> \notin span.tracked => cells' = cells
  BY <1>0 DEF BaseNode
<1> QED BY <1>2, <1>3, <1>4, <1>5, <1>6, <1>7, <1>8
\* What is left stays what it should be.
LEMMA RunLeft ==
  ASSUME Called, Left, Run
  PROVE  Left'
<1> DEFINE first == span.first
           Above(n) == Elements(Parents(n, first))
<1>1. PICK n \in DOMAIN tape :
        /\ Highest(n)
        /\ \/ PlainNode(n) \/ BaseNode(n) \/ LowRankNode(n) \/ HandoverNode(n)
           \/ ConvNode(n) \/ SliceNode(n) \/ PackedNode(n)
        /\ tape' = [m \in DOMAIN tape \ {n} |-> tape[m]]
        /\ calls' = calls /\ span' = span
  BY DEF Run
<1>2. DOMAIN tape' = DOMAIN tape \ {n} /\ \A m \in DOMAIN tape' : tape'[m] = tape[m]
  BY <1>1
<1>3. /\ n = <<n[1], n[2]>> /\ n[1] \in DOMAIN calls /\ (n[2] = "base" => HasBase(calls[n[1]]))
      /\ n \in NodesOf(first, Len(calls)) /\ n \in span.tracked /\ first \in Nat \ {0}
  <2>1. n \in NodesOf(first, Len(calls)) /\ n \in span.tracked /\ first \in Nat \ {0}
    BY DEF Left
  <2>2. n = <<n[1], n[2]>> /\ n[1] \in DOMAIN calls /\ n[2] \in Roles(calls[n[1]])
    BY <2>1 DEF NodesOf, Called
  <2>3. calls[n[1]].outs \subseteq {"out", "state"}
    BY <2>2 DEF Called, AreCalls
  <2> QED BY <2>1, <2>2, <2>3 DEF Roles
<1>4. DOMAIN cells = DOMAIN calls
  BY DEF Left
<1>5. /\ DOMAIN grads' = (DOMAIN grads \ {n}) \cup (Above(n) \cap span.tracked)
      /\ DOMAIN cells' = DOMAIN cells
      /\ \A j \in DOMAIN calls : HasBase(calls[j]) /\ n # <<j, "node">> =>
              /\ "out" \in DOMAIN cells[j] => "out" \in DOMAIN cells'[j]
              /\ n = <<j, "base">> /\ <<j, "node">> \in span.tracked => "out" \in DOMAIN cells'[j]
  BY <1>1, <1>3, <1>4, RunEffect
<1>6. /\ NodesOf(span.first, Len(calls))' = NodesOf(first, Len(calls))
      /\ \A m : Elements(Parents(m, span.first))' = Above(m)
      /\ \A k : HasBase(calls[k])' = HasBase(calls[k])
      /\ span'.first = first /\ span'.tracked = span.tracked
  BY <1>1 DEF NodesOf, Elements, Parents, HasBase, NodeOf, Taken, Role, Roles, Shares, Packs
<1> HIDE DEF Above, first
<1>7. ASSUME NEW m \in DOMAIN tape', NEW p \in Above(m) \cap span.tracked, p[1] > 0
      PROVE  p \in DOMAIN tape' /\ tape'[p] < tape'[m]
  <2>1. p \in DOMAIN tape /\ tape[p] < tape[m] /\ tape[m] \in Nat /\ tape[n] \in Nat
    BY <1>2, <1>7 DEF Left, Above, first
  <2>2. p # n
    BY <1>1, <1>2, <2>1 DEF Highest
  <2> QED BY <1>2, <2>1, <2>2
<1>8. ASSUME NEW m \in DOMAIN tape'
      PROVE  m \in DOMAIN grads' \/ \E x \in DOMAIN tape' : m \in Above(x)
  <2>1. m \in span.tracked /\ m # n
    BY <1>2 DEF Left
  <2>2. m \in DOMAIN grads \/ \E x \in DOMAIN tape : m \in Above(x)
    BY <1>2 DEF Left, Above, first
  <2> QED BY <1>2, <1>5, <2>1, <2>2
<1>9. ASSUME NEW m \in DOMAIN tape', m[2] = "node", HasBase(calls[m[1]])
      PROVE  "out" \in DOMAIN cells'[m[1]] \/ <<m[1], "base">> \in DOMAIN tape'
  <2>1. m \in span.tracked /\ m \in NodesOf(first, Len(calls)) /\ m # n
    BY <1>2 DEF Left, first
  <2>2. m = <<m[1], "node">> /\ m[1] \in DOMAIN calls
    BY <1>3, <1>9, <2>1 DEF NodesOf, Called
  <2>3. "out" \in DOMAIN cells[m[1]] \/ <<m[1], "base">> \in DOMAIN tape
    BY <1>2, <1>9 DEF Left
  <2> QED BY <1>2, <1>5, <1>9, <2>1, <2>2, <2>3
<1>10. \A m \in DOMAIN tape' : m \in NodesOf(first, Len(calls)) /\ m \in span.tracked /\ tape'[m] \in Nat
  BY <1>2 DEF Left, first
<1>11. calls' = calls
  BY <1>1
<1> QED BY <1>3, <1>4, <1>5, <1>6, <1>7, <1>8, <1>9, <1>10, <1>11 DEF Left

\* The highest nodes left are ready.
LEMMA LeftReady ==
  ASSUME Called, Left
  PROVE  NodesReady
<1> SUFFICES ASSUME NEW n \in DOMAIN tape, Highest(n)
             PROVE  /\ n \in DOMAIN grads
                    /\ n[2] = "node" /\ HasBase(calls[n[1]]) => "out" \in DOMAIN cells[n[1]]
  BY DEF NodesReady
<1>1. \A m \in DOMAIN tape : tape[m] <= tape[n] /\ tape[m] \in Nat
  BY DEF Highest, Left
<1>2. n \in span.tracked /\ n \in NodesOf(span.first, Len(calls)) /\ span.first \in Nat \ {0}
  BY DEF Left
<1>3. n[1] > 0 /\ n = <<n[1], n[2]>> /\ n[1] \in DOMAIN calls
  BY <1>2 DEF NodesOf, Called
<1>4. \A m \in DOMAIN tape : n \notin Elements(Parents(m, span.first))
  <2> SUFFICES ASSUME NEW m \in DOMAIN tape, n \in Elements(Parents(m, span.first)) PROVE FALSE
    OBVIOUS
  <2>1. tape[n] < tape[m]
    BY <1>2, <1>3 DEF Left
  <2> QED BY <1>1, <2>1
<1>5. n \in DOMAIN grads
  BY <1>4 DEF Left
<1>6. ASSUME n[2] = "node", HasBase(calls[n[1]]), <<n[1], "base">> \in DOMAIN tape PROVE FALSE
  <2>1. n \in Elements(Parents(<<n[1], "base">>, span.first))
    <3> DEFINE m == <<n[1], "base">>
    <3>1. m[1] = n[1] /\ m[2] = "base"
      OBVIOUS
    <3> HIDE DEF m
    <3>2. Parents(m, span.first)["token"] = <<n[1], "node">> /\ "token" \in DOMAIN Parents(m, span.first)
      BY <3>1 DEF Parents
    <3>3. n = <<n[1], "node">>
      BY <1>3, <1>6
    <3> QED BY <3>2, <3>3 DEF Elements, m
  <2> QED BY <1>4, <1>6, <2>1
<1> QED BY <1>5, <1>6 DEF Left
-----------------------------------------------------------------------------
(* The step.                                                                *)

Stacked == \E m \in Models : /\ calls = m.calls /\ cuts = m.cuts /\ own = m.own
                             /\ trainable \subseteq {<<0, p>> : p \in m.leaves}

\* Where the step is: on MLX nothing is recorded.
Placed ==
  /\ way \in {"plain", "burn", "mlx"} /\ stage \in {"forward", "pass", "done", "failed"}
  /\ way = "plain" => at \in {0, Units} /\ stage \in {"pass", "done"}
  /\ way # "plain" => at \in 1 .. Units
  /\ stage = "forward" => at \in 2 .. Units
  /\ way = "mlx" \/ stage = "forward" => DOMAIN tape = {}

\* Only the layer at work ever holds the transform's arrays.
Holding ==
  /\ held \subseteq {at} /\ held \subseteq Layers
  /\ held # {} => way = "mlx" /\ stage \in {"pass", "failed"}

ReadyInv == Stacked /\ Placed /\ Holding /\ Left

\* The units follow one another.
LEMMA UnitsAre ==
  ASSUME Stacked
  PROVE  /\ Called /\ Len(calls) \in Nat /\ DOMAIN calls = 1 .. Len(calls)
         /\ Units \in Nat /\ Units >= 2 /\ DOMAIN cuts = 1 .. Units
         /\ \A i \in 1 .. Units : /\ First(i) \in Nat \ {0}
                                  /\ Last(i) \in First(i) .. Len(calls)
         /\ Last(Units) = Len(calls) /\ First(1) = 1
         /\ \A i \in 2 .. Units : First(i) = Last(i - 1) + 1
<1>1. PICK m \in Models : calls = m.calls /\ cuts = m.cuts
  BY DEF Stacked
<1>2. IsModel(m)
  BY ModelsAssumption
<1>3. /\ Called /\ cuts \in Seq(1 .. Len(calls)) /\ Len(cuts) >= 2 /\ cuts[Len(cuts)] = Len(calls)
      /\ \A i \in 2 .. Len(cuts) : cuts[i - 1] < cuts[i]
  BY <1>1, <1>2 DEF IsModel, Called
<1>4. /\ Len(calls) \in Nat /\ DOMAIN calls = 1 .. Len(calls)
      /\ Units \in Nat /\ DOMAIN cuts = 1 .. Units /\ \A i \in 1 .. Units : cuts[i] \in 1 .. Len(calls)
  BY <1>3 DEF Called, Units
<1>5. ASSUME NEW i \in 1 .. Units
      PROVE  First(i) \in Nat \ {0} /\ Last(i) \in First(i) .. Len(calls)
  <2>1. CASE i = 1
    BY <1>3, <1>4, <2>1 DEF First, Last
  <2>2. CASE i # 1
    <3>1. i \in 2 .. Len(cuts) /\ i - 1 \in 1 .. Units
      BY <1>4, <2>2 DEF Units
    <3> QED BY <1>3, <1>4, <2>2, <3>1 DEF First, Last
  <2> QED BY <2>1, <2>2
<1> QED BY <1>3, <1>4, <1>5 DEF First, Last, Units

\* A step leaves the stack as it is.
LEMMA KeepsStack ==
  ASSUME Stacked, [Next \/ Ended]_vars
  PROVE  Stacked' /\ calls' = calls /\ cuts' = cuts /\ way' = way /\ own' = own /\ trainable' = trainable
<1>1. calls' = calls /\ cuts' = cuts /\ way' = way /\ own' = own /\ trainable' = trainable
  BY DEF Next, Ended, vars, ForwardLayer, HeadPass, LayerPass, LastPass, PlainPass, PlainEnd, RunNode,
         MlxForward, MlxHead, MlxTrace, MlxFail, MlxEvalFails, MlxLayer, MlxEnd, Keep, Run
<1> QED BY <1>1 DEF Stacked

\* What is left of a tape no step touches.
LEMMA LeftStays ==
  ASSUME Left, UNCHANGED <<calls, span, tape, cells>>, DOMAIN tape = {} \/ UNCHANGED grads
  PROVE  Left'
<1>1. /\ NodesOf(span.first, Len(calls))' = NodesOf(span.first, Len(calls))
      /\ \A m : Elements(Parents(m, span.first))' = Elements(Parents(m, span.first))
      /\ \A k : HasBase(calls[k])' = HasBase(calls[k])
  BY DEF NodesOf, Elements, Parents, HasBase, NodeOf, Taken, Role, Roles, Shares, Packs
<1>2. span' = span /\ tape' = tape /\ cells' = cells /\ calls' = calls
      /\ (DOMAIN tape = {} \/ grads' = grads)
  OBVIOUS
<1> QED BY <1>1, <1>2 DEF Left

\* The layer at work is put back before the next one is.
LEMMA HoldingStays ==
  ASSUME Stacked, Placed, Holding, [Next \/ Ended]_vars
  PROVE  Holding'
<1>1. Layers' = Layers /\ way' = way /\ Layers = 2 .. (Units - 1)
  BY KeepsStack DEF Layers, Units
<1>2. CASE held' = {}
  BY <1>1, <1>2 DEF Holding
<1>3. CASE held' = held /\ at' = at /\ (stage' = stage \/ stage' = "failed")
  BY <1>1, <1>3 DEF Holding
<1>4. CASE MlxTrace
  BY <1>1, <1>4 DEF MlxTrace, Holding
<1>5. CASE MlxLayer
  BY <1>2, <1>5 DEF MlxLayer, Holding
<1>6. CASE way # "mlx" \/ stage \notin {"pass", "failed"} \/ at \notin Layers
  <2>1. held = {}
    BY <1>6 DEF Holding
  <2>2. held' = held \/ MlxTrace \/ MlxLayer
    BY <2>1 DEF Next, Ended, vars, ForwardLayer, HeadPass, LayerPass, LastPass, PlainPass, PlainEnd, RunNode,
           MlxForward, MlxHead, MlxFail, MlxEvalFails, MlxEnd
  <2> QED BY <1>2, <1>4, <1>5, <2>1, <2>2
<1>7. CASE way = "mlx" /\ stage \in {"pass", "failed"} /\ at \in Layers
  <2>1. (at # 0 /\ at # 1) \/ ~(Units \in Nat)
    BY <1>1, <1>7
  <2>2. Units \in Nat
    BY UnitsAre
  <2>3. CASE MlxFail
    BY <1>3, <2>3 DEF MlxFail
  <2>4. MlxTrace \/ MlxFail \/ MlxEvalFails \/ MlxLayer \/ UNCHANGED vars
    <3>1. ~ForwardLayer /\ ~HeadPass /\ ~LayerPass /\ ~LastPass /\ ~PlainPass /\ ~PlainEnd
      BY <1>7 DEF ForwardLayer, HeadPass, LayerPass, LastPass, PlainPass, PlainEnd
    <3>2. ~RunNode
      BY <1>7 DEF RunNode, Run, Placed
    <3>3. ~MlxForward /\ ~MlxHead /\ ~MlxEnd
      BY <1>7, <2>1, <2>2 DEF MlxForward, MlxHead, MlxEnd
    <3> QED BY <3>1, <3>2, <3>3 DEF Next, Ended
  <2>5. CASE MlxEvalFails
    BY <1>2, <2>5 DEF MlxEvalFails, Holding
  <2> QED BY <1>3, <1>4, <1>5, <2>3, <2>4, <2>5 DEF vars
<1> QED BY <1>6, <1>7

\* The step starts so.
LEMMA ReadyFirst ==
  ASSUME Init
  PROVE  ReadyInv
<1>1. PICK m \in Models : /\ calls = m.calls /\ cuts = m.cuts /\ own = m.own
                          /\ trainable \in {{<<0, p>> : p \in S} : S \in SUBSET m.leaves}
                          /\ span = [first |-> 1, tracked |-> {}] /\ tape = [n \in {} |-> 0]
                          /\ cells = [k \in DOMAIN m.calls |-> Nothing]
  BY Zenon DEF Init
<1>2. Stacked
  BY <1>1 DEF Stacked
<1>3. Left
  BY <1>1 DEF Left
<1>4. Placed
  <2>1. Units \in Nat /\ Units >= 2
    BY <1>2, UnitsAre
  <2>2. DOMAIN tape = {}
    BY <1>1
  <2>3. /\ way \in {"plain", "burn", "mlx"}
        /\ stage = IF way = "plain" THEN "pass" ELSE "forward"
        /\ at = IF way = "plain" THEN 0 ELSE 2
    BY DEF Init
  <2> QED BY <2>1, <2>2, <2>3 DEF Placed
<1>5. Holding
  BY DEF Init, Holding
<1> QED BY <1>2, <1>3, <1>4, <1>5 DEF ReadyInv

\* And goes on so.
LEMMA ReadyStays ==
  ASSUME ReadyInv, [Next \/ Ended]_vars
  PROVE  ReadyInv'
<1>1. /\ Stacked /\ Placed /\ Left /\ Stacked' /\ Holding
      /\ calls' = calls /\ cuts' = cuts /\ way' = way /\ Units' = Units /\ Layers' = Layers
  BY KeepsStack DEF ReadyInv, Units, Layers
<1>2. /\ Called /\ Len(calls) \in Nat /\ Units \in Nat /\ Units >= 2
      /\ \A i \in 1 .. Units : First(i) \in Nat \ {0} /\ Last(i) \in First(i) .. Len(calls)
      /\ Last(Units) = Len(calls) /\ First(1) = 1 /\ Layers = 2 .. (Units - 1)
  BY <1>1, UnitsAre DEF Layers
<1>3. SUFFICES Placed' /\ Left'
  BY <1>1, HoldingStays DEF ReadyInv
<1>4. ASSUME UNCHANGED <<span, tape, cells>>, DOMAIN tape = {} \/ UNCHANGED grads PROVE Left'
  BY <1>1, <1>4, LeftStays
<1>5. CASE ForwardLayer
  BY <1>1, <1>2, <1>4, <1>5 DEF ForwardLayer, Placed
<1>6. CASE HeadPass
  <2>1. Record(First(Units), Last(Units), trainable \cup {Input}, <<Last(Units), "out">>, Seed)
    BY <1>6 DEF HeadPass, Out
  <2>2. Left'
    BY <1>1, <1>2, <2>1, RecordLeft
  <2> QED BY <1>1, <1>2, <1>6, <2>2 DEF HeadPass, Placed
<1>7. CASE LayerPass
  <2>1. at \in 2 .. Units /\ at' = at - 1 /\ way = "burn" /\ stage' \in {"pass", "done"}
    BY <1>1, <1>2, <1>7 DEF LayerPass, Placed
  <2>2. Placed'
    BY <1>1, <1>2, <2>1 DEF Placed
  <2>3. CASE UNCHANGED <<span, tape, grads, cells>>
    BY <1>4, <2>2, <2>3
  <2>4. CASE ~UNCHANGED <<span, tape, grads, cells>>
    <3> DEFINE i == at - 1
    <3>1. \E leaves : Record(First(i), Last(i), leaves, <<Last(i), "out">>, InputGradient)
      BY <1>7, <2>4 DEF LayerPass, Out
    <3>2. i \in 1 .. Units
      BY <1>2, <2>1
    <3> HIDE DEF i
    <3> QED BY <1>1, <1>2, <2>2, <3>1, <3>2, RecordLeft
  <2> QED BY <2>3, <2>4
<1>8. CASE LastPass
  BY <1>1, <1>2, <1>4, <1>8 DEF LastPass, Placed
<1>9. CASE PlainPass
  <2>1. Record(1, Last(Units), trainable, <<Last(Units), "out">>, Seed)
    BY <1>9 DEF PlainPass, Out
  <2>2. Left'
    <3>1. Last(Units) \in 1 .. Len(calls)
      BY <1>2
    <3> QED BY <1>1, <1>2, <2>1, <3>1, RecordLeft
  <2> QED BY <1>1, <1>2, <1>9, <2>2 DEF PlainPass, Placed
<1>10. CASE PlainEnd
  BY <1>1, <1>2, <1>4, <1>10 DEF PlainEnd, Placed
<1>11. CASE RunNode
  <2>1. Left'
    BY <1>1, <1>2, <1>11, RunLeft DEF RunNode
  <2>2. DOMAIN tape # {}
    BY <1>11 DEF RunNode, Run
  <2> QED BY <1>1, <1>2, <1>11, <2>1, <2>2 DEF RunNode, Placed
<1>12. CASE MlxForward
  BY <1>1, <1>2, <1>4, <1>12 DEF MlxForward, Placed
<1>13. CASE MlxHead
  <2>1. DOMAIN tape = {} /\ UNCHANGED <<span, tape, cells>>
    BY <1>1, <1>13 DEF MlxHead, Placed
  <2> QED BY <1>1, <1>2, <1>4, <1>13, <2>1 DEF MlxHead, Placed
<1>14. CASE MlxTrace
  BY <1>1, <1>2, <1>4, <1>14 DEF MlxTrace, Placed
<1>15. CASE MlxFail
  BY <1>1, <1>2, <1>4, <1>15 DEF MlxFail, Placed
<1>18. CASE MlxEvalFails
  BY <1>1, <1>2, <1>4, <1>18 DEF MlxEvalFails, Placed
<1>16. CASE MlxLayer
  <2>1. DOMAIN tape = {} /\ UNCHANGED <<span, tape, cells>> /\ at \in Layers
    BY <1>1, <1>16 DEF MlxLayer, Placed, Holding
  <2>2. Left'
    BY <1>4, <2>1
  <2> QED BY <1>1, <1>2, <1>16, <2>1, <2>2 DEF MlxLayer, Placed
<1>17. CASE MlxEnd
  BY <1>1, <1>2, <1>4, <1>17 DEF MlxEnd, Placed
<1>19. CASE UNCHANGED vars
  BY <1>1, <1>2, <1>4, <1>19 DEF vars, Placed
<1> QED
  BY <1>5, <1>6, <1>7, <1>8, <1>9, <1>10, <1>11, <1>12, <1>13, <1>14, <1>15, <1>16, <1>17, <1>18, <1>19
  DEF Next, Ended

\* A node is run, and given its gradient, only when all that give it one have run.
THEOREM NodesAreReady == Spec => []NodesReady
<1>1. Init => ReadyInv
  BY ReadyFirst
<1>2. ReadyInv /\ [Next \/ Ended]_vars => ReadyInv'
  BY ReadyStays
<1>3. ReadyInv => NodesReady
  BY UnitsAre, LeftReady DEF ReadyInv
<1> QED BY <1>1, <1>2, <1>3, PTL DEF Spec
-----------------------------------------------------------------------------
(* Sums of bags.                                                            *)

Bag(b) == IsFiniteSet(DOMAIN b) /\ b \in [DOMAIN b -> Nat \ {0}]

\* A sum adds its bags one after another.
LEMMA AddedSteps ==
  ASSUME NEW f, IsFiniteSet(DOMAIN f)
  PROVE  \E iter : /\ iter[{}] = EmptyBag
                   /\ \A s \in SUBSET DOMAIN f : s # {} =>
                        \E x \in s : iter[s] = iter[s \ {x}] (+) f[x]
                   /\ Added(f) = iter[DOMAIN f]
<1> DEFINE D == DOMAIN f
           Pick(s) == CHOOSE x \in s : TRUE
           R(g, s) == g[s \ {Pick(s)}] (+) f[Pick(s)]
           F(g, s) == IF s = {} THEN EmptyBag ELSE R(g, s)
           Small(n) == {s \in SUBSET D : Cardinality(s) <= n}
           S == {n \in Nat : \E g : g = [s \in Small(n) |-> F(g, s)]}
           iter == CHOOSE g : g = [s \in SUBSET D |-> F(g, s)]
<1>1. Added(f) = iter[D]
  BY Zenon DEF Added, FoldFunction, FoldFunctionOnSet, MapThenFoldSet
<1>2. \A s \in SUBSET D : /\ IsFiniteSet(s) /\ Cardinality(s) \in Nat /\ Cardinality(s) <= Cardinality(D)
                          /\ Cardinality(s) = 0 <=> s = {}
  BY FS_Subset, FS_CardinalityType, FS_EmptySet
<1>3. \A s \in SUBSET D : s # {} =>
        Pick(s) \in s /\ s \ {Pick(s)} \in SUBSET D /\ Cardinality(s \ {Pick(s)}) = Cardinality(s) - 1
  BY <1>2, FS_RemoveElement
<1> HIDE DEF D, Pick
<1>4. 0 \in S
  <2> DEFINE g == [s \in Small(0) |-> EmptyBag]
  <2>1. \A s \in Small(0) : s = {}
    BY <1>2
  <2>2. g = [s \in Small(0) |-> F(g, s)]
    BY <2>1
  <2> HIDE DEF g, F, Small
  <2> QED BY <2>2
<1>5. ASSUME NEW n \in Nat, n \in S PROVE n + 1 \in S
  <2>1. PICK g : g = [s \in Small(n) |-> F(g, s)]
    BY <1>5
  <2> DEFINE h == [s \in Small(n + 1) |-> IF Cardinality(s) = n + 1 THEN R(g, s) ELSE g[s]]
  <2>2. ASSUME NEW s \in Small(n + 1) PROVE h[s] = F(h, s)
    <3>0. s \in SUBSET D /\ Cardinality(s) \in Nat
      BY <1>2
    <3>1. CASE Cardinality(s) = n + 1
      <4>1. s # {} /\ s \ {Pick(s)} \in Small(n + 1) /\ Cardinality(s \ {Pick(s)}) # n + 1
        BY <1>2, <1>3, <3>0, <3>1
      <4>2. h[s \ {Pick(s)}] = g[s \ {Pick(s)}]
        BY <4>1
      <4>3. h[s] = R(g, s)
        BY <3>1
      <4> QED BY <4>1, <4>2, <4>3
    <3>2. CASE Cardinality(s) # n + 1
      <4>1. s \in Small(n)
        BY <3>0, <3>2
      <4>2. h[s] = F(g, s)
        BY <2>1, <3>2, <4>1
      <4>3. s # {} => s \ {Pick(s)} \in Small(n + 1) /\ Cardinality(s \ {Pick(s)}) # n + 1
        BY <1>2, <1>3, <3>0, <4>1
      <4>4. s # {} => h[s \ {Pick(s)}] = g[s \ {Pick(s)}]
        BY <4>3
      <4> QED BY <4>2, <4>4
    <3> QED BY <3>1, <3>2
  <2>3. h = [s \in Small(n + 1) |-> F(h, s)]
    BY <2>2
  <2> HIDE DEF h, F, Small
  <2> QED BY <2>3
<1>6. Cardinality(D) \in S /\ Small(Cardinality(D)) = SUBSET D
  <2>1. Cardinality(D) \in Nat /\ Small(Cardinality(D)) = SUBSET D
    BY <1>2, FS_CardinalityType DEF D
  <2> HIDE DEF S
  <2>2. Nat \subseteq S
    BY <1>4, <1>5, EveryNatural
  <2> QED BY <2>1, <2>2
<1>7. \E g : g = [s \in SUBSET D |-> F(g, s)]
  BY <1>6
<1>8. iter = [s \in SUBSET D |-> F(iter, s)]
  BY <1>7
<1> HIDE DEF iter
<1>9. iter[{}] = EmptyBag /\ \A s \in SUBSET D : s # {} => iter[s] = R(iter, s)
  BY <1>8
<1> QED BY <1>1, <1>3, <1>9 DEF D
\* Two bags added.
LEMMA AddTwo ==
  ASSUME NEW a, NEW b, Bag(a), Bag(b)
  PROVE  /\ Bag(a (+) b) /\ DOMAIN (a (+) b) = DOMAIN a \cup DOMAIN b
         /\ \A e \in DOMAIN a \ DOMAIN b : (a (+) b)[e] = a[e]
         /\ \A e \in DOMAIN b \ DOMAIN a : (a (+) b)[e] = b[e]
<1> DEFINE c == a (+) b
<1>1. /\ DOMAIN c = DOMAIN a \cup DOMAIN b
      /\ c = [e \in DOMAIN c |-> c[e]]
      /\ \A e \in DOMAIN a \cup DOMAIN b :
           c[e] = (IF e \in DOMAIN a THEN a[e] ELSE 0) + (IF e \in DOMAIN b THEN b[e] ELSE 0)
  BY DEF (+)
<1>2. \A e \in DOMAIN a : a[e] \in Nat \ {0}
  BY DEF Bag
<1>3. \A e \in DOMAIN b : b[e] \in Nat \ {0}
  BY DEF Bag
<1> HIDE DEF c
<1>4. IsFiniteSet(DOMAIN c)
  <2> DEFINE A == DOMAIN a
             B == DOMAIN b
  <2>1. IsFiniteSet(A) /\ IsFiniteSet(B)
    BY DEF Bag
  <2> HIDE DEF A, B
  <2>2. IsFiniteSet(A \cup B)
    BY <2>1, FS_Union
  <2> QED BY <1>1, <2>2 DEF A, B
<1>5. \A e \in DOMAIN c : c[e] \in Nat \ {0}
  BY <1>1, <1>2, <1>3
<1>6. Bag(c)
  BY <1>1, <1>4, <1>5 DEF Bag
<1> QED BY <1>1, <1>2, <1>3, <1>6 DEF c

\* The empty bag is one.
LEMMA NoneIsBag == Bag(EmptyBag) /\ DOMAIN EmptyBag = {}
<1>1. DOMAIN EmptyBag = {} /\ EmptyBag = [e \in {} |-> 1]
  BY DEF EmptyBag, SetToBag
<1> QED BY <1>1, FS_EmptySet DEF Bag

\* A bag added to none is itself.
LEMMA AddNone ==
  ASSUME NEW b, Bag(b)
  PROVE  b (+) EmptyBag = b /\ EmptyBag (+) b = b
<1>1. b = [e \in DOMAIN b |-> b[e]] /\ \A e \in DOMAIN b : b[e] + 0 = b[e] /\ 0 + b[e] = b[e]
  BY DEF Bag
<1>2. DOMAIN EmptyBag = {}
  BY NoneIsBag
<1>3. /\ b (+) EmptyBag = [e \in DOMAIN b |-> b[e]]
      /\ EmptyBag (+) b = [e \in DOMAIN b |-> b[e]]
  BY <1>1, <1>2 DEF (+)
<1> QED BY <1>1, <1>3

\* A sum has the elements of its bags, those of one bag alone as often as that has them.
LEMMA AddedIs ==
  ASSUME NEW f, IsFiniteSet(DOMAIN f), \A x \in DOMAIN f : Bag(f[x])
  PROVE  /\ Bag(Added(f))
         /\ DOMAIN Added(f) = UNION {DOMAIN f[x] : x \in DOMAIN f}
         /\ \A x \in DOMAIN f : \A e \in DOMAIN f[x] :
              (\A y \in DOMAIN f : e \in DOMAIN f[y] => y = x) => Added(f)[e] = f[x][e]
<1> DEFINE D == DOMAIN f
           Alone(x, e, s) == \A y \in s : e \in DOMAIN f[y] => y = x
<1>1. PICK iter : /\ iter[{}] = EmptyBag
                  /\ \A s \in SUBSET D : s # {} => \E x \in s : iter[s] = iter[s \ {x}] (+) f[x]
                  /\ Added(f) = iter[D]
  BY AddedSteps
<1> DEFINE Good(s) == /\ Bag(iter[s])
                      /\ DOMAIN iter[s] = UNION {DOMAIN f[x] : x \in s}
                      /\ \A x \in s : \A e \in DOMAIN f[x] : Alone(x, e, s) => iter[s][e] = f[x][e]
           S == {n \in Nat : \A s \in SUBSET D : Cardinality(s) <= n => Good(s)}
<1>2. \A s \in SUBSET D : /\ IsFiniteSet(s) /\ Cardinality(s) \in Nat
                          /\ Cardinality(s) = 0 <=> s = {}
  BY FS_Subset, FS_CardinalityType, FS_EmptySet
<1>3. Good({})
  BY <1>1, NoneIsBag
<1>4. 0 \in S
  <2> HIDE DEF Good, D
  <2> QED BY <1>2, <1>3
<1>5. ASSUME NEW n \in Nat, n \in S PROVE n + 1 \in S
  <2> SUFFICES ASSUME NEW s \in SUBSET D, Cardinality(s) <= n + 1 PROVE Good(s)
    OBVIOUS
  <2>1. CASE s = {}
    <3> HIDE DEF Good
    <3> QED BY <1>3, <2>1
  <2>2. CASE s # {}
    <3>1. PICK x \in s : iter[s] = iter[s \ {x}] (+) f[x]
      BY <1>1, <2>2
    <3>2. s \ {x} \in SUBSET D /\ Cardinality(s \ {x}) <= n
      BY <1>2, FS_RemoveElement
    <3>3. Good(s \ {x})
      <4> HIDE DEF Good
      <4> QED BY <1>5, <3>2
    <3> DEFINE a == iter[s \ {x}]
    <3>4. Bag(a) /\ Bag(f[x])
      BY <3>3
    <3>5. /\ Bag(iter[s]) /\ DOMAIN iter[s] = DOMAIN a \cup DOMAIN f[x]
          /\ \A e \in DOMAIN a \ DOMAIN f[x] : iter[s][e] = a[e]
          /\ \A e \in DOMAIN f[x] \ DOMAIN a : iter[s][e] = f[x][e]
      <4>1. iter[s] = a (+) f[x]
        BY <3>1
      <4> HIDE DEF a
      <4>2. Bag(f[x]) /\ Bag(a)
        BY <3>4
      <4> DEFINE b == f[x]
      <4> HIDE DEF b
      <4>3. /\ Bag(a (+) b) /\ DOMAIN (a (+) b) = DOMAIN a \cup DOMAIN b
            /\ \A e \in DOMAIN a \ DOMAIN b : (a (+) b)[e] = a[e]
            /\ \A e \in DOMAIN b \ DOMAIN a : (a (+) b)[e] = b[e]
        BY <4>2, AddTwo DEF b
      <4> QED BY <4>1, <4>3 DEF b
    <3>6. DOMAIN iter[s] = UNION {DOMAIN f[z] : z \in s}
      BY <3>3, <3>5
    <3>7. ASSUME NEW z \in s, NEW e \in DOMAIN f[z], Alone(z, e, s) PROVE iter[s][e] = f[z][e]
      <4>1. CASE z = x
        <5>1. e \notin DOMAIN a
          BY <3>3, <3>7, <4>1
        <5> QED BY <3>5, <4>1, <5>1
      <4>2. CASE z # x
        <5>1. e \in DOMAIN a \ DOMAIN f[x] /\ a[e] = f[z][e]
          BY <3>3, <3>7, <4>2
        <5> QED BY <3>5, <5>1
      <4> QED BY <4>1, <4>2
    <3> QED BY <3>5, <3>6, <3>7
  <2> QED BY <2>1, <2>2
<1>6. Good(D)
  <2> HIDE DEF Good, S
  <2>1. Cardinality(D) \in Nat
    BY <1>2
  <2>2. Nat \subseteq S
    BY <1>4, <1>5, EveryNatural
  <2>3. Cardinality(D) \in S
    BY <2>1, <2>2
  <2> QED BY <2>1, <2>3 DEF S
<1> QED BY <1>1, <1>6
-----------------------------------------------------------------------------
(* A gradient by the definition, and what it is of part of the calls.       *)

AnyUse == (DOMAIN calls) \X {"out", "state"} \X (UNION {DOMAIN calls[k].ins : k \in DOMAIN calls})

Ways(b) == Bag(b) /\ \A w \in DOMAIN b : w.path \in Seq(AnyUse)

\* What goes through a use of a value has that use last.
LEMMA ThroughIs ==
  ASSUME NEW b, Ways(b), NEW k, NEW o, NEW s, <<k, o, s>> \in AnyUse
  PROVE  /\ Ways(Through(b, k, o, s))
         /\ \A w \in DOMAIN Through(b, k, o, s) : w.path[Len(w.path)] = <<k, o, s>>
<1> DEFINE By(w) == [part |-> "all", path |-> Append(w.path, <<k, o, s>>)]
           f == [w \in DOMAIN b |-> Copies(By(w), b[w])]
<1>1. Through(b, k, o, s) = Added(f)
  BY DEF Through
<1>2. IsFiniteSet(DOMAIN f) /\ DOMAIN f = DOMAIN b
  BY DEF Ways, Bag
<1>3. ASSUME NEW w \in DOMAIN f
      PROVE  /\ Bag(f[w]) /\ DOMAIN f[w] = {By(w)}
             /\ By(w).path \in Seq(AnyUse) /\ By(w).path[Len(By(w).path)] = <<k, o, s>>
  <2>1. f[w] = [v \in {By(w)} |-> b[w]] /\ b[w] \in Nat \ {0}
    BY DEF Copies, Ways, Bag
  <2>2. IsFiniteSet({By(w)})
    BY FS_Singleton
  <2>3. w.path \in Seq(AnyUse) /\ By(w).path = Append(w.path, <<k, o, s>>)
    BY DEF Ways
  <2>4. Append(w.path, <<k, o, s>>) \in Seq(AnyUse)
    BY <2>3
  <2>5. LET p == Append(w.path, <<k, o, s>>) IN p[Len(p)] = <<k, o, s>>
    <3> DEFINE u == <<k, o, s>>
    <3>1. u \in AnyUse
      OBVIOUS
    <3> HIDE DEF u
    <3>2. Append(w.path, u)[Len(Append(w.path, u))] = u
      BY <2>3, <3>1
    <3> QED BY <3>2 DEF u
  <2>6. Bag(f[w]) /\ DOMAIN f[w] = {By(w)}
    <3> DEFINE e == By(w)
    <3>1. f[w] = [v \in {e} |-> b[w]] /\ IsFiniteSet({e}) /\ b[w] \in Nat \ {0}
      BY <2>1, <2>2
    <3> HIDE DEF e
    <3> QED BY <3>1 DEF Bag, e
  <2> QED BY <2>3, <2>4, <2>5, <2>6
<1> HIDE DEF f
<1>4. Bag(Added(f)) /\ DOMAIN Added(f) = UNION {DOMAIN f[w] : w \in DOMAIN f}
  BY <1>2, <1>3, AddedIs
<1>5. \A e \in DOMAIN Added(f) : e.path \in Seq(AnyUse) /\ e.path[Len(e.path)] = <<k, o, s>>
  <2> SUFFICES ASSUME NEW e \in DOMAIN Added(f)
               PROVE  e.path \in Seq(AnyUse) /\ e.path[Len(e.path)] = <<k, o, s>>
    OBVIOUS
  <2>1. PICK w \in DOMAIN f : e \in DOMAIN f[w]
    BY <1>4
  <2> HIDE DEF By
  <2> QED BY <1>3, <2>1
<1> QED BY <1>1, <1>4, <1>5 DEF Ways

\* A value's gradient from those of the outputs of calls K, y's own being bag.
Parts(w, K, d) == [u \in Uses(w, K) |-> Through(d[u[1]][u[2]], u[1], u[2], u[3])]
GradientIn(w, K, y, bag, d) == (IF w = y THEN bag ELSE EmptyBag) (+) Added(Parts(w, K, d))

\* d: the gradients of the outputs of calls first..last.
Flows(d, first, last, y, bag) ==
  \A k \in first .. last :
    d[k] = [o \in calls[k].outs |-> GradientIn(<<k, o>>, (k + 1) .. last, y, bag, d)]
\* A value's gradient depends on those of the calls asked for alone.
LEMMA GradientInAgrees ==
  ASSUME NEW w, NEW K, NEW y, NEW bag, NEW d, NEW e, \A k \in K : d[k] = e[k]
  PROVE  GradientIn(w, K, y, bag, d) = GradientIn(w, K, y, bag, e)
<1>1. \A u \in Uses(w, K) : u[1] \in K
  BY DEF Uses
<1>2. Parts(w, K, d) = Parts(w, K, e)
  BY <1>1 DEF Parts
<1> QED BY <1>2 DEF GradientIn

\* What the recursive definition of a gradient works out.
LEMMA GradientSteps ==
  ASSUME NEW first \in Nat, NEW last \in Nat, first <= last + 1, NEW y, NEW bag
  PROVE  \E d : /\ Flows(d, first, last, y, bag)
                /\ \A v : Gradient(v, first, last, y, bag) = GradientIn(v, first .. last, y, bag, d)
<1> DEFINE Row(g, k) == [o \in calls[k].outs |-> GradientIn(<<k, o>>, DOMAIN g, y, bag, g)]
           R(g, k) == With(g, k, Row(g, k))
           E == [m \in {} |-> Nothing]
           F(g, k) == IF k > last THEN E ELSE R(g[k + 1], k)
           S == {j \in Nat : j <= last + 1 - first =>
                    \E g : g = [k \in (last + 1 - j) .. (last + 1) |-> F(g, k)]}
           from == CHOOSE g : g = [k \in first .. (last + 1) |-> F(g, k)]
<1>1. \A v : Gradient(v, first, last, y, bag) = GradientIn(v, first .. last, y, bag, from[first])
  BY Zenon DEF Gradient, GradientIn, Parts
<1> HIDE DEF E, R
<1>2. 0 \in S
  <2> DEFINE g == [k \in (last + 1) .. (last + 1) |-> E]
  <2>1. g = [k \in (last + 1 - 0) .. (last + 1) |-> F(g, k)]
    OBVIOUS
  <2> HIDE DEF g, F
  <2> QED BY <2>1
<1>3. ASSUME NEW j \in Nat, j \in S PROVE j + 1 \in S
  <2> SUFFICES ASSUME j + 1 <= last + 1 - first
               PROVE  \E g : g = [k \in (last + 1 - (j + 1)) .. (last + 1) |-> F(g, k)]
    OBVIOUS
  <2>1. PICK g : g = [k \in (last + 1 - j) .. (last + 1) |-> F(g, k)]
    BY <1>3
  <2> DEFINE h == [k \in (last + 1 - (j + 1)) .. (last + 1) |->
                     IF k = last - j THEN R(g[k + 1], k) ELSE g[k]]
  <2>2. ASSUME NEW k \in (last + 1 - (j + 1)) .. (last + 1) PROVE h[k] = F(h, k)
    <3>1. CASE k = last - j
      <4>1. k + 1 \in (last + 1 - j) .. (last + 1) /\ k + 1 # last - j /\ ~(k > last)
        BY <3>1
      <4> QED BY <3>1, <4>1
    <3>2. CASE k # last - j
      <4>1. k \in (last + 1 - j) .. (last + 1)
        BY <3>2
      <4>2. h[k] = F(g, k)
        BY <2>1, <3>2, <4>1
      <4>3. ~(k > last) => k + 1 \in (last + 1 - j) .. (last + 1) /\ h[k + 1] = g[k + 1]
        BY <4>1
      <4> QED BY <4>2, <4>3
    <3> QED BY <3>1, <3>2
  <2>3. h = [k \in (last + 1 - (j + 1)) .. (last + 1) |-> F(h, k)]
    BY <2>2
  <2> HIDE DEF h, F
  <2> QED BY <2>3
<1>4. \E g : g = [k \in first .. (last + 1) |-> F(g, k)]
  <2>1. last + 1 - first \in Nat /\ last + 1 - (last + 1 - first) = first
    OBVIOUS
  <2> HIDE DEF S, F
  <2>2. last + 1 - first \in S
    BY <1>2, <1>3, <2>1, EveryNatural
  <2> QED BY <2>1, <2>2 DEF S
<1>5. from = [k \in first .. (last + 1) |-> F(from, k)]
  BY <1>4
<1> HIDE DEF from
<1>6. from[last + 1] = E /\ \A k \in first .. last : from[k] = R(from[k + 1], k)
  BY <1>5
<1> DEFINE d == from[first]
           Good(k) == /\ DOMAIN from[k] = k .. last
                      /\ \A m \in k .. last : from[k][m] = from[m][m]
           T == {j \in Nat : j <= last + 1 - first => Good(last + 1 - j)}
<1>7. 0 \in T
  <2>1. DOMAIN from[last + 1] = {} /\ (last + 1) .. last = {}
    BY <1>6 DEF E
  <2>2. last + 1 - 0 = last + 1
    OBVIOUS
  <2>3. Good(last + 1)
    BY <2>1
  <2> QED BY <2>2, <2>3
<1>8. ASSUME NEW j \in Nat, j \in T PROVE j + 1 \in T
  <2> SUFFICES ASSUME j + 1 <= last + 1 - first PROVE Good(last + 1 - (j + 1))
    OBVIOUS
  <2> DEFINE k == last - j
  <2>1. k \in first .. last /\ last + 1 - (j + 1) = k /\ last + 1 - j = k + 1
    OBVIOUS
  <2>2. Good(k + 1)
    BY <1>8, <2>1
  <2> HIDE DEF k
  <2>3. /\ DOMAIN from[k] = DOMAIN from[k + 1] \cup {k}
        /\ \A m \in DOMAIN from[k + 1] : m # k => from[k][m] = from[k + 1][m]
    <3> HIDE DEF Row, Good, T, F, S
    <3>1. from[k] = R(from[k + 1], k)
      BY <1>6, <2>1
    <3>2. from[k] = With(from[k + 1], k, Row(from[k + 1], k))
      BY <3>1 DEF R
    <3> QED BY <3>2 DEF With
  <2>4. DOMAIN from[k] = k .. last
    BY <2>1, <2>2, <2>3
  <2>5. \A m \in k .. last : from[k][m] = from[m][m]
    <3> SUFFICES ASSUME NEW m \in k .. last, m # k PROVE from[k][m] = from[m][m]
      OBVIOUS
    <3>1. m \in (k + 1) .. last
      BY <2>1
    <3> QED BY <2>2, <2>3, <3>1
  <2> QED BY <2>1, <2>4, <2>5
<1>9. \A k \in first .. (last + 1) : Good(k)
  <2> SUFFICES ASSUME NEW k \in first .. (last + 1) PROVE Good(k)
    OBVIOUS
  <2>1. last + 1 - k \in Nat /\ last + 1 - k <= last + 1 - first /\ last + 1 - (last + 1 - k) = k
    OBVIOUS
  <2> HIDE DEF T, Good
  <2>2. last + 1 - k \in T
    BY <1>7, <1>8, <2>1, EveryNatural
  <2> QED BY <2>1, <2>2 DEF T
<1>10. ASSUME NEW k \in first .. last
       PROVE  d[k] = [o \in calls[k].outs |-> GradientIn(<<k, o>>, (k + 1) .. last, y, bag, d)]
  <2>1. Good(first) /\ Good(k) /\ Good(k + 1) /\ k + 1 \in first .. (last + 1)
    BY <1>9
  <2>2. d[k] = from[k][k]
    BY <2>1
  <2>3. from[k][k] = Row(from[k + 1], k)
    BY <1>6 DEF R, With
  <2>4. Row(from[k + 1], k) = [o \in calls[k].outs |-> GradientIn(<<k, o>>, (k + 1) .. last, y, bag, from[k + 1])]
    BY <2>1
  <2>5. \A m \in (k + 1) .. last : from[k + 1][m] = d[m]
    <3> SUFFICES ASSUME NEW m \in (k + 1) .. last PROVE from[k + 1][m] = d[m]
      OBVIOUS
    <3>1. m \in first .. last
      OBVIOUS
    <3> QED BY <2>1, <3>1
  <2> HIDE DEF d, Row
  <2>6. \A o : GradientIn(<<k, o>>, (k + 1) .. last, y, bag, from[k + 1])
             = GradientIn(<<k, o>>, (k + 1) .. last, y, bag, d)
    BY <2>5, GradientInAgrees
  <2> QED BY <2>2, <2>3, <2>4, <2>6
<1>11. Flows(d, first, last, y, bag)
  <2> HIDE DEF d
  <2> QED BY <1>10 DEF Flows
<1> HIDE DEF d
<1> QED BY <1>1, <1>11 DEF d
\* The recursive definition has one solution.
LEMMA FlowsAgree ==
  ASSUME NEW first \in Nat, NEW last \in Nat, NEW y, NEW bag, NEW d, NEW e,
         Flows(d, first, last, y, bag), Flows(e, first, last, y, bag)
  PROVE  \A k \in first .. last : d[k] = e[k]
<1> DEFINE T == {j \in Nat : \A k \in first .. last : last - k < j => d[k] = e[k]}
<1>1. 0 \in T
  OBVIOUS
<1>2. ASSUME NEW j \in Nat, j \in T PROVE j + 1 \in T
  <2> SUFFICES ASSUME NEW k \in first .. last, last - k < j + 1 PROVE d[k] = e[k]
    OBVIOUS
  <2>1. \A m \in (k + 1) .. last : d[m] = e[m]
    BY <1>2
  <2>2. \A o : GradientIn(<<k, o>>, (k + 1) .. last, y, bag, d) = GradientIn(<<k, o>>, (k + 1) .. last, y, bag, e)
    BY <2>1, GradientInAgrees
  <2>3. /\ d[k] = [o \in calls[k].outs |-> GradientIn(<<k, o>>, (k + 1) .. last, y, bag, d)]
        /\ e[k] = [o \in calls[k].outs |-> GradientIn(<<k, o>>, (k + 1) .. last, y, bag, e)]
    BY DEF Flows
  <2> QED BY <2>2, <2>3
<1>3. Nat \subseteq T
  <2> HIDE DEF T
  <2> QED BY <1>1, <1>2, EveryNatural
<1>4. \A k \in first .. last : last - k + 1 \in Nat /\ last - k < last - k + 1
  OBVIOUS
<1> QED BY <1>3, <1>4

\* A finite function has finitely many values.
LEMMA ImageFinite ==
  ASSUME NEW f, IsFiniteSet(DOMAIN f)
  PROVE  IsFiniteSet({f[x] : x \in DOMAIN f})
<1> DEFINE S == DOMAIN f
           T == {f[x] : x \in S}
           g == [x \in S |-> f[x]]
<1>1. g \in Surjection(S, T)
  BY DEF Surjection
<1> QED BY <1>1, FS_Surjection DEF ExistsSurjection

\* The uses of a value are finitely many, and after it.
LEMMA UsesAre ==
  ASSUME Called, NEW v, NEW K \in SUBSET DOMAIN calls
  PROVE  /\ IsFiniteSet(Uses(v, K)) /\ Uses(v, K) \subseteq AnyUse
         /\ \A u \in Uses(v, K) : /\ u = <<u[1], u[2], u[3]>>
                                  /\ u[1] \in K /\ u[2] \in calls[u[1]].outs
                                  /\ u[3] \in DOMAIN calls[u[1]].ins /\ calls[u[1]].ins[u[3]] = v
                                  /\ v[1] \in 0 .. (u[1] - 1)
         /\ \A u : u = <<u[1], u[2], u[3]>> /\ u[1] \in K /\ u[2] \in calls[u[1]].outs
                   /\ u[3] \in DOMAIN calls[u[1]].ins /\ calls[u[1]].ins[u[3]] = v => u \in Uses(v, K)
<1>1. \A u \in Uses(v, K) : /\ u = <<u[1], u[2], u[3]>>
                            /\ u[1] \in K /\ u[2] \in calls[u[1]].outs
                            /\ u[3] \in DOMAIN calls[u[1]].ins /\ calls[u[1]].ins[u[3]] = v
  BY DEF Uses
<1>2. \A u : u = <<u[1], u[2], u[3]>> /\ u[1] \in K /\ u[2] \in calls[u[1]].outs
             /\ u[3] \in DOMAIN calls[u[1]].ins /\ calls[u[1]].ins[u[3]] = v => u \in Uses(v, K)
  <2> SUFFICES ASSUME NEW m \in K, NEW o \in calls[m].outs, NEW s \in DOMAIN calls[m].ins, calls[m].ins[s] = v
               PROVE  <<m, o, s>> \in Uses(v, K)
    OBVIOUS
  <2> DEFINE I(k) == {i \in DOMAIN calls[k].ins : calls[k].ins[i] = v}
             U(k) == {<<k, p, t>> : p \in calls[k].outs, t \in I(k)}
  <2>1. Uses(v, K) = UNION {U(k) : k \in K}
    BY DEF Uses
  <2>2. s \in I(m)
    OBVIOUS
  <2> HIDE DEF I
  <2>3. <<m, o, s>> \in U(m)
    BY <2>2
  <2> HIDE DEF U
  <2> QED BY <2>1, <2>3
<1>3. \A k \in DOMAIN calls : /\ calls[k].outs \subseteq {"out", "state"} /\ IsFiniteSet(DOMAIN calls[k].ins)
                              /\ \A s \in DOMAIN calls[k].ins : calls[k].ins[s][1] \in 0 .. (k - 1)
  <2>1. \A k \in DOMAIN calls : /\ calls[k].outs \subseteq {"out", "state"} /\ IsFiniteSet(DOMAIN calls[k].ins)
    BY DEF Called, AreCalls
  <2>2. \A k \in DOMAIN calls : \A s \in DOMAIN calls[k].ins :
          k \in Nat \ {0} /\ (calls[k].ins[s][1] = 0 \/ calls[k].ins[s][1] \in 1 .. (k - 1))
    BY DEF Called, AreCalls
  <2> QED BY <2>1, <2>2
<1>4. Uses(v, K) \subseteq AnyUse
  <2> SUFFICES ASSUME NEW u \in Uses(v, K) PROVE u \in AnyUse
    OBVIOUS
  <2>1. /\ u = <<u[1], u[2], u[3]>> /\ u[1] \in DOMAIN calls /\ u[2] \in {"out", "state"}
        /\ u[3] \in UNION {DOMAIN calls[k].ins : k \in DOMAIN calls}
    BY <1>1, <1>3
  <2> QED BY <2>1 DEF AnyUse
<1>5. IsFiniteSet(AnyUse)
  <2> DEFINE A == DOMAIN calls
             B == {"out", "state"}
             C == UNION {DOMAIN calls[k].ins : k \in DOMAIN calls}
             I == {DOMAIN calls[k].ins : k \in DOMAIN calls}
  <2>1. IsFiniteSet(A)
    BY FS_Interval DEF Called
  <2>2. IsFiniteSet(B)
    <3>1. IsFiniteSet({"out"}) /\ IsFiniteSet({"state"}) /\ B = {"out"} \cup {"state"}
      BY FS_Singleton
    <3> QED BY <3>1, FS_Union
  <2>3. IsFiniteSet(C)
    <3>1. IsFiniteSet(I)
      <4> DEFINE g == [k \in A |-> DOMAIN calls[k].ins]
      <4>1. IsFiniteSet({g[k] : k \in DOMAIN g})
        <5>1. IsFiniteSet(DOMAIN g)
          BY <2>1
        <5> HIDE DEF g
        <5> QED BY <5>1, ImageFinite
      <4>2. {g[k] : k \in DOMAIN g} = I
        OBVIOUS
      <4> QED BY <4>1, <4>2
    <3>2. \A T \in I : IsFiniteSet(T)
      BY <1>3
    <3> QED BY <3>1, <3>2, FS_UNION
  <2> HIDE DEF A, B, C
  <2>4. IsFiniteSet(B \X C)
    BY <2>2, <2>3, FS_Product
  <2>5. IsFiniteSet(A \X (B \X C))
    BY <2>1, <2>4, FS_Product
  <2> DEFINE X == A \X (B \X C)
             Y == {<<x[1], x[2][1], x[2][2]>> : x \in X}
  <2>6. IsFiniteSet(Y)
    <3> DEFINE g == [x \in X |-> <<x[1], x[2][1], x[2][2]>>]
    <3>1. IsFiniteSet({g[x] : x \in DOMAIN g})
      <4>1. IsFiniteSet(DOMAIN g)
        BY <2>5
      <4> HIDE DEF g
      <4> QED BY <4>1, ImageFinite
    <3>2. {g[x] : x \in DOMAIN g} = Y
      OBVIOUS
    <3> QED BY <3>1, <3>2
  <2>7. A \X B \X C \subseteq Y
    <3> SUFFICES ASSUME NEW a \in A, NEW b \in B, NEW c \in C PROVE <<a, b, c>> \in Y
      OBVIOUS
    <3>1. <<a, <<b, c>>>> \in X
      OBVIOUS
    <3> QED BY <3>1
  <2> HIDE DEF Y
  <2>8. IsFiniteSet(A \X B \X C)
    BY <2>6, <2>7, FS_Subset
  <2> QED BY <2>8 DEF AnyUse, A, B, C
<1>6. IsFiniteSet(Uses(v, K))
  BY <1>4, <1>5, FS_Subset
<1>7. \A u \in Uses(v, K) : v[1] \in 0 .. (u[1] - 1)
  BY <1>1, <1>3
<1> QED BY <1>1, <1>2, <1>4, <1>6, <1>7
\* What reaches a value through each of its uses is kept apart by that use.
KeptApart(v, K, d) ==
  /\ Ways(Added(Parts(v, K, d)))
  /\ DOMAIN Added(Parts(v, K, d)) = UNION {DOMAIN Parts(v, K, d)[u] : u \in Uses(v, K)}
  /\ \A u \in Uses(v, K) : \A w \in DOMAIN Parts(v, K, d)[u] :
       w.path[Len(w.path)] = u /\ Added(Parts(v, K, d))[w] = Parts(v, K, d)[u][w]

\* The parts of a value's gradient make it up.
LEMMA PartsAre ==
  ASSUME Called, NEW v, NEW K \in SUBSET DOMAIN calls, NEW d,
         \A k \in K : \A o \in calls[k].outs : Ways(d[k][o])
  PROVE  KeptApart(v, K, d)
<1> DEFINE f == Parts(v, K, d)
<1>1. DOMAIN f = Uses(v, K) /\ IsFiniteSet(DOMAIN f)
  BY UsesAre DEF Parts
<1>2. ASSUME NEW u \in DOMAIN f
      PROVE  Ways(f[u]) /\ \A w \in DOMAIN f[u] : w.path[Len(w.path)] = u
  <2>1. /\ u = <<u[1], u[2], u[3]>> /\ u \in AnyUse /\ u[1] \in K /\ u[2] \in calls[u[1]].outs
    BY <1>1, UsesAre
  <2>2. f[u] = Through(d[u[1]][u[2]], u[1], u[2], u[3])
    BY <1>1 DEF Parts
  <2>3. Ways(d[u[1]][u[2]]) /\ <<u[1], u[2], u[3]>> \in AnyUse
    BY <2>1
  <2>4. /\ Ways(Through(d[u[1]][u[2]], u[1], u[2], u[3]))
        /\ \A w \in DOMAIN Through(d[u[1]][u[2]], u[1], u[2], u[3]) : w.path[Len(w.path)] = <<u[1], u[2], u[3]>>
    BY <2>3, ThroughIs
  <2> QED BY <2>1, <2>2, <2>4
<1> HIDE DEF f
<1>3. \A u \in DOMAIN f : Bag(f[u])
  BY <1>2 DEF Ways
<1>4. /\ Bag(Added(f)) /\ DOMAIN Added(f) = UNION {DOMAIN f[u] : u \in DOMAIN f}
      /\ \A x \in DOMAIN f : \A e \in DOMAIN f[x] :
           (\A y \in DOMAIN f : e \in DOMAIN f[y] => y = x) => Added(f)[e] = f[x][e]
  BY <1>1, <1>3, AddedIs
<1>5. \A u \in DOMAIN f : \A w \in DOMAIN f[u] : Added(f)[w] = f[u][w]
  <2> SUFFICES ASSUME NEW u \in DOMAIN f, NEW w \in DOMAIN f[u] PROVE Added(f)[w] = f[u][w]
    OBVIOUS
  <2>1. \A y \in DOMAIN f : w \in DOMAIN f[y] => y = u
    BY <1>2
  <2> QED BY <1>4, <2>1
<1>6. \A w \in DOMAIN Added(f) : w.path \in Seq(AnyUse)
  BY <1>2, <1>4 DEF Ways
<1>7. Ways(Added(f))
  BY <1>4, <1>6 DEF Ways
<1> QED BY <1>1, <1>2, <1>4, <1>5, <1>7 DEF f, KeptApart

Within(b, J) == [w \in {x \in DOMAIN b : x.path[Len(x.path)][1] \in J} |-> b[w]]

\* What reaches it through some calls' uses is that part of what reaches it.
LEMMA PartsWithin ==
  ASSUME Called, NEW v, NEW K \in SUBSET DOMAIN calls, NEW J \in SUBSET K, NEW d,
         \A k \in K : \A o \in calls[k].outs : Ways(d[k][o])
  PROVE  Added(Parts(v, J, d)) = Within(Added(Parts(v, K, d)), J)
<1> DEFINE all == Added(Parts(v, K, d))
           some == Added(Parts(v, J, d))
           D == {x \in DOMAIN all : x.path[Len(x.path)][1] \in J}
<1>1. /\ DOMAIN all = UNION {DOMAIN Parts(v, K, d)[u] : u \in Uses(v, K)}
      /\ \A u \in Uses(v, K) : \A w \in DOMAIN Parts(v, K, d)[u] :
           w.path[Len(w.path)] = u /\ all[w] = Parts(v, K, d)[u][w]
  <2>1. KeptApart(v, K, d)
    BY PartsAre
  <2> QED BY <2>1 DEF KeptApart
<1>2. /\ DOMAIN some = UNION {DOMAIN Parts(v, J, d)[u] : u \in Uses(v, J)}
      /\ \A u \in Uses(v, J) : \A w \in DOMAIN Parts(v, J, d)[u] :
           w.path[Len(w.path)] = u /\ some[w] = Parts(v, J, d)[u][w]
      /\ some = [w \in DOMAIN some |-> some[w]]
  <2>1. J \in SUBSET DOMAIN calls /\ \A k \in J : \A o \in calls[k].outs : Ways(d[k][o])
    OBVIOUS
  <2>2. /\ Ways(some) /\ DOMAIN some = UNION {DOMAIN Parts(v, J, d)[u] : u \in Uses(v, J)}
        /\ \A u \in Uses(v, J) : \A w \in DOMAIN Parts(v, J, d)[u] :
             w.path[Len(w.path)] = u /\ some[w] = Parts(v, J, d)[u][w]
    <3>1. KeptApart(v, J, d)
      BY <2>1, PartsAre
    <3> QED BY <3>1 DEF KeptApart
  <2> HIDE DEF some
  <2>3. some = [w \in DOMAIN some |-> some[w]]
    BY <2>2 DEF Ways, Bag
  <2> QED BY <2>2, <2>3
<1> HIDE DEF all, some
<1>3. \A u : u \in Uses(v, J) <=> u \in Uses(v, K) /\ u[1] \in J
  BY UsesAre
<1>4. \A u \in Uses(v, J) : Parts(v, J, d)[u] = Parts(v, K, d)[u]
  BY <1>3 DEF Parts
<1>5. DOMAIN some = D
  <2>1. ASSUME NEW w \in DOMAIN some PROVE w \in D
    <3>1. PICK u \in Uses(v, J) : w \in DOMAIN Parts(v, J, d)[u]
      BY <1>2
    <3> QED BY <1>1, <1>3, <1>4, <3>1
  <2>2. ASSUME NEW w \in D PROVE w \in DOMAIN some
    <3>1. PICK u \in Uses(v, K) : w \in DOMAIN Parts(v, K, d)[u]
      BY <1>1
    <3>2. u \in Uses(v, J)
      BY <1>1, <1>3, <3>1
    <3> QED BY <1>2, <1>4, <3>1, <3>2
  <2> QED BY <2>1, <2>2
<1>6. ASSUME NEW w \in DOMAIN some PROVE some[w] = all[w]
  <2>1. PICK u \in Uses(v, J) : w \in DOMAIN Parts(v, J, d)[u]
    BY <1>2
  <2> QED BY <1>1, <1>2, <1>3, <1>4, <2>1
<1>7. some = [w \in D |-> all[w]]
  BY <1>2, <1>5, <1>6
<1> QED BY <1>7 DEF all, some, Within

\* The gradients of all outputs are ways.
LEMMA FlowsAreWays ==
  ASSUME Called, NEW first \in Nat \ {0}, NEW last \in 0 .. Len(calls), NEW y, NEW bag, NEW d,
         Flows(d, first, last, y, bag), Ways(bag)
  PROVE  /\ \A k \in first .. last : \A o \in calls[k].outs : Ways(d[k][o])
         /\ \A v : Ways(GradientIn(v, first .. last, y, bag, d))
<1>0. /\ Len(calls) \in Nat /\ DOMAIN calls = 1 .. Len(calls) /\ last \in Nat
      /\ first .. last \subseteq DOMAIN calls
  BY DEF Called
<1>1. Ways(EmptyBag)
  BY NoneIsBag DEF Ways
<1>2. ASSUME NEW a, NEW b, Ways(a), Ways(b) PROVE Ways(a (+) b)
  <2>1. Bag(a) /\ Bag(b)
    BY <1>2 DEF Ways
  <2>2. Bag(a (+) b) /\ DOMAIN (a (+) b) = DOMAIN a \cup DOMAIN b
    BY <2>1, AddTwo
  <2> QED BY <1>2, <2>2 DEF Ways
<1>3. ASSUME NEW v, NEW K \in SUBSET DOMAIN calls, \A k \in K : \A o \in calls[k].outs : Ways(d[k][o])
      PROVE  Ways(GradientIn(v, K, y, bag, d))
  <2>1. Ways(Added(Parts(v, K, d)))
    BY <1>3, PartsAre DEF KeptApart
  <2>2. Ways(IF v = y THEN bag ELSE EmptyBag)
    BY <1>1
  <2> QED BY <1>2, <2>1, <2>2 DEF GradientIn
<1> DEFINE T == {j \in Nat : \A k \in first .. last : last - k < j => \A o \in calls[k].outs : Ways(d[k][o])}
<1>4. 0 \in T
  BY <1>0
<1>5. ASSUME NEW j \in Nat, j \in T PROVE j + 1 \in T
  <2> SUFFICES ASSUME NEW k \in first .. last, last - k < j + 1, NEW o \in calls[k].outs PROVE Ways(d[k][o])
    OBVIOUS
  <2>1. \A m \in (k + 1) .. last : \A p \in calls[m].outs : Ways(d[m][p])
    BY <1>0, <1>5
  <2>2. (k + 1) .. last \subseteq DOMAIN calls
    BY <1>0
  <2>3. d[k][o] = GradientIn(<<k, o>>, (k + 1) .. last, y, bag, d)
    BY DEF Flows
  <2> QED BY <1>3, <2>1, <2>2, <2>3
<1>6. Nat \subseteq T
  <2> HIDE DEF T
  <2> QED BY <1>4, <1>5, EveryNatural
<1>7. \A k \in first .. last : last - k + 1 \in Nat /\ last - k < last - k + 1
  BY <1>0
<1>8. \A k \in first .. last : \A o \in calls[k].outs : Ways(d[k][o])
  BY <1>6, <1>7
<1> QED BY <1>0, <1>3, <1>8
-----------------------------------------------------------------------------
(* The chain rule: each unit's gradients from its output's.                 *)

\* Units are in order, and hold every call.
LEMMA UnitsOrder ==
  ASSUME Stacked
  PROVE  /\ \A i, j \in 1 .. Units : i < j => Last(i) < First(j) /\ Last(i) < Last(j)
         /\ \A k \in DOMAIN calls : \E i \in 1 .. Units : k \in First(i) .. Last(i)
<1>1. /\ Len(calls) \in Nat /\ DOMAIN calls = 1 .. Len(calls) /\ Units \in Nat /\ Units >= 2
      /\ \A i \in 1 .. Units : First(i) \in Nat \ {0} /\ Last(i) \in First(i) .. Len(calls)
      /\ Last(Units) = Len(calls) /\ First(1) = 1
      /\ \A i \in 2 .. Units : First(i) = Last(i - 1) + 1
  BY UnitsAre
<1> DEFINE S == {j \in Nat : j \in 1 .. Units =>
                   /\ \A i \in 1 .. (j - 1) : Last(i) < First(j) /\ Last(i) < Last(j)
                   /\ \A k \in 1 .. Last(j) : \E i \in 1 .. j : k \in First(i) .. Last(i)}
<1>2. 0 \in S
  OBVIOUS
<1>3. ASSUME NEW j \in Nat, j \in S PROVE j + 1 \in S
  <2> SUFFICES ASSUME j + 1 \in 1 .. Units
               PROVE  /\ \A i \in 1 .. j : Last(i) < First(j + 1) /\ Last(i) < Last(j + 1)
                      /\ \A k \in 1 .. Last(j + 1) : \E i \in 1 .. (j + 1) : k \in First(i) .. Last(i)
    OBVIOUS
  <2>1. CASE j = 0
    BY <1>1, <2>1
  <2>2. CASE j # 0
    <3>1. /\ j \in 1 .. Units /\ j + 1 \in 2 .. Units /\ First(j + 1) = Last(j) + 1
          /\ Last(j) \in Nat /\ First(j + 1) \in Nat /\ Last(j + 1) \in Nat /\ First(j + 1) <= Last(j + 1)
      BY <1>1, <2>2
    <3>2. /\ \A i \in 1 .. (j - 1) : Last(i) < First(j) /\ Last(i) < Last(j) /\ Last(i) \in Nat
          /\ \A k \in 1 .. Last(j) : \E i \in 1 .. j : k \in First(i) .. Last(i)
      <4>1. /\ \A i \in 1 .. (j - 1) : Last(i) < First(j) /\ Last(i) < Last(j)
            /\ \A k \in 1 .. Last(j) : \E i \in 1 .. j : k \in First(i) .. Last(i)
        BY <1>3, <3>1
      <4>2. \A i \in 1 .. Units : Last(i) \in Nat
        <5> SUFFICES ASSUME NEW i \in 1 .. Units PROVE Last(i) \in Nat
          OBVIOUS
        <5>1. First(i) \in Nat \ {0} /\ Last(i) \in First(i) .. Len(calls)
          BY <1>1
        <5> QED BY <5>1
      <4>3. \A i \in 1 .. (j - 1) : i \in 1 .. Units
        BY <1>1, <3>1
      <4> QED BY <4>1, <4>2, <4>3
    <3>3. \A i \in 1 .. j : Last(i) < First(j + 1) /\ Last(i) < Last(j + 1)
      BY <3>1, <3>2
    <3>4. ASSUME NEW k \in 1 .. Last(j + 1) PROVE \E i \in 1 .. (j + 1) : k \in First(i) .. Last(i)
      <4>1. CASE k <= Last(j)
        <5>1. PICK i \in 1 .. j : k \in First(i) .. Last(i)
          BY <3>1, <3>2, <4>1
        <5> QED BY <5>1
      <4>2. CASE k > Last(j)
        BY <3>1, <4>2
      <4> QED BY <3>1, <4>1, <4>2
    <3> QED BY <3>3, <3>4
  <2> QED BY <2>1, <2>2
<1>4. Nat \subseteq S
  <2> HIDE DEF S
  <2> QED BY <1>2, <1>3, EveryNatural
<1>5. \A i, j \in 1 .. Units : i < j => Last(i) < First(j) /\ Last(i) < Last(j)
  BY <1>4
<1>6. Units \in S
  BY <1>1, <1>4
<1> QED BY <1>1, <1>5, <1>6

\* Of what a unit computes, the units above take its output, and the next alone does.
LEMMA Crossing ==
  ASSUME Stacked, NEW i \in 1 .. Units, NEW k \in First(i) .. Last(i), NEW o,
         NEW m \in DOMAIN calls, NEW s \in DOMAIN calls[m].ins, calls[m].ins[s] = <<k, o>>, m > Last(i)
  PROVE  <<k, o>> = Out(i) /\ i < Units /\ m \in First(i + 1) .. Last(i + 1)
<1>1. /\ Len(calls) \in Nat /\ DOMAIN calls = 1 .. Len(calls) /\ Units \in Nat /\ Units >= 2
      /\ \A j \in 1 .. Units : First(j) \in Nat \ {0} /\ Last(j) \in First(j) .. Len(calls)
      /\ \A j \in 2 .. Units : First(j) = Last(j - 1) + 1
  BY UnitsAre
<1>2. PICK j \in 1 .. Units : m \in First(j) .. Last(j)
  BY UnitsOrder
<1>3. i < j
  <2>1. ~(j < i) /\ j # i
    BY <1>1, <1>2, UnitsOrder
  <2> QED BY <1>1, <2>1
<1>4. j \in 2 .. Units /\ j - 1 \in 1 .. Units /\ (i = j - 1 \/ i < j - 1)
  BY <1>1, <1>3
<1>5. k \in 1 .. Last(j - 1) /\ (i < j - 1 => k < Last(j - 1))
  <2>1. k \in Nat \ {0} /\ k <= Last(i) /\ Last(i) \in Nat /\ Last(j - 1) \in Nat
    BY <1>1, <1>4
  <2>2. i < j - 1 => Last(i) < Last(j - 1)
    BY <1>4, UnitsOrder
  <2> QED BY <1>4, <2>1, <2>2
<1>6. \A h \in 2 .. Len(cuts) : \A c \in (cuts[h - 1] + 1) .. cuts[h] : \A t \in DOMAIN calls[c].ins :
        calls[c].ins[t][1] \in 1 .. cuts[h - 1] => calls[c].ins[t] = <<cuts[h - 1], "out">>
  BY ModelsAssumption DEF Stacked, IsModel
<1>7. m \in (Last(j - 1) + 1) .. Last(j) /\ j \in 2 .. Len(cuts)
  BY <1>1, <1>2, <1>4 DEF Units
<1>8. <<k, o>>[1] \in 1 .. Last(j - 1) => <<k, o>> = <<Last(j - 1), "out">>
  BY <1>6, <1>7 DEF Last
<1>9. <<k, o>> = <<Last(j - 1), "out">>
  BY <1>5, <1>8
<1>10. k = Last(j - 1) /\ i = j - 1
  BY <1>1, <1>4, <1>5, <1>9
<1> QED BY <1>1, <1>2, <1>4, <1>9, <1>10 DEF Out
\* d: the gradients of all calls' outputs in the whole step.
WholeFlow(d) ==
  /\ Flows(d, 1, Last(Units), Out(Units), Seed)
  /\ \A v : Whole(v) = GradientIn(v, 1 .. Last(Units), Out(Units), Seed, d)

\* They exist, and are ways.
LEMMA WholeIs ==
  ASSUME Stacked
  PROVE  /\ \E d : WholeFlow(d)
         /\ Ways(Seed)
         /\ \A d : WholeFlow(d) => \A k \in DOMAIN calls : \A o \in calls[k].outs : Ways(d[k][o])
         /\ \A v : Ways(Whole(v))
<1>1. /\ Called /\ Len(calls) \in Nat /\ DOMAIN calls = 1 .. Len(calls) /\ Last(Units) = Len(calls)
      /\ Last(Units) \in Nat /\ 1 \in Nat \ {0} /\ Last(Units) \in 0 .. Len(calls)
  BY UnitsAre
<1>2. \E d : WholeFlow(d)
  <2>1. 1 <= Last(Units) + 1 /\ 1 \in Nat
    BY <1>1
  <2> DEFINE last == Last(Units)
             y == Out(Units)
             bag == Seed
  <2>2. last \in Nat /\ 1 <= last + 1
    BY <1>1, <2>1
  <2> HIDE DEF last, y, bag
  <2>3. \E d : /\ Flows(d, 1, last, y, bag)
               /\ \A v : Gradient(v, 1, last, y, bag) = GradientIn(v, 1 .. last, y, bag, d)
    BY <2>1, <2>2, GradientSteps
  <2> QED BY <2>3 DEF WholeFlow, Whole, last, y, bag
<1>3. Ways(Seed)
  <2> DEFINE e == [part |-> "all", path |-> <<>>]
  <2>1. Seed = [w \in {e} |-> 1] /\ IsFiniteSet({e}) /\ e.path = <<>>
    BY FS_Singleton DEF Seed, SetToBag
  <2>2. e.path \in Seq(AnyUse)
    BY <2>1
  <2> HIDE DEF e
  <2>3. DOMAIN Seed = {e} /\ Seed \in [{e} -> Nat \ {0}]
    BY <2>1
  <2>4. Bag(Seed)
    BY <2>1, <2>3 DEF Bag
  <2> QED BY <2>2, <2>3, <2>4 DEF Ways
<1>4. ASSUME NEW d, WholeFlow(d)
      PROVE  /\ \A k \in DOMAIN calls : \A o \in calls[k].outs : Ways(d[k][o])
             /\ \A v : Ways(Whole(v))
  <2>1. Flows(d, 1, Last(Units), Out(Units), Seed) /\ 1 .. Last(Units) = DOMAIN calls
    BY <1>1, <1>4 DEF WholeFlow
  <2>2. /\ \A k \in 1 .. Last(Units) : \A o \in calls[k].outs : Ways(d[k][o])
        /\ \A v : Ways(GradientIn(v, 1 .. Last(Units), Out(Units), Seed, d))
    BY <1>1, <1>3, <2>1, FlowsAreWays
  <2> QED BY <1>4, <2>1, <2>2 DEF WholeFlow
<1> QED BY <1>2, <1>3, <1>4

\* The uses, in the whole step, of what a unit computes.
LEMMA UnitUses ==
  ASSUME Stacked, NEW i \in 1 .. Units, NEW k \in First(i) .. Last(i), NEW o
  PROVE  /\ <<k, o>> # Out(i) => Uses(<<k, o>>, (k + 1) .. Last(Units)) = Uses(<<k, o>>, (k + 1) .. Last(i))
         /\ Uses(<<k, o>>, 1 .. Last(Units)) = Uses(<<k, o>>, (k + 1) .. Last(Units))
         /\ <<k, o>> = Out(i) /\ i < Units =>
              Uses(<<k, o>>, 1 .. Last(Units)) = Uses(<<k, o>>, First(i + 1) .. Last(i + 1))
<1> DEFINE v == <<k, o>>
<1>1. /\ Called /\ Len(calls) \in Nat /\ DOMAIN calls = 1 .. Len(calls) /\ Units \in Nat /\ Units >= 2
      /\ \A j \in 1 .. Units : First(j) \in Nat \ {0} /\ Last(j) \in First(j) .. Len(calls)
      /\ Last(Units) = Len(calls)
      /\ \A j \in 2 .. Units : First(j) = Last(j - 1) + 1
  BY UnitsAre
<1>2. /\ First(i) \in Nat \ {0} /\ Last(i) \in Nat /\ Last(i) <= Len(calls) /\ k \in Nat \ {0}
      /\ k <= Last(i) /\ Last(Units) \in Nat
  BY <1>1
<1>3. \A u : u = <<u[1], u[2], u[3]>> /\ u[1] \in DOMAIN calls /\ u[3] \in DOMAIN calls[u[1]].ins
             /\ calls[u[1]].ins[u[3]] = v /\ u[1] > Last(i) =>
             v = Out(i) /\ i < Units /\ u[1] \in First(i + 1) .. Last(i + 1)
  BY Crossing
<1>4. \A K \in SUBSET DOMAIN calls : \A u \in Uses(v, K) :
        /\ u = <<u[1], u[2], u[3]>> /\ u[1] \in K /\ u[2] \in calls[u[1]].outs
        /\ u[3] \in DOMAIN calls[u[1]].ins /\ calls[u[1]].ins[u[3]] = v
        /\ v[1] \in 0 .. (u[1] - 1)
  BY <1>1, UsesAre
<1>5. \A K \in SUBSET DOMAIN calls : \A u :
        u = <<u[1], u[2], u[3]>> /\ u[1] \in K /\ u[2] \in calls[u[1]].outs
        /\ u[3] \in DOMAIN calls[u[1]].ins /\ calls[u[1]].ins[u[3]] = v => u \in Uses(v, K)
  BY <1>1, UsesAre
<1>6. \A K, J \in SUBSET DOMAIN calls : (\A u \in Uses(v, K) : u[1] \in J) => Uses(v, K) \subseteq Uses(v, J)
  BY <1>4, <1>5
<1>7. \A K \in SUBSET DOMAIN calls : \A u \in Uses(v, K) :
        /\ u[1] \in K /\ k < u[1] /\ u[1] \in Nat
        /\ u[1] > Last(i) => v = Out(i) /\ i < Units /\ u[1] \in First(i + 1) .. Last(i + 1)
  <2> SUFFICES ASSUME NEW K \in SUBSET DOMAIN calls, NEW u \in Uses(v, K)
               PROVE  /\ u[1] \in K /\ k < u[1] /\ u[1] \in Nat
                      /\ u[1] > Last(i) => v = Out(i) /\ i < Units /\ u[1] \in First(i + 1) .. Last(i + 1)
    OBVIOUS
  <2>1. /\ u = <<u[1], u[2], u[3]>> /\ u[1] \in K /\ u[1] \in DOMAIN calls
        /\ u[3] \in DOMAIN calls[u[1]].ins /\ calls[u[1]].ins[u[3]] = v
        /\ v[1] \in 0 .. (u[1] - 1) /\ v[1] = k
    BY <1>4
  <2>2. u[1] \in Nat /\ k < u[1]
    BY <1>1, <1>2, <2>1
  <2>3. u[1] > Last(i) => v = Out(i) /\ i < Units /\ u[1] \in First(i + 1) .. Last(i + 1)
    BY <1>3, <2>1
  <2> QED BY <2>1, <2>2, <2>3
<1> HIDE DEF v
<1> DEFINE A == 1 .. Last(Units)
           B == (k + 1) .. Last(Units)
           C == (k + 1) .. Last(i)
           N == First(i + 1) .. Last(i + 1)
<1>8. /\ A \subseteq DOMAIN calls /\ B \subseteq DOMAIN calls /\ C \subseteq DOMAIN calls
      /\ B \subseteq A /\ C \subseteq B /\ (i < Units => N \subseteq A)
  <2>1. i < Units => N \subseteq A
    <3> SUFFICES ASSUME i < Units PROVE N \subseteq A
      OBVIOUS
    <3>1. i + 1 \in 1 .. Units
      BY <1>1
    <3>2. First(i + 1) \in Nat \ {0} /\ Last(i + 1) \in First(i + 1) .. Len(calls)
      BY <1>1, <3>1
    <3> QED BY <1>1, <3>2
  <2> QED BY <1>1, <1>2, <2>1
<1>9. v # Out(i) => Uses(v, B) \subseteq Uses(v, C) /\ Uses(v, C) \subseteq Uses(v, B)
  <2>1. \A u \in Uses(v, C) : u[1] \in B
    BY <1>7, <1>8
  <2>2. v # Out(i) => \A u \in Uses(v, B) : u[1] \in C
    BY <1>2, <1>7, <1>8
  <2> HIDE DEF B, C
  <2> QED BY <1>6, <1>8, <2>1, <2>2
<1>10. Uses(v, A) \subseteq Uses(v, B) /\ Uses(v, B) \subseteq Uses(v, A)
  <2>1. \A u \in Uses(v, B) : u[1] \in A
    BY <1>7, <1>8
  <2>2. \A u \in Uses(v, A) : u[1] \in B
    BY <1>2, <1>7, <1>8
  <2> HIDE DEF A, B
  <2> QED BY <1>6, <1>8, <2>1, <2>2
<1>11. v = Out(i) /\ i < Units => Uses(v, A) \subseteq Uses(v, N) /\ Uses(v, N) \subseteq Uses(v, A)
  <2> SUFFICES ASSUME v = Out(i), i < Units PROVE Uses(v, A) \subseteq Uses(v, N) /\ Uses(v, N) \subseteq Uses(v, A)
    OBVIOUS
  <2>1. \A u \in Uses(v, N) : u[1] \in A
    BY <1>7, <1>8
  <2>2. k = Last(i)
    BY DEF v, Out
  <2>3. \A u \in Uses(v, A) : u[1] \in N
    BY <1>2, <1>7, <1>8, <2>2
  <2> HIDE DEF A, N
  <2> QED BY <1>6, <1>8, <2>1, <2>3
<1> QED BY <1>9, <1>10, <1>11 DEF v
\* Of no uses nothing comes.
LEMMA NoParts ==
  ASSUME NEW v, NEW K, NEW d, Uses(v, K) = {}
  PROVE  Added(Parts(v, K, d)) = EmptyBag
<1>1. DOMAIN Parts(v, K, d) = {} /\ IsFiniteSet({})
  BY FS_EmptySet DEF Parts
<1> QED BY <1>1, AddedSteps

\* A unit's gradients, from the whole gradient of its output, are the whole step's.
LEMMA UnitFlow ==
  ASSUME Stacked, NEW d, WholeFlow(d), NEW i \in 1 .. Units
  PROVE  \A v : Gradient(v, First(i), Last(i), Out(i), Whole(Out(i)))
                = GradientIn(v, First(i) .. Last(i), Out(i), Whole(Out(i)), d)
<1> DEFINE first == First(i)
           last == Last(i)
           y == Out(i)
           bag == Whole(y)
           L == Last(Units)
           Y == Out(Units)
<1>1. /\ Len(calls) \in Nat /\ DOMAIN calls = 1 .. Len(calls) /\ L \in Nat /\ L = Len(calls)
      /\ first \in Nat \ {0} /\ last \in first .. Len(calls) /\ last \in Nat /\ Units \in Nat
      /\ Units \in 1 .. Units
  BY UnitsAre
<1>2. Bag(bag)
  BY WholeIs DEF Ways
<1>3. i < Units => last < L
  BY <1>1, UnitsOrder
<1>4. ASSUME NEW k \in first .. last, NEW o
      PROVE  GradientIn(<<k, o>>, (k + 1) .. L, Y, Seed, d) = GradientIn(<<k, o>>, (k + 1) .. last, y, bag, d)
  <2> DEFINE v == <<k, o>>
  <2>1. CASE v # y
    <3>1. v # Y
      <4>1. CASE i < Units
        <5>1. k # L
          <6> HIDE DEF first, last, y, bag, L, Y, v
          <6>1. last < L /\ last \in Nat /\ first \in Nat /\ L \in Nat
            BY <1>1, <1>3, <4>1
          <6> QED BY <6>1
        <5> QED BY <5>1 DEF Out
      <4>2. CASE i = Units
        BY <2>1, <4>2
      <4> QED BY <1>1, <4>1, <4>2
    <3>2. Uses(v, (k + 1) .. L) = Uses(v, (k + 1) .. last)
      BY <2>1, UnitUses
    <3>3. Parts(v, (k + 1) .. L, d) = Parts(v, (k + 1) .. last, d)
      BY <3>2 DEF Parts
    <3> HIDE DEF v, y, bag, L, Y
    <3> QED BY <2>1, <3>1, <3>3 DEF GradientIn, v
  <2>2. CASE v = y
    <3>1. k = last
      BY <2>2 DEF Out
    <3>2. Uses(v, (k + 1) .. last) = {}
      <4>1. (k + 1) .. last = {}
        BY <1>1, <3>1
      <4> QED BY <4>1 DEF Uses
    <3>3. Added(Parts(v, (k + 1) .. last, d)) = EmptyBag
      BY <3>2, NoParts
    <3>4. GradientIn(v, (k + 1) .. last, y, bag, d) = bag
      <4> HIDE DEF v, y, bag, L, Y
      <4> QED BY <1>2, <2>2, <3>3, AddNone DEF GradientIn
    <3>5. Uses(v, 1 .. L) = Uses(v, (k + 1) .. L)
      BY UnitUses
    <3>6. Parts(v, (k + 1) .. L, d) = Parts(v, 1 .. L, d)
      BY <3>5 DEF Parts
    <3>7. GradientIn(v, (k + 1) .. L, Y, Seed, d) = GradientIn(v, 1 .. L, Y, Seed, d)
      <4> HIDE DEF v, y, bag, L, Y
      <4> QED BY <3>6 DEF GradientIn
    <3>8. bag = GradientIn(v, 1 .. L, Y, Seed, d)
      <4>1. Whole(v) = GradientIn(v, 1 .. L, Y, Seed, d)
        BY DEF WholeFlow
      <4> HIDE DEF v
      <4> QED BY <2>2, <4>1
    <3> QED BY <3>4, <3>7, <3>8
  <2> QED BY <2>1, <2>2
<1>5. \A k \in first .. last : k \in 1 .. L /\ d[k] = [o \in calls[k].outs |-> GradientIn(<<k, o>>, (k + 1) .. L, Y, Seed, d)]
  <2>1. \A k \in first .. last : k \in 1 .. L
    BY <1>1
  <2> QED BY <2>1 DEF WholeFlow, Flows
<1> HIDE DEF first, last, y, bag, L, Y
<1>6. Flows(d, first, last, y, bag)
  BY <1>4, <1>5 DEF Flows
<1>7. PICK e : /\ Flows(e, first, last, y, bag)
               /\ \A v : Gradient(v, first, last, y, bag) = GradientIn(v, first .. last, y, bag, e)
  <2>1. first \in Nat /\ last \in Nat /\ first <= last + 1
    BY <1>1
  <2> QED BY <2>1, GradientSteps
<1>8. \A k \in first .. last : e[k] = d[k]
  <2>1. first \in Nat
    BY <1>1
  <2> QED BY <1>1, <1>6, <1>7, <2>1, FlowsAgree
<1>9. \A v : GradientIn(v, first .. last, y, bag, e) = GradientIn(v, first .. last, y, bag, d)
  BY <1>8, GradientInAgrees
<1> QED BY <1>7, <1>9 DEF first, last, y, bag

\* The loss's gradient goes from a unit's output to the one below's, and to a
\* leaf goes through each unit the part that its uses there give.
LEMMA ChainRule ==
  ASSUME Stacked
  PROVE  /\ Whole(Out(Units)) = Seed
         /\ \A i \in 1 .. (Units - 1) :
              Gradient(Out(i), First(i + 1), Last(i + 1), Out(i + 1), Whole(Out(i + 1))) = Whole(Out(i))
         /\ \A i \in 1 .. Units : \A v : v[1] = 0 =>
              Gradient(v, First(i), Last(i), Out(i), Whole(Out(i))) = PartThrough(i, v)
<1>1. /\ Called /\ Len(calls) \in Nat /\ DOMAIN calls = 1 .. Len(calls) /\ Units \in Nat /\ Units >= 2
      /\ Last(Units) = Len(calls)
      /\ \A i \in 1 .. Units : First(i) \in Nat \ {0} /\ Last(i) \in First(i) .. Len(calls)
      /\ \A i \in 2 .. Units : First(i) = Last(i - 1) + 1
  BY UnitsAre
<1>2. PICK d : WholeFlow(d)
  BY WholeIs
<1>3. \A v : Whole(v) = GradientIn(v, 1 .. Last(Units), Out(Units), Seed, d)
  BY <1>2 DEF WholeFlow
<1>4. \A k \in DOMAIN calls : \A o \in calls[k].outs : Ways(d[k][o])
  BY <1>2, WholeIs
<1>5. Whole(Out(Units)) = Seed
  <2>1. Units \in 1 .. Units /\ Last(Units) \in First(Units) .. Last(Units) /\ Last(Units) \in Nat
    BY <1>1
  <2>2. Uses(Out(Units), 1 .. Last(Units)) = Uses(Out(Units), (Last(Units) + 1) .. Last(Units))
    BY <2>1, UnitUses DEF Out
  <2>3. Uses(Out(Units), (Last(Units) + 1) .. Last(Units)) = {}
    <3>1. (Last(Units) + 1) .. Last(Units) = {}
      BY <2>1
    <3> QED BY <3>1 DEF Uses
  <2>4. Added(Parts(Out(Units), 1 .. Last(Units), d)) = EmptyBag
    BY <2>2, <2>3, NoParts
  <2>5. Bag(Seed)
    BY WholeIs DEF Ways
  <2> QED BY <1>3, <2>4, <2>5, AddNone DEF GradientIn
<1>6. ASSUME NEW i \in 1 .. (Units - 1)
      PROVE  Gradient(Out(i), First(i + 1), Last(i + 1), Out(i + 1), Whole(Out(i + 1))) = Whole(Out(i))
  <2>1. /\ i \in 1 .. Units /\ i + 1 \in 1 .. Units /\ Units \in 1 .. Units /\ i < Units /\ i < i + 1
        /\ i + 1 \in 2 .. Units
    BY <1>1
  <2>2. Last(i) < Last(i + 1) /\ Last(i) < Last(Units) /\ Last(i) \in Nat
    BY <1>1, <2>1, UnitsOrder
  <2>3. Out(i) # Out(i + 1) /\ Out(i) # Out(Units)
    BY <2>2 DEF Out
  <2>4. Uses(Out(i), 1 .. Last(Units)) = Uses(Out(i), First(i + 1) .. Last(i + 1))
    <3>1. Last(i) \in First(i) .. Last(i)
      BY <1>1, <2>1
    <3> QED BY <2>1, <3>1, UnitUses DEF Out
  <2>5. Parts(Out(i), 1 .. Last(Units), d) = Parts(Out(i), First(i + 1) .. Last(i + 1), d)
    BY <2>4 DEF Parts
  <2>6. Gradient(Out(i), First(i + 1), Last(i + 1), Out(i + 1), Whole(Out(i + 1)))
        = GradientIn(Out(i), First(i + 1) .. Last(i + 1), Out(i + 1), Whole(Out(i + 1)), d)
    BY <1>2, <2>1, UnitFlow
  <2> QED BY <1>3, <2>3, <2>5, <2>6 DEF GradientIn
<1>7. ASSUME NEW i \in 1 .. Units, NEW v, v[1] = 0
      PROVE  Gradient(v, First(i), Last(i), Out(i), Whole(Out(i))) = PartThrough(i, v)
  <2> DEFINE J == First(i) .. Last(i)
             K == 1 .. Last(Units)
  <2>1. J \subseteq K /\ K \in SUBSET DOMAIN calls /\ K = DOMAIN calls
    BY <1>1
  <2>2. v # Out(i) /\ v # Out(Units)
    <3>1. Last(i) # 0 /\ Last(Units) # 0
      BY <1>1
    <3> QED BY <1>7, <3>1 DEF Out
  <2> HIDE DEF J, K
  <2>3. Bag(Added(Parts(v, K, d))) /\ Bag(Added(Parts(v, J, d)))
    <3>1. J \in SUBSET DOMAIN calls /\ \A k \in J : \A o \in calls[k].outs : Ways(d[k][o])
      BY <1>4, <2>1
    <3>2. KeptApart(v, J, d)
      BY <1>1, <3>1, PartsAre
    <3>3. KeptApart(v, K, d)
      BY <1>1, <1>4, <2>1, PartsAre
    <3> QED BY <3>2, <3>3 DEF KeptApart, Ways
  <2>4. Whole(v) = Added(Parts(v, K, d))
    BY <1>3, <2>2, <2>3, AddNone DEF GradientIn, K
  <2>5. Gradient(v, First(i), Last(i), Out(i), Whole(Out(i))) = Added(Parts(v, J, d))
    <3>1. Gradient(v, First(i), Last(i), Out(i), Whole(Out(i)))
          = GradientIn(v, First(i) .. Last(i), Out(i), Whole(Out(i)), d)
      BY <1>2, UnitFlow
    <3> QED BY <2>2, <2>3, <3>1, AddNone DEF GradientIn, J
  <2>6. Added(Parts(v, J, d)) = Within(Added(Parts(v, K, d)), J)
    <3>1. /\ Called /\ K \in SUBSET DOMAIN calls /\ J \in SUBSET K
          /\ \A k \in K : \A o \in calls[k].outs : Ways(d[k][o])
      BY <1>1, <1>4, <2>1
    <3> QED BY <3>1, PartsWithin
  <2> QED BY <2>4, <2>5, <2>6 DEF PartThrough, BagToSet, Within, J
<1> QED BY <1>5, <1>6, <1>7
-----------------------------------------------------------------------------
(* A step on MLX.                                                           *)

\* What is carried down the stack: the whole gradient of the output of the
\* unit at work, and the parts the layers above gave their parameters.
Carried ==
  way = "mlx" =>
    /\ stage = "forward" => DOMAIN seen = {}
    /\ stage \in {"pass", "done"} =>
         /\ at \in 1 .. (Units - 1)
         /\ grads[Input] = Whole(Out(at))
         /\ \A n \in DOMAIN seen : n[1] \in (at + 1) .. (Units - 1)
         /\ \A i \in (at + 1) .. (Units - 1) : \A p \in Own(i) \cap trainable :
              <<i, p>> \in DOMAIN seen /\ seen[<<i, p>>] = PartThrough(i, p)
    /\ stage = "done" => at = 1

CarriedInv == ReadyInv /\ Carried

\* Neither the whole gradient nor its parts change.
LEMMA WholeStays ==
  ASSUME calls' = calls, cuts' = cuts
  PROVE  /\ \A v : Whole(v)' = Whole(v)
         /\ \A i : Out(i)' = Out(i)
         /\ \A i, v : PartThrough(i, v)' = PartThrough(i, v)
<1>1. \A v : Whole(v)' = Whole(v)
  BY DEF Whole, Gradient, Uses, Out, Last, Units
<1>2. \A i : Out(i)' = Out(i) /\ First(i)' = First(i) /\ Last(i)' = Last(i)
  BY DEF Out, First, Last
<1>3. \A i, v : PartThrough(i, v)' = PartThrough(i, v)
  BY <1>1, <1>2 DEF PartThrough
<1> QED BY <1>1, <1>2, <1>3

\* The whole gradient of the output a step goes on to.
LEMMA WholeMoves ==
  ASSUME calls' = calls, cuts' = cuts, NEW i, at' = i
  PROVE  Whole(Out(at))' = Whole(Out(i))
  BY DEF Whole, Gradient, Uses, Out, Last, Units

\* A layer's step carries both on.
LEMMA LayerCarries ==
  ASSUME Stacked, Placed, Holding, Carried, MlxLayer,
         calls' = calls, cuts' = cuts, way' = way, own' = own, trainable' = trainable
  PROVE  Carried'
<1>1. /\ way = "mlx" /\ stage = "pass" /\ stage' = "pass" /\ at \in held /\ at' = at - 1
      /\ grads' = [n \in {Input} |-> Gradient(Out(at - 1), First(at), Last(at), Out(at), grads[Input])]
      /\ seen' = Register(seen, Kept(at, [p \in Own(at) \cap trainable |->
                                            Gradient(p, First(at), Last(at), Out(at), grads[Input])]))
  BY DEF MlxLayer
<1>2. /\ Units \in Nat /\ at \in 2 .. (Units - 1) /\ at - 1 \in 1 .. (Units - 1) /\ at - 1 + 1 = at
      /\ at \in 1 .. Units /\ Units' = Units
  <2>1. Units \in Nat /\ at \in 2 .. (Units - 1)
    BY <1>1, UnitsAre DEF Holding, Layers
  <2> QED BY <2>1 DEF Units
<1>3. grads[Input] = Whole(Out(at))
  BY <1>1 DEF Carried
<1>4. grads'[Input] = Whole(Out(at - 1))
  <2>1. Gradient(Out(at - 1), First(at - 1 + 1), Last(at - 1 + 1), Out(at - 1 + 1), Whole(Out(at - 1 + 1)))
        = Whole(Out(at - 1))
    BY <1>2, ChainRule
  <2> QED BY <1>1, <1>2, <1>3, <2>1
<1> DEFINE into == [p \in Own(at) \cap trainable |->
                      Gradient(p, First(at), Last(at), Out(at), grads[Input])]
           more == Kept(at, into)
<1>5. ASSUME NEW p \in Own(at) \cap trainable
      PROVE  into[p] = PartThrough(at, p)
  <2>1. p[1] = 0
    BY DEF Own
  <2> QED BY <1>2, <1>3, <2>1, ChainRule
<1> HIDE DEF into
<1>6. DOMAIN into = Own(at) \cap trainable
  BY DEF into
<1>7. DOMAIN more = {<<at, p>> : p \in Own(at) \cap trainable}
  BY <1>6 DEF Kept
<1>8. \A p \in Own(at) \cap trainable : <<at, p>> \in DOMAIN more /\ more[<<at, p>>] = PartThrough(at, p)
  BY <1>5, <1>6 DEF Kept
<1> HIDE DEF more
<1>9. /\ seen' = Register(seen, more) /\ DOMAIN seen' = DOMAIN seen \cup DOMAIN more
      /\ \A n \in DOMAIN seen \ DOMAIN more : seen'[n] = seen[n]
      /\ \A n \in DOMAIN more \ DOMAIN seen : seen'[n] = more[n]
  <2>1. seen' = Register(seen, more)
    BY <1>1 DEF into, more
  <2> QED BY <2>1 DEF Register
<1>10. /\ \A n \in DOMAIN seen : n[1] \in (at + 1) .. (Units - 1)
       /\ \A i \in (at + 1) .. (Units - 1) : \A p \in Own(i) \cap trainable :
            <<i, p>> \in DOMAIN seen /\ seen[<<i, p>>] = PartThrough(i, p)
  BY <1>1 DEF Carried
<1>11. \A n \in DOMAIN seen' : n[1] \in at .. (Units - 1)
  BY <1>2, <1>7, <1>9, <1>10
<1>12. ASSUME NEW i \in at .. (Units - 1), NEW p \in Own(i) \cap trainable
       PROVE  <<i, p>> \in DOMAIN seen' /\ seen'[<<i, p>>] = PartThrough(i, p)
  <2>1. CASE i = at
    <3>1. <<i, p>> \in DOMAIN more \ DOMAIN seen
      BY <1>2, <1>8, <1>10, <2>1
    <3> QED BY <1>8, <1>9, <2>1, <3>1
  <2>2. CASE i # at
    <3>1. i \in (at + 1) .. (Units - 1)
      BY <1>2, <2>2
    <3>2. <<i, p>> \in DOMAIN seen \ DOMAIN more
      BY <1>7, <1>10, <2>2, <3>1
    <3> QED BY <1>9, <1>10, <3>1, <3>2
  <2> QED BY <2>1, <2>2
<1>13. \A i : Own(i)' = Own(i)
  BY DEF Own
<1>14. stage' # "done" /\ stage' # "forward"
  BY <1>1
<1>15. Whole(Out(at))' = Whole(Out(at - 1))
  BY <1>1, WholeMoves
<1>16. \A i, v : PartThrough(i, v)' = PartThrough(i, v)
  BY WholeStays
<1>17. at' \in 1 .. (Units' - 1) /\ at' + 1 = at /\ Units' = Units
  BY <1>1, <1>2
<1> QED BY <1>4, <1>11, <1>12, <1>13, <1>14, <1>15, <1>16, <1>17 DEF Carried

\* On MLX every layer's parameters get their part of the gradient, and what
\* the stack was given all of its own; every layer has its arrays back then, and
\* where the step fails every layer but the one it failed at.
THEOREM MlxEndsRight == Spec => []MlxEndsWhole
<1>1. Init => CarriedInv
  <2> SUFFICES ASSUME Init PROVE CarriedInv
    OBVIOUS
  <2>1. ReadyInv
    BY ReadyFirst
  <2>2. DOMAIN seen = {} /\ (way = "mlx" => stage = "forward")
    BY DEF Init
  <2> QED BY <2>1, <2>2 DEF CarriedInv, Carried
<1>2. CarriedInv /\ [Next \/ Ended]_vars => CarriedInv'
  <2> SUFFICES ASSUME CarriedInv, [Next \/ Ended]_vars PROVE CarriedInv'
    OBVIOUS
  <2>1. ReadyInv' /\ Stacked /\ Placed /\ Holding /\ Carried
    BY ReadyStays DEF CarriedInv, ReadyInv
  <2>2. calls' = calls /\ cuts' = cuts /\ way' = way /\ own' = own /\ trainable' = trainable /\ Units' = Units
    BY <2>1, KeepsStack DEF Units
  <2>3. Units \in Nat /\ Units >= 2 /\ Units - 1 \in 1 .. (Units - 1) /\ (Units - 1) + 1 = Units
    BY <2>1, UnitsAre
  <2>4. SUFFICES Carried'
    BY <2>1 DEF CarriedInv
  <2>5. \A i : Own(i)' = Own(i)
    BY <2>2 DEF Own
  <2>6. CASE way # "mlx"
    BY <2>2, <2>6 DEF Carried
  <2>7. CASE MlxHead
    <3>1. /\ way = "mlx" /\ at = Units /\ stage = "forward" /\ stage' = "pass" /\ at' = Units - 1
          /\ seen' = seen /\ DOMAIN seen = {}
          /\ grads' = [n \in {Input} |-> Gradient(Out(Units - 1), First(Units), Last(Units), Out(Units), Seed)]
      BY <2>1, <2>7 DEF MlxHead, Carried
    <3>2. Gradient(Out(Units - 1), First(Units), Last(Units), Out(Units), Seed) = Whole(Out(Units - 1))
      <4>1. Seed = Whole(Out(Units))
        BY <2>1, ChainRule
      <4>2. Gradient(Out(Units - 1), First((Units - 1) + 1), Last((Units - 1) + 1), Out((Units - 1) + 1),
                     Whole(Out((Units - 1) + 1))) = Whole(Out(Units - 1))
        BY <2>1, <2>3, ChainRule
      <4> QED BY <2>3, <4>1, <4>2
    <3>3. grads'[Input] = Whole(Out(at))'
      <4>1. Whole(Out(at))' = Whole(Out(Units - 1))
        BY <2>2, <3>1, WholeMoves
      <4> QED BY <3>1, <3>2, <4>1
    <3>4. (at' + 1) .. (Units' - 1) = {} /\ at' \in 1 .. (Units' - 1)
      BY <2>2, <2>3, <3>1
    <3>5. DOMAIN seen' = {} /\ stage' # "done" /\ stage' # "forward"
      BY <3>1
    <3> QED BY <3>3, <3>4, <3>5 DEF Carried
  <2>8. CASE MlxLayer
    BY <2>1, <2>2, <2>8, LayerCarries
  <2>9. CASE stage' = "forward" /\ seen' = seen /\ stage = "forward"
    BY <2>1, <2>2, <2>9 DEF Carried
  <2>10. CASE stage' = "failed"
    BY <2>10 DEF Carried
  <2>11. CASE /\ UNCHANGED <<grads, at, seen>> /\ stage \in {"pass", "done"} /\ stage' \in {"pass", "done"}
              /\ stage' = "done" => at = 1 \/ stage = "done"
    BY <2>1, <2>2, <2>5, <2>11, WholeStays DEF Carried
  <2>12. CASE way = "mlx" /\ ~MlxHead /\ ~MlxLayer
    <3>1. MlxForward \/ MlxTrace \/ MlxFail \/ MlxEvalFails \/ MlxEnd \/ UNCHANGED vars
      <4>1. ~ForwardLayer /\ ~HeadPass /\ ~LayerPass /\ ~LastPass /\ ~PlainPass /\ ~PlainEnd
        BY <2>12 DEF ForwardLayer, HeadPass, LayerPass, LastPass, PlainPass, PlainEnd
      <4>2. ~RunNode
        BY <2>1, <2>12 DEF RunNode, Run, Placed
      <4> QED BY <2>12, <4>1, <4>2 DEF Next, Ended
    <3>2. CASE MlxForward
      BY <2>9, <2>10, <3>2 DEF MlxForward
    <3>3. CASE MlxTrace
      BY <2>11, <3>3 DEF MlxTrace
    <3>4. CASE MlxFail \/ MlxEvalFails
      BY <2>10, <3>4 DEF MlxFail, MlxEvalFails
    <3>5. CASE MlxEnd
      BY <2>11, <3>5 DEF MlxEnd
    <3>6. CASE UNCHANGED vars
      BY <2>1, <2>9, <2>10, <2>11, <3>6 DEF vars, Placed
    <3> QED BY <3>1, <3>2, <3>3, <3>4, <3>5, <3>6
  <2> QED BY <2>6, <2>7, <2>8, <2>12
<1>3. CarriedInv => MlxEndsWhole
  <2> SUFFICES ASSUME CarriedInv PROVE MlxEndsWhole
    OBVIOUS
  <2>1. /\ held \subseteq {at} /\ (stage = "done" => held = {})
        /\ Units \in Nat /\ Layers = 2 .. (Units - 1)
    BY UnitsAre DEF CarriedInv, ReadyInv, Holding, Layers
  <2>2. ASSUME way = "mlx", stage = "done"
        PROVE  /\ grads[Input] = Whole(Out(1))
               /\ \A i \in Layers : \A p \in Own(i) \cap trainable : SeenOf(<<i, p>>) = PartThrough(i, p)
    <3>1. /\ at = 1 /\ grads[Input] = Whole(Out(at))
          /\ \A i \in (at + 1) .. (Units - 1) : \A p \in Own(i) \cap trainable :
               <<i, p>> \in DOMAIN seen /\ seen[<<i, p>>] = PartThrough(i, p)
      BY <2>2 DEF CarriedInv, Carried
    <3>2. \A i \in Layers : i \in (at + 1) .. (Units - 1)
      BY <2>1, <3>1
    <3> QED BY <3>1, <3>2 DEF SeenOf
  <2> QED BY <2>1, <2>2 DEF MlxEndsWhole
<1> QED BY <1>1, <1>2, <1>3, PTL DEF Spec

-----------------------------------------------------------------------------
(* On Burn's tape: what goes through a use in the whole step, and sums of   *)
(* that over uses.                                                          *)

Flow(u) == Through(Whole(<<u[1], u[2]>>), u[1], u[2], u[3])

\* b is what goes through uses U, and nothing else.
SumOver(b, U) ==
  /\ Bag(b)
  /\ DOMAIN b = UNION {DOMAIN Flow(u) : u \in U}
  /\ \A u \in U : \A w \in DOMAIN Flow(u) : b[w] = Flow(u)[w]

\* What goes through a use has it last.
LEMMA FlowIs ==
  ASSUME Stacked, NEW u \in AnyUse
  PROVE  Bag(Flow(u)) /\ \A w \in DOMAIN Flow(u) : w.path[Len(w.path)] = u
<1>1. u = <<u[1], u[2], u[3]>>
  BY DEF AnyUse
<1>2. Ways(Whole(<<u[1], u[2]>>))
  BY WholeIs
<1>3. <<u[1], u[2], u[3]>> \in AnyUse
  BY <1>1
<1> DEFINE b == Whole(<<u[1], u[2]>>)
<1> HIDE DEF b
<1>4. /\ Ways(Through(b, u[1], u[2], u[3]))
      /\ \A w \in DOMAIN Through(b, u[1], u[2], u[3]) : w.path[Len(w.path)] = <<u[1], u[2], u[3]>>
  BY <1>2, <1>3, ThroughIs DEF b
<1> QED BY <1>1, <1>4 DEF b, Flow, Ways

\* A sum over uses is one bag.
LEMMA SumUnique ==
  ASSUME NEW b, NEW c, NEW U, SumOver(b, U), SumOver(c, U)
  PROVE  b = c
<1>1. DOMAIN b = DOMAIN c
  BY DEF SumOver
<1>2. \A w \in DOMAIN b : b[w] = c[w]
  BY DEF SumOver
<1>3. b = [w \in DOMAIN b |-> b[w]] /\ c = [w \in DOMAIN c |-> c[w]]
  BY DEF SumOver, Bag
<1> QED BY <1>1, <1>2, <1>3

\* Nothing goes through no uses.
LEMMA SumNone ==
  ASSUME NEW U, \A u \in U : DOMAIN Flow(u) = {}
  PROVE  SumOver(EmptyBag, U)
<1>1. Bag(EmptyBag) /\ DOMAIN EmptyBag = {}
  BY NoneIsBag
<1> QED BY <1>1 DEF SumOver

\* Nor does anything more through uses that nothing goes through.
LEMMA SumDead ==
  ASSUME NEW b, NEW U, NEW W, SumOver(b, U), \A u \in W \ U : DOMAIN Flow(u) = {}, U \subseteq W
  PROVE  SumOver(b, W)
<1>1. \A u \in W : u \in U \/ DOMAIN Flow(u) = {}
  OBVIOUS
<1>2. UNION {DOMAIN Flow(u) : u \in U} = UNION {DOMAIN Flow(u) : u \in W}
  BY <1>1
<1> QED BY <1>1, <1>2 DEF SumOver

\* Sums over uses apart add up.
LEMMA SumJoin ==
  ASSUME Stacked, NEW U \in SUBSET AnyUse, NEW W \in SUBSET AnyUse, U \cap W = {},
         NEW b, NEW c, SumOver(b, U), SumOver(c, W)
  PROVE  SumOver(b (+) c, U \cup W)
<1>1. Bag(b) /\ Bag(c)
  BY DEF SumOver
<1>2. /\ Bag(b (+) c) /\ DOMAIN (b (+) c) = DOMAIN b \cup DOMAIN c
      /\ \A e \in DOMAIN b \ DOMAIN c : (b (+) c)[e] = b[e]
      /\ \A e \in DOMAIN c \ DOMAIN b : (b (+) c)[e] = c[e]
  BY <1>1, AddTwo
<1>3. ASSUME NEW u \in U, NEW v \in W, NEW w \in DOMAIN Flow(u), w \in DOMAIN Flow(v) PROVE FALSE
  <2>1. w.path[Len(w.path)] = u /\ w.path[Len(w.path)] = v
    BY <1>3, FlowIs
  <2> QED BY <2>1
<1> DEFINE D(S) == UNION {DOMAIN Flow(u) : u \in S}
<1>4. DOMAIN b = D(U) /\ DOMAIN c = D(W)
  BY DEF SumOver
<1>5. D(U) \cup D(W) = D(U \cup W)
  OBVIOUS
<1>6. \A u \in U : \A w \in DOMAIN Flow(u) : w \in DOMAIN b \ DOMAIN c
  BY <1>3, <1>4
<1>7. \A u \in W : \A w \in DOMAIN Flow(u) : w \in DOMAIN c \ DOMAIN b
  BY <1>3, <1>4
<1>8. \A u \in U \cup W : \A w \in DOMAIN Flow(u) : (b (+) c)[w] = Flow(u)[w]
  BY <1>2, <1>6, <1>7 DEF SumOver
<1>9. DOMAIN (b (+) c) = D(U \cup W)
  BY <1>2, <1>4, <1>5
<1> QED BY <1>2, <1>8, <1>9 DEF SumOver

\* So do finitely many.
LEMMA SumAll ==
  ASSUME Stacked, NEW g, IsFiniteSet(DOMAIN g), NEW U,
         \A s \in DOMAIN g : U[s] \subseteq AnyUse /\ SumOver(g[s], U[s]),
         \A s, t \in DOMAIN g : s # t => U[s] \cap U[t] = {}
  PROVE  SumOver(Added(g), UNION {U[s] : s \in DOMAIN g})
<1>1. \A s \in DOMAIN g : Bag(g[s])
  BY DEF SumOver
<1>2. /\ Bag(Added(g)) /\ DOMAIN Added(g) = UNION {DOMAIN g[s] : s \in DOMAIN g}
      /\ \A s \in DOMAIN g : \A e \in DOMAIN g[s] :
           (\A t \in DOMAIN g : e \in DOMAIN g[t] => t = s) => Added(g)[e] = g[s][e]
  BY <1>1, AddedIs
<1>3. ASSUME NEW s \in DOMAIN g
      PROVE  /\ DOMAIN g[s] = UNION {DOMAIN Flow(u) : u \in U[s]}
             /\ \A u \in U[s] : \A w \in DOMAIN Flow(u) : g[s][w] = Flow(u)[w]
             /\ \A w \in DOMAIN g[s] : \E u \in U[s] : w \in DOMAIN Flow(u)
             /\ \A w \in DOMAIN g[s] : w.path[Len(w.path)] \in U[s]
  <2> DEFINE S == U[s]
             b == g[s]
  <2>1. SumOver(b, S) /\ S \subseteq AnyUse
    OBVIOUS
  <2> HIDE DEF S, b
  <2>2. /\ DOMAIN b = UNION {DOMAIN Flow(u) : u \in S}
        /\ \A u \in S : \A w \in DOMAIN Flow(u) : b[w] = Flow(u)[w]
    BY <2>1 DEF SumOver
  <2>3. \A w \in DOMAIN b : \E u \in S : w \in DOMAIN Flow(u)
    BY <2>2
  <2>4. \A w \in DOMAIN b : w.path[Len(w.path)] \in S
    BY <2>1, <2>3, FlowIs
  <2> QED BY <2>2, <2>3, <2>4 DEF S, b
<1> DEFINE all == UNION {U[s] : s \in DOMAIN g}
           D(u) == DOMAIN Flow(u)
<1>4. \A s \in DOMAIN g : \A w \in DOMAIN g[s] : w.path[Len(w.path)] \in U[s]
  BY <1>3
<1>5. \A s \in DOMAIN g : \A u \in U[s] : \A w \in D(u) : w \in DOMAIN g[s] /\ g[s][w] = Flow(u)[w]
  <2> SUFFICES ASSUME NEW s \in DOMAIN g, NEW u \in U[s], NEW w \in D(u)
               PROVE  w \in DOMAIN g[s] /\ g[s][w] = Flow(u)[w]
    OBVIOUS
  <2>1. DOMAIN g[s] = UNION {DOMAIN Flow(x) : x \in U[s]}
    BY ONLY <1>3, s \in DOMAIN g
  <2>2. \A x \in U[s] : \A e \in DOMAIN Flow(x) : g[s][e] = Flow(x)[e]
    BY ONLY <1>3, s \in DOMAIN g
  <2>3. w \in UNION {DOMAIN Flow(x) : x \in U[s]}
    OBVIOUS
  <2> QED BY <2>1, <2>2, <2>3
<1>6. \A s \in DOMAIN g : \A w \in DOMAIN g[s] : \E u \in U[s] : w \in D(u)
  BY <1>3
<1> HIDE DEF D
<1>7. ASSUME NEW s \in DOMAIN g, NEW e \in DOMAIN g[s] PROVE Added(g)[e] = g[s][e]
  <2>1. \A t \in DOMAIN g : e \in DOMAIN g[t] => t = s
    <3> SUFFICES ASSUME NEW t \in DOMAIN g, e \in DOMAIN g[t], t # s PROVE FALSE
      OBVIOUS
    <3>1. e.path[Len(e.path)] \in U[s] /\ e.path[Len(e.path)] \in U[t]
      BY <1>4
    <3> QED BY <3>1
  <2> QED BY <1>2, <2>1
<1>8. \A u : u \in all <=> \E s \in DOMAIN g : u \in U[s]
  OBVIOUS
<1> HIDE DEF all
<1>9. DOMAIN Added(g) = UNION {D(u) : u \in all}
  <2>1. \A e : e \in DOMAIN Added(g) <=> \E s \in DOMAIN g : e \in DOMAIN g[s]
    BY <1>2
  <2>2. \A e : e \in DOMAIN Added(g) => \E u \in all : e \in D(u)
    BY <1>6, <1>8, <2>1
  <2>3. \A e : (\E u \in all : e \in D(u)) => e \in DOMAIN Added(g)
    BY <1>5, <1>8, <2>1
  <2> QED BY <2>2, <2>3
<1>10. ASSUME NEW u \in all, NEW w \in D(u) PROVE Added(g)[w] = Flow(u)[w]
  <2>1. PICK s \in DOMAIN g : u \in U[s]
    BY <1>8
  <2>2. w \in DOMAIN g[s] /\ g[s][w] = Flow(u)[w]
    BY <1>5, <2>1
  <2> QED BY <1>7, <2>1, <2>2
<1> QED BY <1>2, <1>9, <1>10 DEF SumOver, all, D

\* A bag whose elements are given other names.
LEMMA Renamed ==
  ASSUME NEW b, Bag(b), NEW R, \A v, w \in DOMAIN b : R[v] = R[w] => v = w
  PROVE  LET c == Added([w \in DOMAIN b |-> Copies(R[w], b[w])]) IN
         /\ Bag(c) /\ DOMAIN c = {R[w] : w \in DOMAIN b}
         /\ \A w \in DOMAIN b : c[R[w]] = b[w]
<1> DEFINE f == [w \in DOMAIN b |-> Copies(R[w], b[w])]
           c == Added(f)
<1>1. DOMAIN f = DOMAIN b /\ IsFiniteSet(DOMAIN f)
  BY DEF Bag
<1>2. ASSUME NEW w \in DOMAIN b
      PROVE  /\ Bag(f[w]) /\ DOMAIN f[w] = {R[w]} /\ f[w][R[w]] = b[w]
  <2> DEFINE e == R[w]
             n == b[w]
  <2>1. f[w] = [v \in {e} |-> n] /\ n \in Nat \ {0}
    BY DEF Copies, Bag
  <2>2. IsFiniteSet({e})
    BY FS_Singleton
  <2> HIDE DEF e, n, f
  <2> QED BY <2>1, <2>2 DEF Bag, e, n
<1> HIDE DEF f
<1>3. /\ Bag(c) /\ DOMAIN c = UNION {DOMAIN f[w] : w \in DOMAIN f}
      /\ \A w \in DOMAIN f : \A e \in DOMAIN f[w] :
           (\A v \in DOMAIN f : e \in DOMAIN f[v] => v = w) => c[e] = f[w][e]
  BY <1>1, <1>2, AddedIs
<1>4. \A w \in DOMAIN b : c[R[w]] = b[w]
  BY <1>1, <1>2, <1>3
<1>5. DOMAIN c = {R[w] : w \in DOMAIN b}
  BY <1>1, <1>2, <1>3
<1> QED BY <1>3, <1>4, <1>5 DEF c, f

\* Ways of one part alone.
OfPart(b, q) == \A w \in DOMAIN b : w = [part |-> q, path |-> w.path]

\* c is the ways of b, each gone on through use u.
Longer(w, u) == [part |-> "all", path |-> Append(w.path, u)]
Carries(c, b, u) ==
  /\ Bag(c) /\ OfPart(c, "all")
  /\ DOMAIN c = {Longer(w, u) : w \in DOMAIN b}
  /\ \A w \in DOMAIN b : c[Longer(w, u)] = b[w]

\* Through a use, each way goes once.
LEMMA ThroughExact ==
  ASSUME NEW b, Ways(b), NEW q, OfPart(b, q), NEW k, NEW o, NEW s, <<k, o, s>> \in AnyUse
  PROVE  Carries(Through(b, k, o, s), b, <<k, o, s>>)
<1> DEFINE By(w) == [part |-> "all", path |-> Append(w.path, <<k, o, s>>)]
           R == [w \in DOMAIN b |-> By(w)]
           c == Through(b, k, o, s)
<1>1. c = Added([w \in DOMAIN b |-> Copies(R[w], b[w])])
  <2>1. [w \in DOMAIN b |-> Copies(R[w], b[w])] = [w \in DOMAIN b |-> Copies(By(w), b[w])]
    OBVIOUS
  <2> QED BY <2>1 DEF Through
<1>2. ASSUME NEW v \in DOMAIN b, NEW w \in DOMAIN b, R[v] = R[w] PROVE v = w
  <2> DEFINE u == <<k, o, s>>
             x == v.path
             y == w.path
  <2>1. x \in Seq(AnyUse) /\ y \in Seq(AnyUse) /\ u \in AnyUse
    BY DEF Ways
  <2>2. By(v).path = Append(x, u) /\ By(w).path = Append(y, u)
    OBVIOUS
  <2>3. By(v) = By(w)
    BY <1>2
  <2>4. Append(x, u) = Append(y, u)
    BY <2>2, <2>3
  <2>5. v = [part |-> q, path |-> x] /\ w = [part |-> q, path |-> y]
    BY DEF OfPart
  <2> HIDE DEF u, x, y
  <2>6. x = y
    <3>1. Len(x) = Len(y) /\ Len(x) \in Nat /\ DOMAIN x = 1 .. Len(x) /\ DOMAIN y = 1 .. Len(y)
      BY <2>1, <2>4
    <3>2. \A i \in 1 .. Len(x) : Append(x, u)[i] = x[i] /\ Append(y, u)[i] = y[i]
      BY <2>1, <3>1
    <3>3. \A i \in 1 .. Len(x) : x[i] = y[i]
      BY <2>4, <3>2
    <3> QED BY <2>1, <3>1, <3>3
  <2> QED BY <2>5, <2>6
<1>3. Bag(b) /\ DOMAIN R = DOMAIN b
  BY DEF Ways
<1>4. \A w \in DOMAIN b : R[w] = By(w)
  OBVIOUS
<1> HIDE DEF R
<1>5. LET e == Added([w \in DOMAIN b |-> Copies(R[w], b[w])]) IN
      /\ Bag(e) /\ DOMAIN e = {R[w] : w \in DOMAIN b}
      /\ \A w \in DOMAIN b : e[R[w]] = b[w]
  BY <1>2, <1>3, Renamed
<1>6. Bag(c) /\ DOMAIN c = {R[w] : w \in DOMAIN b} /\ \A w \in DOMAIN b : c[R[w]] = b[w]
  BY <1>1, <1>5
<1> HIDE DEF c
<1>7. DOMAIN c = {By(w) : w \in DOMAIN b}
  <2> HIDE DEF By
  <2>1. \A e : e \in DOMAIN c <=> \E w \in DOMAIN b : e = R[w]
    BY <1>6
  <2>2. \A e : e \in DOMAIN c <=> \E w \in DOMAIN b : e = By(w)
    BY <1>4, <2>1
  <2> QED BY <2>2
<1>8. \A w \in DOMAIN b : c[By(w)] = b[w]
  BY <1>4, <1>6
<1>9. OfPart(c, "all")
  <2> SUFFICES ASSUME NEW e \in DOMAIN c PROVE e = [part |-> "all", path |-> e.path]
    BY DEF OfPart
  <2>1. PICK w \in DOMAIN b : e = By(w)
    BY <1>7
  <2> QED BY <2>1
<1> QED BY <1>6, <1>7, <1>8, <1>9 DEF c, Carries, Longer

\* The whole gradient of a value is what goes through its uses, the loss's its own.
LEMMA WholeSum ==
  ASSUME Stacked, NEW v, v # Out(Units)
  PROVE  SumOver(Whole(v), Uses(v, DOMAIN calls))
<1>1. /\ Called /\ Len(calls) \in Nat /\ DOMAIN calls = 1 .. Len(calls) /\ Last(Units) = Len(calls)
      /\ \A i \in 1 .. Units : First(i) \in Nat \ {0} /\ Last(i) \in First(i) .. Len(calls)
  BY UnitsAre
<1>2. PICK d : WholeFlow(d)
  BY WholeIs
<1> DEFINE K == 1 .. Last(Units)
           Y == Out(Units)
<1>3. \A k \in DOMAIN calls : \A o \in calls[k].outs : Ways(d[k][o])
  BY <1>2, WholeIs
<1>4. ASSUME NEW k \in DOMAIN calls, NEW o \in calls[k].outs PROVE d[k][o] = Whole(<<k, o>>)
  <2>1. PICK i \in 1 .. Units : k \in First(i) .. Last(i)
    BY UnitsOrder
  <2>2. Uses(<<k, o>>, K) = Uses(<<k, o>>, (k + 1) .. Last(Units))
    BY <2>1, UnitUses
  <2>3. Parts(<<k, o>>, K, d) = Parts(<<k, o>>, (k + 1) .. Last(Units), d)
    BY <2>2 DEF Parts
  <2>4. GradientIn(<<k, o>>, K, Y, Seed, d) = GradientIn(<<k, o>>, (k + 1) .. Last(Units), Y, Seed, d)
    BY <2>3 DEF GradientIn
  <2>5. d[k] = [p \in calls[k].outs |-> GradientIn(<<k, p>>, (k + 1) .. Last(Units), Y, Seed, d)]
    BY <1>1, <1>2 DEF WholeFlow, Flows
  <2>6. d[k][o] = GradientIn(<<k, o>>, (k + 1) .. Last(Units), Y, Seed, d)
    BY <2>5
  <2>7. Whole(<<k, o>>) = GradientIn(<<k, o>>, K, Y, Seed, d)
    BY <1>2 DEF WholeFlow
  <2> QED BY <2>4, <2>6, <2>7
<1>5. K = DOMAIN calls /\ K \in SUBSET DOMAIN calls
  BY <1>1
<1>6. KeptApart(v, K, d)
  BY <1>1, <1>3, <1>5, PartsAre
<1> DEFINE b == Added(Parts(v, K, d))
<1>7. Whole(v) = EmptyBag (+) b
  BY <1>2 DEF WholeFlow, GradientIn
<1>8. Whole(v) = b
  <2>1. Bag(b)
    BY <1>6 DEF KeptApart, Ways
  <2> HIDE DEF b
  <2> QED BY <1>7, <2>1, AddNone
<1>9. \A u \in Uses(v, K) : Parts(v, K, d)[u] = Flow(u)
  <2> SUFFICES ASSUME NEW u \in Uses(v, K) PROVE Parts(v, K, d)[u] = Flow(u)
    OBVIOUS
  <2>1. u[1] \in DOMAIN calls /\ u[2] \in calls[u[1]].outs
    BY <1>1, <1>5, UsesAre
  <2>2. d[u[1]][u[2]] = Whole(<<u[1], u[2]>>)
    BY <1>4, <2>1
  <2>3. Parts(v, K, d)[u] = Through(d[u[1]][u[2]], u[1], u[2], u[3])
    BY DEF Parts
  <2> QED BY <2>2, <2>3 DEF Flow
<1> DEFINE U == Uses(v, K)
           P == Parts(v, K, d)
<1>10. /\ Bag(b) /\ DOMAIN b = UNION {DOMAIN P[u] : u \in U}
       /\ \A u \in U : \A w \in DOMAIN P[u] : b[w] = P[u][w]
  BY <1>6 DEF KeptApart, Ways
<1> HIDE DEF b, U, P, K
<1>11. UNION {DOMAIN P[u] : u \in U} = UNION {DOMAIN Flow(u) : u \in U}
  BY <1>9 DEF P, U
<1>12. SumOver(b, U)
  BY <1>9, <1>10, <1>11 DEF SumOver, P, U
<1> QED BY <1>5, <1>8, <1>12 DEF U, K

\* A whole gradient's ways are of no part.
LEMMA WholePlain ==
  ASSUME Stacked, NEW v
  PROVE  OfPart(Whole(v), "all")
<1>1. CASE v = Out(Units)
  <2>1. Whole(v) = Seed
    BY <1>1, ChainRule
  <2>2. DOMAIN Seed = {[part |-> "all", path |-> <<>>]}
    BY DEF Seed, SetToBag
  <2> QED BY <2>1, <2>2 DEF OfPart
<1>2. CASE v # Out(Units)
  <2>1. SumOver(Whole(v), Uses(v, DOMAIN calls))
    BY <1>2, WholeSum
  <2> SUFFICES ASSUME NEW w \in DOMAIN Whole(v) PROVE w = [part |-> "all", path |-> w.path]
    BY DEF OfPart
  <2>2. PICK u \in Uses(v, DOMAIN calls) : w \in DOMAIN Flow(u)
    BY <2>1 DEF SumOver
  <2> DEFINE b == Whole(<<u[1], u[2]>>)
             By(x) == [part |-> "all", path |-> Append(x.path, <<u[1], u[2], u[3]>>)]
             f == [x \in DOMAIN b |-> Copies(By(x), b[x])]
  <2>3. Flow(u) = Added(f)
    BY DEF Flow, Through
  <2>4. Bag(b)
    BY WholeIs DEF Ways
  <2>5. IsFiniteSet(DOMAIN f) /\ DOMAIN f = DOMAIN b
    BY <2>4 DEF Bag
  <2>6. \A x \in DOMAIN f : Bag(f[x]) /\ DOMAIN f[x] = {By(x)}
    <3> SUFFICES ASSUME NEW x \in DOMAIN f PROVE Bag(f[x]) /\ DOMAIN f[x] = {By(x)}
      OBVIOUS
    <3> DEFINE e == By(x)
               n == b[x]
    <3>1. f[x] = [y \in {e} |-> n] /\ n \in Nat \ {0}
      BY <2>4 DEF Copies, Bag
    <3>2. IsFiniteSet({e})
      BY FS_Singleton
    <3> HIDE DEF e, n, f
    <3> QED BY <3>1, <3>2 DEF Bag, e, n
  <2> HIDE DEF f
  <2>7. DOMAIN Added(f) = UNION {DOMAIN f[x] : x \in DOMAIN f}
    BY <2>5, <2>6, AddedIs
  <2>8. PICK x \in DOMAIN f : w = By(x)
    <3> HIDE DEF By
    <3>1. w \in DOMAIN Added(f)
      BY <2>2, <2>3
    <3>2. PICK x \in DOMAIN f : w \in DOMAIN f[x]
      BY <2>7, <3>1
    <3> QED BY <2>6, <3>2
  <2> QED BY <2>8
<1> QED BY <1>1, <1>2

-----------------------------------------------------------------------------
(* What requires a gradient: a node with a parent that does.                *)

Upon(T, N, first) == T \cup {n \in N : Elements(Parents(n, first)) \cap T # {}}
UponCall(T, k, first) ==
  Upon(Upon(T, {<<k, "node">>}, first), {<<k, r>> : r \in Roles(calls[k]) \ {"node"}}, first)

\* T is the leaves, and the nodes of D with a parent in T.
TrackedOn(T, D, leaves, first) ==
  /\ leaves \subseteq T /\ T \subseteq leaves \cup D
  /\ \A n \in D : n \in T <=> Elements(Parents(n, first)) \cap T # {}

\* What is tracked after each call.
TracksBy(to, first, last, leaves) ==
  /\ to[first - 1] = leaves
  /\ \A k \in first .. last : to[k] = UponCall(to[k - 1], k, first)
  /\ Tracked(first, last, leaves) = to[last]

\* What is tracked is worked out call by call.
LEMMA TrackedSteps ==
  ASSUME NEW leaves, NEW first \in Nat \ {0}, NEW last \in Nat, first <= last
  PROVE  \E to : TracksBy(to, first, last, leaves)
<1> DEFINE E == leaves
           R(L, k) == UponCall(L, k, first)
           F(g, k) == IF k < first THEN E ELSE R(g[k - 1], k)
           S == {j \in Nat : \E g : g = [k \in (first - 1) .. (first - 1 + j) |-> F(g, k)]}
           of == CHOOSE g : g = [k \in (first - 1) .. last |-> F(g, k)]
<1>1. Tracked(first, last, leaves) = of[last]
  BY Zenon DEF Tracked, UponCall, Upon
<1> HIDE DEF E, R
<1>2. 0 \in S
  <2> DEFINE g == [k \in (first - 1) .. (first - 1) |-> E]
  <2>1. g = [k \in (first - 1) .. (first - 1 + 0) |-> F(g, k)]
    OBVIOUS
  <2> QED BY <2>1
<1>3. ASSUME NEW j \in Nat, j \in S PROVE j + 1 \in S
  <2>1. PICK g : g = [k \in (first - 1) .. (first - 1 + j) |-> F(g, k)]
    BY <1>3
  <2> DEFINE h == [k \in (first - 1) .. (first - 1 + (j + 1)) |->
                     IF k = first + j THEN R(g[k - 1], k) ELSE g[k]]
  <2>2. ASSUME NEW k \in (first - 1) .. (first - 1 + (j + 1)) PROVE h[k] = F(h, k)
    <3>1. CASE k = first + j
      <4>1. k - 1 \in (first - 1) .. (first - 1 + j) /\ k - 1 # first + j /\ ~(k < first)
        BY <3>1
      <4> QED BY <3>1, <4>1
    <3>2. CASE k # first + j
      <4>1. k \in (first - 1) .. (first - 1 + j)
        BY <3>2
      <4>2. h[k] = F(g, k)
        BY <2>1, <3>2, <4>1
      <4>3. ~(k < first) => k - 1 \in (first - 1) .. (first - 1 + j) /\ h[k - 1] = g[k - 1]
        BY <4>1
      <4> QED BY <4>2, <4>3
    <3> QED BY <3>1, <3>2
  <2>3. h = [k \in (first - 1) .. (first - 1 + (j + 1)) |-> F(h, k)]
    BY <2>2
  <2> HIDE DEF h, F
  <2>4. \E x : x = [k \in (first - 1) .. (first - 1 + (j + 1)) |-> F(x, k)]
    BY <2>3
  <2> QED BY <2>4
<1>4. last - first + 1 \in S
  <2> HIDE DEF S
  <2> QED BY <1>2, <1>3, EveryNatural
<1>5. \E g : g = [k \in (first - 1) .. last |-> F(g, k)]
  BY <1>4
<1>6. of = [k \in (first - 1) .. last |-> F(of, k)]
  BY <1>5
<1> HIDE DEF of
<1>7. of[first - 1] = E /\ \A k \in first .. last : of[k] = R(of[k - 1], k)
  BY <1>6
<1> QED BY <1>1, <1>7 DEF E, R, TracksBy

\* More nodes, whose parents are nodes or leaves already there.
LEMMA UponNodes ==
  ASSUME NEW first, NEW leaves, NEW T, NEW D, NEW N, TrackedOn(T, D, leaves, first),
         D \cap N = {}, \A n \in D \cup N : n[1] > 0, \A n \in leaves : ~(n[1] > 0),
         \A n \in D \cup N : \A p \in Elements(Parents(n, first)) : ~(p[1] > 0) \/ p \in D
  PROVE  TrackedOn(Upon(T, N, first), D \cup N, leaves, first)
<1> DEFINE U == Upon(T, N, first)
           Par(n) == Elements(Parents(n, first))
<1>1. \A n : n \in U <=> n \in T \/ (n \in N /\ Par(n) \cap T # {})
  BY DEF Upon
<1>2. \A n \in N : n \notin T
  BY DEF TrackedOn
<1>3. \A n \in D \cup N : \A p \in Par(n) : p \notin N
  OBVIOUS
<1> HIDE DEF U, Par
<1>4. \A n \in D \cup N : Par(n) \cap U = Par(n) \cap T
  BY <1>1, <1>3
<1>5. \A n \in D : n \in T <=> Par(n) \cap T # {}
  BY DEF TrackedOn, Par
<1>6. \A n \in D \cup N : n \in U <=> Par(n) \cap U # {}
  BY <1>1, <1>2, <1>4, <1>5
<1>7. leaves \subseteq U /\ U \subseteq leaves \cup (D \cup N)
  BY <1>1 DEF TrackedOn
<1> QED BY <1>6, <1>7 DEF TrackedOn, U, Par

\* A call's nodes come after those of the calls before, its own first.
LEMMA CallNodes ==
  ASSUME Called, NEW first \in Nat \ {0}, NEW k \in first .. Len(calls)
  PROVE  LET D == NodesOf(first, k - 1)
             N == {<<k, "node">>}
             O == {<<k, r>> : r \in Roles(calls[k]) \ {"node"}} IN
         /\ (D \cup N) \cup O = NodesOf(first, k) /\ D \cap N = {} /\ (D \cup N) \cap O = {}
         /\ \A n \in (D \cup N) \cup O : n[1] > 0
         /\ \A n \in D \cup N : \A p \in Elements(Parents(n, first)) : ~(p[1] > 0) \/ p \in D
         /\ \A n \in (D \cup N) \cup O : \A p \in Elements(Parents(n, first)) : ~(p[1] > 0) \/ p \in D \cup N
<1> DEFINE D == NodesOf(first, k - 1)
           N == {<<k, "node">>}
           O == {<<k, r>> : r \in Roles(calls[k]) \ {"node"}}
           All == NodesOf(first, Len(calls))
<1>0. Len(calls) \in Nat /\ DOMAIN calls = 1 .. Len(calls) /\ k \in DOMAIN calls
  BY DEF Called
<1>1. Roles(calls[k]) \subseteq {"node", "base", "out", "state"} /\ "node" \in Roles(calls[k])
  <2>1. calls[k].outs \subseteq {"out", "state"}
    BY <1>0 DEF Called, AreCalls
  <2> QED BY <2>1 DEF Roles
<1>2. D \cup N \subseteq All /\ (D \cup N) \cup O = NodesOf(first, k) /\ NodesOf(first, k) \subseteq All
  BY <1>0, <1>1 DEF NodesOf
<1>3. \A n \in All : n[1] \in Nat /\ n[1] > 0
  BY <1>0 DEF NodesOf
<1>4. /\ \A n \in D : n[1] < k
      /\ \A n \in N : n[1] = k /\ n[2] = "node"
      /\ \A n \in O : n[1] = k /\ n[2] # "node"
  BY <1>0 DEF NodesOf
<1>5. D \cap N = {} /\ (D \cup N) \cap O = {}
  BY <1>4
<1>6. \A n \in All : \A p \in Elements(Parents(n, first)) :
        /\ p[1] = 0 \/ p \in NodesOf(first, n[1])
        /\ p[1] \in Nat /\ Rank(p) < Rank(n)
  BY ParentsBefore
<1>7. \A n \in D \cup N : \A p \in Elements(Parents(n, first)) : ~(p[1] > 0) \/ p \in D
  <2> SUFFICES ASSUME NEW n \in D \cup N, NEW p \in Elements(Parents(n, first)), p[1] > 0 PROVE p \in D
    OBVIOUS
  <2>1. p \in NodesOf(first, n[1]) /\ Rank(p) < Rank(n) /\ p[1] \in Nat
    BY <1>2, <1>6
  <2>2. p[1] < k
    <3>1. n[1] \in Nat /\ (n[1] < k \/ (n[1] = k /\ n[2] = "node")) /\ k \in Nat
      BY <1>0, <1>2, <1>3, <1>4
    <3>2. p[1] <= n[1] /\ (n[1] = k /\ n[2] = "node" => p[1] < k)
      BY <2>1, <3>1 DEF Rank, NodesOf
    <3> QED BY <2>1, <3>1, <3>2
  <2> QED BY <2>1, <2>2 DEF NodesOf
<1>8. \A n \in O : \A p \in Elements(Parents(n, first)) : ~(p[1] > 0) \/ p \in D \cup N
  <2> SUFFICES ASSUME NEW n \in O, NEW p \in Elements(Parents(n, first)), p[1] > 0 PROVE p \in D \cup N
    OBVIOUS
  <2>1. p \in NodesOf(first, k) /\ Rank(p) < Rank(n) /\ p[1] \in Nat
    BY <1>2, <1>4, <1>6
  <2>2. p[1] < k \/ (p[1] = k /\ p[2] = "node")
    BY <1>0, <1>4, <2>1 DEF Rank, NodesOf
  <2> QED BY <2>1, <2>2 DEF NodesOf
<1> HIDE DEF D, N, O, All
<1>9. \A n \in (D \cup N) \cup O : \A p \in Elements(Parents(n, first)) : ~(p[1] > 0) \/ p \in D \cup N
  BY <1>7, <1>8
<1> QED BY <1>2, <1>3, <1>5, <1>7, <1>9 DEF D, N, O

\* What a pass tracks.
LEMMA TrackedIs ==
  ASSUME Called, NEW first \in Nat \ {0}, NEW last \in first .. Len(calls),
         NEW leaves, \A n \in leaves : n[1] = 0
  PROVE  TrackedOn(Tracked(first, last, leaves), NodesOf(first, last), leaves, first)
<1>0. last \in Nat /\ Len(calls) \in Nat /\ first <= last
  BY DEF Called
<1>a. PICK to : TracksBy(to, first, last, leaves)
  BY <1>0, TrackedSteps
<1>1. /\ to[first - 1] = leaves
      /\ \A k \in first .. last : to[k] = UponCall(to[k - 1], k, first)
      /\ Tracked(first, last, leaves) = to[last]
  BY <1>a DEF TracksBy
<1> DEFINE Good(k) == TrackedOn(to[k], NodesOf(first, k), leaves, first)
           S == {j \in Nat : first - 1 + j <= last => Good(first - 1 + j)}
<1>2. 0 \in S
  <2>1. NodesOf(first, first - 1) = {}
    BY DEF NodesOf
  <2>2. Good(first - 1) /\ first - 1 + 0 = first - 1
    BY <1>1, <2>1 DEF TrackedOn
  <2> QED BY <2>2
<1>3. ASSUME NEW j \in Nat, j \in S PROVE j + 1 \in S
  <2> SUFFICES ASSUME first - 1 + (j + 1) <= last PROVE Good(first - 1 + (j + 1))
    OBVIOUS
  <2> DEFINE k == first + j
             D == NodesOf(first, k - 1)
             N == {<<k, "node">>}
             O == {<<k, r>> : r \in Roles(calls[k]) \ {"node"}}
  <2>1. k \in first .. last /\ k \in first .. Len(calls) /\ first - 1 + (j + 1) = k /\ k - 1 = first - 1 + j
    BY <1>0
  <2>2. Good(k - 1)
    BY <1>0, <1>3, <2>1
  <2>3. \A n \in leaves : ~(n[1] > 0)
    OBVIOUS
  <2> HIDE DEF k
  <2>4. /\ (D \cup N) \cup O = NodesOf(first, k) /\ D \cap N = {} /\ (D \cup N) \cap O = {}
        /\ \A n \in (D \cup N) \cup O : n[1] > 0
        /\ \A n \in D \cup N : \A p \in Elements(Parents(n, first)) : ~(p[1] > 0) \/ p \in D
        /\ \A n \in (D \cup N) \cup O : \A p \in Elements(Parents(n, first)) : ~(p[1] > 0) \/ p \in D \cup N
    BY <2>1, CallNodes
  <2>5. to[k] = Upon(Upon(to[k - 1], N, first), O, first)
    BY <1>1, <2>1 DEF UponCall
  <2>6. TrackedOn(to[k - 1], D, leaves, first)
    BY <2>2
  <2> HIDE DEF D, N, O
  <2>7. TrackedOn(Upon(to[k - 1], N, first), D \cup N, leaves, first)
    BY <2>3, <2>4, <2>6, UponNodes
  <2>8. TrackedOn(to[k], (D \cup N) \cup O, leaves, first)
    BY <2>3, <2>4, <2>5, <2>7, UponNodes
  <2> QED BY <2>1, <2>4, <2>8
<1>4. last - first + 1 \in S /\ first - 1 + (last - first + 1) = last
  <2> HIDE DEF S
  <2> QED BY <1>0, <1>2, <1>3, EveryNatural
<1>5. Good(last)
  BY <1>0, <1>4
<1> QED BY <1>1, <1>5

-----------------------------------------------------------------------------
(* The uses of a value, and the nodes that take it.                         *)

\* The value a leaf or a node is of, the pass's input the output of the call before.
ValueOf(n, first) ==
  IF n = Input THEN <<first - 1, "out">>
  ELSE IF n[1] = 0 THEN n
  ELSE <<n[1], IF n[2] \in {"out", "state"} THEN n[2] ELSE "out">>

\* The node that takes the input a use is of.
Taker(u) ==
  <<u[1], IF HasBase(calls[u[1]]) /\ u[3] = "base" THEN "base" ELSE "node">>

\* A node whose output is no output of its call: the token, or both packed.
Inner(n) ==
  /\ n[1] > 0 /\ n[2] = "node"
  /\ HasBase(calls[n[1]]) \/ Shares(calls[n[1]]) \/ Packs(calls[n[1]])

Halved(w, o) == [part |-> o, path |-> w.path]

\* b is the gradients of outputs O of call k, side by side.
Halves(b, k, O) ==
  /\ Bag(b)
  /\ DOMAIN b = UNION {{Halved(w, o) : w \in DOMAIN Whole(<<k, o>>)} : o \in O}
  /\ \A o \in O : \A w \in DOMAIN Whole(<<k, o>>) : b[Halved(w, o)] = Whole(<<k, o>>)[w]

HeldIn(g, n) == IF n \in DOMAIN g THEN g[n] ELSE EmptyBag

\* What a node of T, those still to run, or a leaf has been given of gradients
\* g: its part from every taker that has run or is not to.
OwedTo(n, first, last, T, g) ==
  IF n = NodeOf(<<last, "out">>, first) THEN HeldIn(g, n) = Whole(<<last, "out">>)
  ELSE IF ~Inner(n)
       THEN SumOver(HeldIn(g, n), {u \in Uses(ValueOf(n, first), first .. last) : Taker(u) \notin T})
  ELSE IF Packs(calls[n[1]])
       THEN Halves(HeldIn(g, n), n[1], {o \in calls[n[1]].outs : <<n[1], o>> \notin T})
  ELSE HeldIn(g, n) = EmptyBag

\* What cells c hold for call k's own node, still to run.
LeftFor(k, T, c) ==
  /\ HasBase(calls[k]) /\ "out" \in DOMAIN c[k] => c[k].out = Whole(<<k, "out">>)
  /\ Shares(calls[k]) => \A o \in calls[k].outs :
       IF o \in DOMAIN c[k] THEN c[k][o] = Whole(<<k, o>>)
       ELSE <<k, o>> \in T \/ DOMAIN Whole(<<k, o>>) = {}

Owes(first, last, tracked, T, g, c) ==
  /\ T \subseteq NodesOf(first, last) \cap tracked
  /\ \A n \in T \cup {m \in tracked : m[1] = 0} : OwedTo(n, first, last, T, g)
  /\ \A k \in first .. last : <<k, "node">> \in T => LeftFor(k, T, c)

\* What a call is, by its operation.
LEMMA CallIs ==
  ASSUME Called, NEW k \in DOMAIN calls
  PROVE  LET c == calls[k] IN
         /\ c.outs \in {{"out"}, {"out", "state"}} /\ Roles(c) \subseteq {"node", "base", "out", "state"}
         /\ "node" \in Roles(c) /\ ("base" \in Roles(c) => HasBase(c))
         /\ HasBase(c) => c.outs = {"out"} /\ ~Shares(c) /\ ~Packs(c) /\ c.op # "logprob"
                          /\ Roles(c) = {"node", "base"} /\ "base" \in DOMAIN c.ins
         /\ Shares(c) => c.outs = {"out", "state"} /\ ~Packs(c) /\ ~HasBase(c) /\ Roles(c) = {"node", "out", "state"}
         /\ Packs(c) => c.outs = {"out", "state"} /\ ~Shares(c) /\ ~HasBase(c) /\ Roles(c) = {"node", "out", "state"}
         /\ ~HasBase(c) /\ ~Shares(c) /\ ~Packs(c) => c.outs = {"out"} /\ Roles(c) = {"node"}
         /\ ~HasBase(c) => "base" \notin DOMAIN c.ins
         /\ IsFiniteSet(DOMAIN c.ins)
<1> DEFINE c == calls[k]
<1>1. /\ c.outs \in {{"out"}, {"out", "state"}}
      /\ "state" \in c.outs => c.op \in {"conv", "chunk"}
      /\ "base" \in DOMAIN c.ins => c.op = "lowrank"
      /\ IsFiniteSet(DOMAIN c.ins)
  BY DEF Called, AreCalls
<1> HIDE DEF c
<1>2. /\ HasBase(c) => c.op = "lowrank" /\ "base" \in DOMAIN c.ins
      /\ Shares(c) <=> c.op = "conv" /\ "state" \in c.outs
      /\ Packs(c) <=> c.op = "chunk" /\ "state" \in c.outs
      /\ ~HasBase(c) => c.op # "lowrank" \/ "base" \notin DOMAIN c.ins
  BY DEF HasBase, Shares, Packs
<1>3. c.outs = {"out"} \/ c.outs = {"out", "state"}
  BY <1>1
<1>4. /\ HasBase(c) => c.outs = {"out"} /\ ~Shares(c) /\ ~Packs(c) /\ c.op # "logprob" /\ "base" \in DOMAIN c.ins
      /\ Shares(c) => c.outs = {"out", "state"} /\ ~Packs(c) /\ ~HasBase(c)
      /\ Packs(c) => c.outs = {"out", "state"} /\ ~Shares(c) /\ ~HasBase(c)
      /\ ~HasBase(c) /\ ~Shares(c) /\ ~Packs(c) => c.outs = {"out"}
      /\ ~HasBase(c) => "base" \notin DOMAIN c.ins
  BY <1>1, <1>2, <1>3
<1>5. Roles(c) = IF HasBase(c) THEN {"node", "base"}
                 ELSE IF Shares(c) \/ Packs(c) THEN {"node"} \cup c.outs ELSE {"node"}
  BY DEF Roles
<1>6. CASE HasBase(c)
  <2>1. Roles(c) = {"node", "base"}
    BY <1>5, <1>6
  <2> QED BY <1>1, <1>4, <1>6, <2>1 DEF c
<1>7. CASE Shares(c) \/ Packs(c)
  <2>1. ~HasBase(c) /\ c.outs = {"out", "state"}
    BY <1>4, <1>7
  <2>2. Roles(c) = {"node", "out", "state"}
    BY <1>5, <1>7, <2>1
  <2> QED BY <1>1, <1>4, <1>7, <2>1, <2>2 DEF c
<1>8. CASE ~HasBase(c) /\ ~Shares(c) /\ ~Packs(c)
  <2>1. Roles(c) = {"node"}
    BY <1>5, <1>8
  <2> QED BY <1>1, <1>4, <1>8, <2>1 DEF c
<1> QED BY <1>6, <1>7, <1>8

\* The node a use is taken by has the used value's among its parents, but for
\* a frozen weight.
LEMMA TakerTakes ==
  ASSUME Called, NEW first \in Nat \ {0}, NEW last \in first .. Len(calls),
         NEW k \in first .. last, NEW s \in DOMAIN calls[k].ins, NEW o,
         ~(calls[k].op = "logprob" /\ s = "weight")
  PROVE  LET n == Taker(<<k, o, s>>) IN
         /\ n \in NodesOf(first, last) /\ n[1] = k
         /\ n[2] = "node" \/ (n[2] = "base" /\ s = "base")
         /\ s \in DOMAIN Parents(n, first) /\ Parents(n, first)[s] = NodeOf(calls[k].ins[s], first)
<1> DEFINE c == calls[k]
           r == IF HasBase(c) /\ s = "base" THEN "base" ELSE "node"
           n == <<k, r>>
<1>1. Taker(<<k, o, s>>) = n
  BY DEF Taker
<1>2. k \in DOMAIN calls
  BY DEF Called
<1>3. n[1] = k /\ n[2] = r
  OBVIOUS
<1>4. /\ "node" \in Roles(c) /\ (HasBase(c) => Roles(c) = {"node", "base"} /\ c.op # "logprob")
      /\ (~HasBase(c) => "base" \notin DOMAIN c.ins)
  BY <1>2, CallIs
<1>5. n \in NodesOf(first, last)
  BY <1>4 DEF NodesOf
<1>6. CASE r = "base"
  <2>1. Parents(n, first) = [i \in {"base", "token"} |->
            IF i = "base" THEN NodeOf(c.ins[i], first) ELSE <<k, "node">>]
    BY <1>3, <1>6 DEF Parents
  <2>2. s = "base"
    BY <1>6
  <2>3. s \in DOMAIN Parents(n, first) /\ Parents(n, first)[s] = NodeOf(c.ins[s], first)
    BY <2>1, <2>2
  <2> QED BY <1>1, <1>3, <1>5, <1>6, <2>2, <2>3
<1>7. CASE r = "node"
  <2>1. Parents(n, first) = [i \in Taken(c) |-> NodeOf(c.ins[i], first)]
    BY <1>3, <1>7 DEF Parents
  <2>2. s \in Taken(c)
    BY <1>4, <1>7 DEF Taken
  <2> QED BY <1>1, <1>3, <1>5, <1>7, <2>1, <2>2
<1> QED BY <1>6, <1>7

\* A node's parents are its token's node, or those of what it takes.
LEMMA ParentTakes ==
  ASSUME Called, NEW first \in Nat \ {0}, NEW n \in NodesOf(first, Len(calls)),
         NEW s \in DOMAIN Parents(n, first)
  PROVE  \/ /\ n[2] # "node" /\ s = "token" /\ Parents(n, first)[s] = <<n[1], "node">>
         \/ /\ s \in DOMAIN calls[n[1]].ins /\ (n[2] = "node" \/ (n[2] = "base" /\ s = "base"))
            /\ Parents(n, first)[s] = NodeOf(calls[n[1]].ins[s], first)
            /\ \A o : Taker(<<n[1], o, s>>) = n
            /\ ~(calls[n[1]].op = "logprob" /\ s = "weight")
<1> DEFINE k == n[1]
           c == calls[k]
           C == calls
<1>1. k \in DOMAIN C /\ n = <<k, n[2]>> /\ n[2] \in Roles(c) /\ n[2] \in {"node", "base", "out", "state"}
  BY DEF NodesOf, Called
<1>2. /\ ("base" \in Roles(c) => HasBase(c)) /\ (HasBase(c) => "base" \in DOMAIN c.ins /\ c.op # "logprob")
      /\ (~HasBase(c) => "base" \notin DOMAIN c.ins)
  BY <1>1, CallIs
<1>3. \A o : Taker(<<k, o, s>>) = <<k, IF HasBase(c) /\ s = "base" THEN "base" ELSE "node">>
  BY DEF Taker
<1>4. CASE n[2] = "node"
  <2>1. Parents(n, first) = [i \in Taken(c) |-> NodeOf(c.ins[i], first)]
    BY <1>4 DEF Parents
  <2>2. s \in Taken(c) /\ Parents(n, first)[s] = NodeOf(c.ins[s], first)
    BY <2>1
  <2>3. s \in DOMAIN c.ins /\ ~(HasBase(c) /\ s = "base") /\ ~(c.op = "logprob" /\ s = "weight")
    BY <1>2, <2>2 DEF Taken
  <2> QED BY <1>1, <1>3, <1>4, <2>2, <2>3
<1>5. CASE n[2] = "base"
  <2>1. Parents(n, first) = [i \in {"base", "token"} |->
            IF i = "base" THEN NodeOf(c.ins[i], first) ELSE <<k, "node">>]
    BY <1>5 DEF Parents
  <2>2. HasBase(c) /\ "base" \in DOMAIN c.ins /\ c.op # "logprob"
    BY <1>1, <1>2, <1>5
  <2>3. s \in {"base", "token"} /\ Parents(n, first)[s] = IF s = "base" THEN NodeOf(c.ins[s], first) ELSE <<k, "node">>
    BY <2>1
  <2>4. CASE s = "base"
    BY <1>1, <1>3, <1>5, <2>2, <2>3, <2>4
  <2>5. CASE s = "token"
    BY <1>5, <2>3, <2>5
  <2> QED BY <2>3, <2>4, <2>5
<1>6. CASE n[2] # "node" /\ n[2] # "base"
  <2>1. Parents(n, first) = [i \in {"token"} |-> <<k, "node">>]
    BY <1>6 DEF Parents
  <2> QED BY <1>6, <2>1
<1> QED BY <1>4, <1>5, <1>6

\* Calls that take of those before only the output of the last, and whose
\* outputs none but they take, the last call's apart.
Region(first, last) ==
  /\ first \in Nat \ {0} /\ last \in first .. Len(calls)
  /\ \A k \in first .. last : \A s \in DOMAIN calls[k].ins :
       calls[k].ins[s][1] \in 1 .. (first - 1) => calls[k].ins[s] = <<first - 1, "out">>
  /\ \A k \in first .. last : \A o \in calls[k].outs : <<k, o>> # <<last, "out">> =>
       Uses(<<k, o>>, DOMAIN calls) = Uses(<<k, o>>, first .. last)
  /\ first > 1 => Uses(<<first - 1, "out">>, DOMAIN calls) = Uses(<<first - 1, "out">>, first .. last)

\* The leaves a pass through them may start with.
Leaves(leaves, first) ==
  /\ leaves \subseteq trainable \cup {Input}
  /\ Input \in leaves => first > 1
  /\ \A n \in leaves : n[1] = 0

\* A node that is no inner one is of an output of its call.
LEMMA NodeValue ==
  ASSUME Called, NEW first \in Nat \ {0}, NEW last \in first .. Len(calls),
         NEW q \in NodesOf(first, last), ~Inner(q)
  PROVE  \E o \in calls[q[1]].outs : /\ ValueOf(q, first) = <<q[1], o>>
                                     /\ q = <<q[1], Role(calls[q[1]], o)>>
<1> DEFINE k == q[1]
           c == calls[k]
<1>1. k \in DOMAIN calls /\ q = <<k, q[2]>> /\ q[2] \in Roles(c) /\ k > 0 /\ k # 0
  BY DEF NodesOf, Called
<1>2. q # Input
  BY <1>1 DEF Input
<1>3. ValueOf(q, first) = <<k, IF q[2] \in {"out", "state"} THEN q[2] ELSE "out">>
  BY <1>1, <1>2 DEF ValueOf
<1>4. q[2] = "node" => ~HasBase(c) /\ ~Shares(c) /\ ~Packs(c)
  BY <1>1 DEF Inner
<1>5. \A o : Role(c, o) = IF HasBase(c) THEN "base" ELSE IF Shares(c) \/ Packs(c) THEN o ELSE "node"
  BY DEF Role
<1> HIDE DEF c
<1>6. /\ HasBase(c) => c.outs = {"out"} /\ Roles(c) = {"node", "base"}
      /\ Shares(c) \/ Packs(c) => c.outs = {"out", "state"} /\ Roles(c) = {"node", "out", "state"} /\ ~HasBase(c)
      /\ ~HasBase(c) /\ ~Shares(c) /\ ~Packs(c) => c.outs = {"out"} /\ Roles(c) = {"node"}
  BY <1>1, CallIs DEF c
<1>7. CASE HasBase(c)
  BY <1>1, <1>3, <1>4, <1>5, <1>6, <1>7 DEF c
<1>8. CASE Shares(c) \/ Packs(c)
  BY <1>1, <1>3, <1>4, <1>5, <1>6, <1>8 DEF c
<1>9. CASE ~HasBase(c) /\ ~Shares(c) /\ ~Packs(c)
  BY <1>1, <1>3, <1>4, <1>5, <1>6, <1>9 DEF c
<1> QED BY <1>7, <1>8, <1>9

\* An output's node is no inner one, and is the one of that output alone.
LEMMA ValueNode ==
  ASSUME Called, NEW first \in Nat \ {0}, NEW k \in DOMAIN calls, k >= first, NEW o \in calls[k].outs
  PROVE  LET q == <<k, Role(calls[k], o)>> IN
         /\ NodeOf(<<k, o>>, first) = q /\ ~Inner(q) /\ ValueOf(q, first) = <<k, o>>
         /\ \A last \in k .. Len(calls) : q \in NodesOf(first, last)
<1> DEFINE c == calls[k]
           r == Role(c, o)
           q == <<k, r>>
<1>1. k \in Nat /\ k > 0 /\ k # 0 /\ ~(k < first) /\ q[1] = k /\ q[2] = r
  BY DEF Called
<1>2. q # Input
  BY <1>1 DEF Input
<1>3. NodeOf(<<k, o>>, first) = q
  BY <1>1 DEF NodeOf
<1>4. ValueOf(q, first) = <<k, IF r \in {"out", "state"} THEN r ELSE "out">>
  BY <1>1, <1>2 DEF ValueOf
<1>5. r = IF HasBase(c) THEN "base" ELSE IF Shares(c) \/ Packs(c) THEN o ELSE "node"
  BY DEF Role
<1>6. Inner(q) <=> r = "node" /\ (HasBase(c) \/ Shares(c) \/ Packs(c))
  BY <1>1 DEF Inner
<1>7. r \in Roles(c) /\ Roles(c) \subseteq {"node", "base", "out", "state"}
  BY OutputsNode
<1>8. \A last \in k .. Len(calls) : q \in NodesOf(first, last)
  BY <1>1, <1>7 DEF NodesOf, Called
<1> HIDE DEF r
<1>9. /\ HasBase(c) => c.outs = {"out"}
      /\ Shares(c) \/ Packs(c) => c.outs = {"out", "state"} /\ ~HasBase(c)
      /\ ~HasBase(c) /\ ~Shares(c) /\ ~Packs(c) => c.outs = {"out"}
  BY CallIs
<1> HIDE DEF c
<1>10. o \in c.outs
  BY DEF c
<1>11. ~Inner(q) /\ ValueOf(q, first) = <<k, o>>
  BY <1>4, <1>5, <1>6, <1>9, <1>10
<1> QED BY <1>3, <1>8, <1>11 DEF r, c

\* A value's node is q just when it is the value q is of.
LEMMA InputNode ==
  ASSUME Called, NEW first, NEW last, Region(first, last),
         NEW k \in first .. last, NEW s \in DOMAIN calls[k].ins,
         NEW q, q \in NodesOf(first, last) \/ q[1] = 0, q = Input => first > 1, ~Inner(q)
  PROVE  NodeOf(calls[k].ins[s], first) = q <=> calls[k].ins[s] = ValueOf(q, first)
<1> DEFINE v == calls[k].ins[s]
<1>1. /\ first \in Nat \ {0} /\ last \in first .. Len(calls) /\ k \in DOMAIN calls
      /\ v[1] \in 1 .. (first - 1) => v = <<first - 1, "out">>
  BY DEF Region, Called
<1>2. /\ v = <<v[1], v[2]>>
      /\ \/ v[1] = 0 /\ v[2] # "input"
         \/ /\ v[1] \in 1 .. (k - 1) /\ v[1] \in DOMAIN calls
            /\ v[2] \in calls[v[1]].outs
  BY <1>1, Inputs
<1>3. q \in NodesOf(first, last) => q[1] \in Nat /\ q[1] >= first /\ q[1] # 0 /\ ValueOf(q, first)[1] = q[1]
  <2> SUFFICES ASSUME q \in NodesOf(first, last) PROVE q[1] \in Nat /\ q[1] >= first /\ q[1] # 0 /\ ValueOf(q, first)[1] = q[1]
    OBVIOUS
  <2>1. q[1] \in Nat /\ q[1] >= first /\ q[1] # 0
    BY <1>1 DEF NodesOf
  <2>2. q # Input
    BY <2>1 DEF Input
  <2> QED BY <2>1, <2>2 DEF ValueOf
<1>4. /\ Input[1] = 0 /\ Input[2] = "input"
      /\ ValueOf(Input, first) = <<first - 1, "out">>
      /\ q[1] = 0 /\ q # Input => ValueOf(q, first) = q
  BY DEF ValueOf, Input
<1> HIDE DEF v
<1>5. CASE v[1] = 0
  <2>1. NodeOf(v, first) = v /\ v # Input
    BY <1>2, <1>4, <1>5 DEF NodeOf
  <2>2. ASSUME v = ValueOf(q, first) PROVE v = q
    <3>1. q \notin NodesOf(first, last)
      BY <1>3, <1>5, <2>2
    <3>2. q # Input
      <4> SUFFICES ASSUME q = Input PROVE FALSE
        OBVIOUS
      <4>1. first - 1 # 0 /\ v = <<first - 1, "out">>
        BY <1>1, <1>4, <2>2
      <4> QED BY <1>5, <4>1
    <3> QED BY <1>4, <2>2, <3>1, <3>2
  <2>3. ASSUME v = q PROVE v = ValueOf(q, first)
    BY <1>4, <1>5, <2>1, <2>3
  <2> QED BY <2>1, <2>2, <2>3 DEF v
<1>6. CASE v[1] # 0 /\ v[1] < first
  <2>1. NodeOf(v, first) = Input /\ v = <<first - 1, "out">> /\ v[1] \in Nat
    BY <1>1, <1>2, <1>6 DEF NodeOf
  <2>2. q \in NodesOf(first, last) => v # ValueOf(q, first) /\ q # Input
    <3>1. q \in NodesOf(first, last) => ValueOf(q, first)[1] >= first
      BY <1>3
    <3>2. v[1] >= first => FALSE
      BY <1>1, <1>6, <2>1
    <3> QED BY <1>3, <1>4, <3>1, <3>2
  <2>3. q[1] = 0 /\ q # Input => v # ValueOf(q, first)
    BY <1>4, <1>6
  <2> QED BY <1>4, <2>1, <2>2, <2>3 DEF v
<1>7. CASE v[1] # 0 /\ ~(v[1] < first)
  <2> DEFINE j == v[1]
             o == v[2]
             n == <<j, Role(calls[j], o)>>
  <2>1. j \in DOMAIN calls /\ j \in first .. last /\ o \in calls[j].outs /\ v = <<j, o>>
    BY <1>1, <1>2, <1>7 DEF Called
  <2>2. NodeOf(<<j, o>>, first) = n /\ ValueOf(n, first) = <<j, o>> /\ n[1] = j
    <3>1. j >= first
      BY <1>1, <2>1
    <3> HIDE DEF j, o
    <3> QED BY <1>1, <2>1, <3>1, ValueNode
  <2>3. NodeOf(v, first) = n /\ ValueOf(n, first) = v /\ n[1] = j
    BY <2>1, <2>2
  <2> HIDE DEF n, j, o
  <2>4. ASSUME v = ValueOf(q, first) PROVE q = n
    <3>1. q \in NodesOf(first, last)
      <4>1. first - 1 < first /\ j # first - 1
        BY <1>1, <1>7 DEF j
      <4> QED BY <1>4, <1>7, <2>1, <2>4, <4>1
    <3>2. PICK p \in calls[q[1]].outs : /\ ValueOf(q, first) = <<q[1], p>>
                                        /\ q = <<q[1], Role(calls[q[1]], p)>>
      BY <1>1, <3>1, NodeValue
    <3>3. q[1] = j /\ p = o
      BY <2>1, <2>4, <3>2
    <3> QED BY <3>2, <3>3 DEF n
  <2> QED BY <2>3, <2>4 DEF v
<1> QED BY <1>5, <1>6, <1>7

\* The weight taken as frozen is a leaf that is.
LEMMA FrozenIs ==
  ASSUME Stacked, NEW k \in DOMAIN calls, NEW s \in DOMAIN calls[k].ins,
         calls[k].op = "logprob", s = "weight"
  PROVE  LET v == calls[k].ins[s] IN v[1] = 0 /\ v \notin trainable \cup {Input}
<1>1. PICK m \in Models : calls = m.calls /\ trainable \subseteq {<<0, p>> : p \in m.leaves}
  BY DEF Stacked
<1> DEFINE v == calls[k].ins[s]
           L == m.leaves
<1>2. IsModel(m)
  BY ModelsAssumption
<1>3. v[1] = 0 /\ v[2] \notin L
  BY <1>1, <1>2 DEF IsModel
<1>4. v = <<v[1], v[2]>> /\ v[2] # "input"
  <2>1. Called
    BY UnitsAre
  <2>2. /\ v = <<v[1], v[2]>>
        /\ \/ v[1] = 0 /\ v[2] # "input"
           \/ v[1] \in 1 .. (k - 1)
    BY <2>1, Inputs
  <2> QED BY <1>3, <2>2
<1>5. trainable \subseteq {<<0, p>> : p \in L}
  BY <1>1
<1> HIDE DEF v, L
<1>6. v \notin trainable
  BY <1>3, <1>4, <1>5
<1>7. v # Input
  BY <1>4 DEF Input
<1> QED BY <1>3, <1>6, <1>7 DEF v

\* Nothing goes through a use from an output with no gradient.
LEMMA EmptyFlow ==
  ASSUME Stacked, NEW u \in AnyUse, DOMAIN Whole(<<u[1], u[2]>>) = {}
  PROVE  DOMAIN Flow(u) = {}
<1> DEFINE b == Whole(<<u[1], u[2]>>)
<1>1. Ways(b) /\ OfPart(b, "all")
  BY WholeIs, WholePlain
<1>2. u = <<u[1], u[2], u[3]>>
  BY DEF AnyUse
<1>3. <<u[1], u[2], u[3]>> \in AnyUse
  BY <1>2
<1>4. DOMAIN b = {}
  OBVIOUS
<1> HIDE DEF b
<1>5. Carries(Through(b, u[1], u[2], u[3]), b, <<u[1], u[2], u[3]>>)
  BY <1>1, <1>3, ThroughExact
<1>6. DOMAIN Through(b, u[1], u[2], u[3]) = {}
  BY <1>4, <1>5 DEF Carries
<1> QED BY <1>6 DEF Flow, b

\* What takes a tracked value is tracked.
LEMMA UseTracked ==
  ASSUME Stacked, NEW first, NEW last, Region(first, last), NEW leaves, Leaves(leaves, first),
         NEW v, NEW u \in Uses(v, first .. last), NodeOf(v, first) \in Tracked(first, last, leaves)
  PROVE  LET T == Tracked(first, last, leaves) IN
         /\ TrackedOn(T, NodesOf(first, last), leaves, first)
         /\ Taker(u) \in T /\ Taker(u) \in NodesOf(first, last)
         /\ NodeOf(v, first) \in Elements(Parents(Taker(u), first))
         /\ u[3] \in DOMAIN Parents(Taker(u), first) /\ Parents(Taker(u), first)[u[3]] = NodeOf(v, first)
<1> DEFINE T == Tracked(first, last, leaves)
           K == first .. last
           k == u[1]
           s == u[3]
<1>1. /\ Called /\ DOMAIN calls = 1 .. Len(calls) /\ Len(calls) \in Nat
      /\ first \in Nat \ {0} /\ last \in first .. Len(calls) /\ K \in SUBSET DOMAIN calls
  <2>1. Called /\ DOMAIN calls = 1 .. Len(calls) /\ Len(calls) \in Nat
    BY UnitsAre
  <2>2. first \in Nat \ {0} /\ last \in first .. Len(calls)
    BY DEF Region
  <2> QED BY <2>1, <2>2
<1>2. \A n \in leaves : n[1] = 0
  BY DEF Leaves
<1>3. TrackedOn(T, NodesOf(first, last), leaves, first)
  BY <1>1, <1>2, TrackedIs
<1>4. u = <<k, u[2], s>> /\ k \in K /\ s \in DOMAIN calls[k].ins /\ calls[k].ins[s] = v
  BY <1>1, UsesAre
<1> HIDE DEF T, K
<1>5. ~(calls[k].op = "logprob" /\ s = "weight")
  <2> SUFFICES ASSUME calls[k].op = "logprob", s = "weight" PROVE FALSE
    OBVIOUS
  <2>1. v[1] = 0 /\ v \notin trainable \cup {Input}
    BY <1>1, <1>4, FrozenIs
  <2>2. NodeOf(v, first) = v
    BY <2>1 DEF NodeOf
  <2>3. v \in leaves \/ v \in NodesOf(first, last)
    BY <1>3, <2>2 DEF TrackedOn, T
  <2>4. v \notin NodesOf(first, last)
    BY <1>1, <2>1 DEF NodesOf
  <2> QED BY <2>1, <2>3, <2>4 DEF Leaves
<1> DEFINE n == Taker(<<k, u[2], s>>)
<1>6. /\ n \in NodesOf(first, last)
      /\ s \in DOMAIN Parents(n, first) /\ Parents(n, first)[s] = NodeOf(calls[k].ins[s], first)
  BY <1>1, <1>4, <1>5, TakerTakes DEF K
<1>7. n = Taker(u)
  BY <1>4
<1> HIDE DEF n
<1>8. NodeOf(v, first) \in Elements(Parents(n, first))
  BY <1>4, <1>6 DEF Elements
<1>9. n \in T
  BY <1>3, <1>6, <1>8 DEF TrackedOn, T
<1> QED BY <1>3, <1>4, <1>6, <1>7, <1>8, <1>9 DEF T

\* What takes an input of a call is the node of the output, or the node that takes from.
LEMMA OutputTaker ==
  ASSUME Called, NEW first, NEW k \in DOMAIN calls, NEW o \in calls[k].outs, NEW s \in DOMAIN calls[k].ins
  PROVE  LET m == <<k, Role(calls[k], o)>>
             n == Taker(<<k, o, s>>) IN
         m = n \/ n \in Elements(Parents(m, first))
<1> DEFINE c == calls[k]
           m == <<k, Role(c, o)>>
           n == Taker(<<k, o, s>>)
<1>1. n = <<k, IF HasBase(c) /\ s = "base" THEN "base" ELSE "node">>
  BY DEF Taker
<1>2. Role(c, o) = IF HasBase(c) THEN "base" ELSE IF Shares(c) \/ Packs(c) THEN o ELSE "node"
  BY DEF Role
<1>3. o \in {"out", "state"}
  BY CallIs
<1>4. m[2] \in {"base", "out", "state"} => n = m \/ n = <<k, "node">>
  BY <1>1, <1>2, <1>3
<1>5. m[2] \notin {"base", "out", "state"} => n = m
  BY <1>1, <1>2, <1>3
<1>6. m[2] \in {"base", "out", "state"} => <<k, "node">> \in Elements(Parents(m, first))
  <2>1. m[1] = k
    OBVIOUS
  <2> HIDE DEF m
  <2>2. CASE m[2] = "base"
    <3>1. Parents(m, first) = [i \in {"base", "token"} |->
              IF i = "base" THEN NodeOf(calls[k].ins[i], first) ELSE <<k, "node">>]
      BY <2>1, <2>2 DEF Parents
    <3>2. "token" \in DOMAIN Parents(m, first) /\ Parents(m, first)["token"] = <<k, "node">>
      BY <3>1
    <3> QED BY <3>2 DEF Elements
  <2>3. CASE m[2] \in {"out", "state"}
    <3>0. m[2] # "node" /\ m[2] # "base"
      BY <2>3
    <3>1. Parents(m, first) = [i \in {"token"} |-> <<k, "node">>]
      BY <2>1, <3>0 DEF Parents
    <3>2. "token" \in DOMAIN Parents(m, first) /\ Parents(m, first)["token"] = <<k, "node">>
      BY <3>1
    <3> QED BY <3>2 DEF Elements
  <2> QED BY <2>2, <2>3
<1> HIDE DEF m, n
<1>7. m = n \/ n \in Elements(Parents(m, first))
  BY <1>4, <1>5, <1>6
<1> QED BY <1>7 DEF m, n, c

\* R is nodes that are tracked, the root among them if it is, and what they need.
Needed(R, T, root, first) ==
  /\ R \subseteq T /\ (root \in T => root \in R)
  /\ \A n \in R : n[1] > 0 => Elements(Parents(n, first)) \cap T \subseteq R

\* The output's node is tracked and not needed where the taker is not.
LEMMA TakerDead ==
  ASSUME Stacked, NEW first, NEW last, Region(first, last), NEW leaves, Leaves(leaves, first),
         NEW root, NEW R, Needed(R, Tracked(first, last, leaves), root, first),
         NEW v, NEW u \in Uses(v, first .. last), NodeOf(v, first) \in Tracked(first, last, leaves),
         Taker(u) \notin R
  PROVE  /\ <<u[1], Role(calls[u[1]], u[2])>> \in Tracked(first, last, leaves) \ R
         /\ u[1] \in first .. last /\ u[2] \in calls[u[1]].outs /\ v[1] \in 0 .. (u[1] - 1) /\ u \in AnyUse
<1> DEFINE T == Tracked(first, last, leaves)
           K == first .. last
           m == <<u[1], Role(calls[u[1]], u[2])>>
           n == Taker(u)
           N == NodesOf(first, last)
<1>1. TrackedOn(T, N, leaves, first) /\ n \in T
  BY UseTracked
<1>2. /\ Called /\ DOMAIN calls = 1 .. Len(calls) /\ Len(calls) \in Nat
      /\ first \in Nat \ {0} /\ last \in first .. Len(calls) /\ K \in SUBSET DOMAIN calls
  <2>1. Called /\ DOMAIN calls = 1 .. Len(calls) /\ Len(calls) \in Nat
    BY UnitsAre
  <2>2. first \in Nat \ {0} /\ last \in first .. Len(calls)
    BY DEF Region
  <2> QED BY <2>1, <2>2
<1>3. /\ u = <<u[1], u[2], u[3]>> /\ u[1] \in K /\ u[2] \in calls[u[1]].outs /\ u[3] \in DOMAIN calls[u[1]].ins
      /\ v[1] \in 0 .. (u[1] - 1) /\ u \in AnyUse
  BY <1>2, UsesAre
<1>4. m = n \/ n \in Elements(Parents(m, first))
  <2>1. u[1] \in DOMAIN calls
    BY <1>2, <1>3
  <2>2. n = Taker(<<u[1], u[2], u[3]>>)
    BY <1>3
  <2> HIDE DEF n
  <2> QED BY <1>2, <1>3, <2>1, <2>2, OutputTaker
<1>5. m \in N /\ m[1] > 0
  <2>1. u[1] \in DOMAIN calls /\ u[1] >= first /\ last \in u[1] .. Len(calls) /\ u[1] > 0
    BY <1>2, <1>3
  <2> QED BY <1>2, <1>3, <2>1, ValueNode
<1> HIDE DEF T, m, n, N
<1>6. m \in T
  BY <1>1, <1>4, <1>5 DEF TrackedOn
<1>7. m \notin R
  <2>1. n \in T /\ n \notin R
    BY <1>1 DEF n
  <2>2. m \in R => Elements(Parents(m, first)) \cap T \subseteq R
    BY <1>5 DEF Needed, T
  <2> QED BY <1>4, <2>1, <2>2
<1> QED BY <1>3, <1>6, <1>7 DEF T, m, K

\* Nothing comes of a tracked value through what the root does not need.
LEMMA DeadIs ==
  ASSUME Stacked, NEW first, NEW last, Region(first, last), NEW leaves, Leaves(leaves, first), NEW R,
         Needed(R, Tracked(first, last, leaves), NodeOf(<<last, "out">>, first), first)
  PROVE  /\ \A k \in first .. last : \A o \in calls[k].outs :
              <<k, Role(calls[k], o)>> \in Tracked(first, last, leaves) \ R => DOMAIN Whole(<<k, o>>) = {}
         /\ \A v : NodeOf(v, first) \in Tracked(first, last, leaves) =>
              \A u \in Uses(v, first .. last) : Taker(u) \notin R => DOMAIN Flow(u) = {}
<1> DEFINE T == Tracked(first, last, leaves)
           K == first .. last
           root == NodeOf(<<last, "out">>, first)
           P(k) == \A o \in calls[k].outs : <<k, Role(calls[k], o)>> \in T \ R => DOMAIN Whole(<<k, o>>) = {}
           S == {j \in Nat : \A k \in K : last - k < j => P(k)}
<1>1. /\ Called /\ DOMAIN calls = 1 .. Len(calls) /\ Len(calls) \in Nat
      /\ first \in Nat \ {0} /\ last \in first .. Len(calls) /\ K \in SUBSET DOMAIN calls
      /\ Last(Units) = Len(calls)
  <2>1. Called /\ DOMAIN calls = 1 .. Len(calls) /\ Len(calls) \in Nat /\ Last(Units) = Len(calls)
    BY UnitsAre
  <2>2. first \in Nat \ {0} /\ last \in first .. Len(calls)
    BY DEF Region
  <2> QED BY <2>1, <2>2
<1>2. ASSUME NEW v, NodeOf(v, first) \in T, NEW u \in Uses(v, K), Taker(u) \notin R, P(u[1])
      PROVE  DOMAIN Flow(u) = {}
  <2>1. /\ <<u[1], Role(calls[u[1]], u[2])>> \in T \ R
        /\ u[1] \in K /\ u[2] \in calls[u[1]].outs /\ u \in AnyUse
    BY <1>2, TakerDead
  <2>2. DOMAIN Whole(<<u[1], u[2]>>) = {}
    BY <1>2, <2>1
  <2> QED BY <2>1, <2>2, EmptyFlow
<1> HIDE DEF T
<1>3. ASSUME NEW k \in K, \A m \in K : m > k => P(m) PROVE P(k)
  <2> SUFFICES ASSUME NEW o \in calls[k].outs, <<k, Role(calls[k], o)>> \in T \ R
               PROVE  DOMAIN Whole(<<k, o>>) = {}
    OBVIOUS
  <2> DEFINE v == <<k, o>>
  <2>1. NodeOf(v, first) = <<k, Role(calls[k], o)>> /\ k \in DOMAIN calls /\ v[1] = k
    <3>1. k \in DOMAIN calls /\ k >= first
      BY <1>1
    <3> QED BY <1>1, <3>1, ValueNode
  <2>2. v # <<last, "out">>
    <3>1. NodeOf(v, first) # root
      BY <2>1 DEF Needed, T
    <3> HIDE DEF v
    <3> QED BY <3>1
  <2>3. v # Out(Units)
    <3>1. Out(Units) = <<Len(calls), "out">>
      BY <1>1 DEF Out
    <3>2. k = Len(calls) => k = last
      <4>1. k \in first .. last
        OBVIOUS
      <4> HIDE DEF K, P, S
      <4>2. last \in Nat /\ Len(calls) \in Nat /\ last <= Len(calls) /\ k \in Nat /\ k <= last
        BY <1>1, <4>1
      <4> QED BY <4>2
    <3> QED BY <2>2, <3>1, <3>2
  <2>4. Uses(v, DOMAIN calls) = Uses(v, K)
    BY <2>2 DEF Region
  <2> HIDE DEF v
  <2>5. SumOver(Whole(v), Uses(v, K))
    BY <2>3, <2>4, WholeSum
  <2>6. \A u \in Uses(v, K) : DOMAIN Flow(u) = {}
    <3> SUFFICES ASSUME NEW u \in Uses(v, K) PROVE DOMAIN Flow(u) = {}
      OBVIOUS
    <3>1. NodeOf(v, first) \in T
      BY <2>1
    <3>2. u[1] \in K /\ v[1] \in 0 .. (u[1] - 1) /\ calls[u[1]].ins[u[3]] = v
      BY <1>1, UsesAre
    <3>3. P(u[1])
      <4>1. u[1] > k
        BY <1>1, <2>1, <3>2
      <4> QED BY <1>3, <3>2, <4>1
    <3>4. Taker(u) \notin R
      <4>1. NodeOf(v, first) \in Elements(Parents(Taker(u), first)) /\ Taker(u) \in NodesOf(first, last)
        BY <3>1, UseTracked DEF T
      <4>2. Taker(u)[1] > 0
        BY <1>1, <4>1 DEF NodesOf
      <4>3. NodeOf(v, first) \notin R
        BY <2>1
      <4> QED BY <3>1, <4>1, <4>2, <4>3 DEF Needed, T
    <3> HIDE DEF P, K
    <3> QED BY <1>2, <3>1, <3>3, <3>4
  <2>7. DOMAIN Whole(v) = {}
    BY <2>5, <2>6 DEF SumOver
  <2> QED BY <2>7 DEF v
<1> HIDE DEF P
<1>4. 0 \in S
  BY <1>1
<1>5. ASSUME NEW j \in Nat, j \in S PROVE j + 1 \in S
  <2> SUFFICES ASSUME NEW k \in K, last - k < j + 1 PROVE P(k)
    OBVIOUS
  <2>1. \A m \in K : m > k => last - m < j
    BY <1>1
  <2>2. \A m \in K : m > k => P(m)
    BY <1>5, <2>1
  <2> QED BY <1>3, <2>2
<1>6. \A k \in K : P(k)
  <2> SUFFICES ASSUME NEW k \in K PROVE P(k)
    OBVIOUS
  <2> DEFINE j == last - k + 1
  <2>1. j \in Nat /\ last - k < j
    BY <1>1
  <2> HIDE DEF j, S
  <2>2. j \in S
    BY <1>4, <1>5, <2>1, EveryNatural
  <2> QED BY <2>1, <2>2 DEF S
<1>7. \A v : NodeOf(v, first) \in T => \A u \in Uses(v, K) : Taker(u) \notin R => DOMAIN Flow(u) = {}
  <2> SUFFICES ASSUME NEW v, NodeOf(v, first) \in T, NEW u \in Uses(v, K), Taker(u) \notin R
               PROVE  DOMAIN Flow(u) = {}
    OBVIOUS
  <2>1. u[1] \in K
    BY <1>1, UsesAre
  <2> HIDE DEF K
  <2> QED BY <1>2, <1>6, <2>1
<1> QED BY <1>6, <1>7 DEF P, T, K

-----------------------------------------------------------------------------
(* What each node gives.                                                    *)

\* What goes through one use is the sum over it.
LEMMA FlowSum ==
  ASSUME Stacked, NEW u \in AnyUse
  PROVE  SumOver(Flow(u), {u})
<1>1. Bag(Flow(u))
  BY FlowIs
<1>2. UNION {DOMAIN Flow(x) : x \in {u}} = DOMAIN Flow(u)
  OBVIOUS
<1> QED BY <1>1, <1>2 DEF SumOver

\* An output's whole gradient gives an input what goes through its use.
LEMMA WholeGives ==
  ASSUME Stacked, NEW k, NEW o, NEW s, <<k, o, s>> \in AnyUse
  PROVE  SumOver(Through(Whole(<<k, o>>), k, o, s), {<<k, o, s>>})
<1> DEFINE u == <<k, o, s>>
<1>1. Flow(u) = Through(Whole(<<k, o>>), k, o, s)
  BY DEF Flow
<1>2. u \in AnyUse
  OBVIOUS
<1> HIDE DEF u
<1>3. SumOver(Flow(u), {u})
  BY <1>2, FlowSum
<1> QED BY <1>1, <1>3 DEF u

\* Both outputs' give what goes through either.
LEMMA BothGive ==
  ASSUME Stacked, NEW k, NEW s, <<k, "out", s>> \in AnyUse, <<k, "state", s>> \in AnyUse
  PROVE  SumOver(Through(Whole(<<k, "out">>), k, "out", s) (+) Through(Whole(<<k, "state">>), k, "state", s),
                 {<<k, o, s>> : o \in {"out", "state"}})
<1> DEFINE b == Through(Whole(<<k, "out">>), k, "out", s)
           c == Through(Whole(<<k, "state">>), k, "state", s)
           U == {<<k, "out", s>>}
           W == {<<k, "state", s>>}
<1>1. SumOver(b, U) /\ SumOver(c, W)
  BY WholeGives
<1>2. U \in SUBSET AnyUse /\ W \in SUBSET AnyUse /\ U \cap W = {}
  OBVIOUS
<1>3. U \cup W = {<<k, o, s>> : o \in {"out", "state"}}
  OBVIOUS
<1> HIDE DEF b, c, U, W
<1>4. SumOver(b (+) c, U \cup W)
  BY <1>1, <1>2, SumJoin
<1> QED BY <1>3, <1>4 DEF b, c

\* One bag alone adds up to itself.
LEMMA AddedOne ==
  ASSUME NEW b, Bag(b), NEW x
  PROVE  Added([s \in {x} |-> b]) = b
<1> DEFINE f == [s \in {x} |-> b]
<1>1. DOMAIN f = {x} /\ f[x] = b /\ \A s \in DOMAIN f : f[s] = b /\ s = x
  OBVIOUS
<1> HIDE DEF f
<1>2. IsFiniteSet(DOMAIN f) /\ \A s \in DOMAIN f : Bag(f[s])
  BY <1>1, FS_Singleton
<1>3. /\ Bag(Added(f)) /\ DOMAIN Added(f) = UNION {DOMAIN f[s] : s \in DOMAIN f}
      /\ \A s \in DOMAIN f : \A e \in DOMAIN f[s] :
           (\A t \in DOMAIN f : e \in DOMAIN f[t] => t = s) => Added(f)[e] = f[s][e]
  BY <1>2, AddedIs
<1>4. DOMAIN Added(f) = DOMAIN b
  BY <1>1, <1>3
<1>5. \A e \in DOMAIN b : Added(f)[e] = b[e]
  BY <1>1, <1>3
<1>6. Added(f) = [e \in DOMAIN Added(f) |-> Added(f)[e]] /\ b = [e \in DOMAIN b |-> b[e]]
  BY <1>3 DEF Bag
<1>7. Added(f) = b
  BY <1>4, <1>5, <1>6
<1> QED BY <1>7 DEF f

\* Of the two side by side, each half gives what goes through its use.
LEMMA HalfGives ==
  ASSUME Stacked, NEW k, NEW s, NEW o \in {"out", "state"}, <<k, o, s>> \in AnyUse,
         NEW b, Halves(b, k, {"out", "state"})
  PROVE  Through(PartOf(b, o), k, o, s) = Through(Whole(<<k, o>>), k, o, s)
<1> DEFINE W == Whole(<<k, o>>)
           c == PartOf(b, o)
           u == <<k, o, s>>
           O == {"out", "state"}
<1>1. Ways(W) /\ OfPart(W, "all")
  BY WholeIs, WholePlain
<1>2. /\ Bag(b)
      /\ \A e : e \in DOMAIN b <=> \E p \in O : \E w \in DOMAIN Whole(<<k, p>>) : e = Halved(w, p)
      /\ \A w \in DOMAIN W : b[Halved(w, o)] = W[w]
  BY DEF Halves
<1>3. c = [w \in {v \in DOMAIN b : v.part = o} |-> b[w]]
  BY DEF PartOf, BagToSet
<1>4. \A w, p : Halved(w, p).part = p /\ Halved(w, p).path = w.path
  BY DEF Halved
<1> HIDE DEF W, c
<1>5. \A e : e \in DOMAIN c <=> \E w \in DOMAIN W : e = Halved(w, o)
  <2>1. \A e : e \in DOMAIN c <=> e \in DOMAIN b /\ e.part = o
    BY <1>3
  <2>2. \A e : e \in DOMAIN c => \E w \in DOMAIN W : e = Halved(w, o)
    BY <1>2, <1>4, <2>1 DEF W
  <2>3. \A w \in DOMAIN W : Halved(w, o) \in DOMAIN c
    BY <1>2, <1>4, <2>1 DEF W
  <2> QED BY <2>2, <2>3
<1>6. \A w \in DOMAIN W : c[Halved(w, o)] = W[w]
  BY <1>2, <1>3, <1>5
<1>7. Ways(c) /\ OfPart(c, o)
  <2>1. DOMAIN c \subseteq DOMAIN b
    BY <1>3
  <2>2. IsFiniteSet(DOMAIN c)
    BY <1>2, <2>1, FS_Subset DEF Bag
  <2>3. c \in [DOMAIN c -> Nat \ {0}]
    BY <1>2, <1>3, <2>1 DEF Bag
  <2>4. \A w \in DOMAIN W : w.path \in Seq(AnyUse)
    BY <1>1 DEF Ways
  <2>5. \A e \in DOMAIN c : e.path \in Seq(AnyUse)
    BY <1>4, <1>5, <2>4
  <2>6. \A e \in DOMAIN c : e = [part |-> o, path |-> e.path]
    BY <1>5 DEF Halved
  <2> QED BY <2>2, <2>3, <2>5, <2>6 DEF Ways, OfPart, Bag
<1> DEFINE x == Through(c, k, o, s)
           y == Through(W, k, o, s)
<1>8. Carries(x, c, u) /\ Carries(y, W, u)
  BY <1>1, <1>7, ThroughExact
<1>9. \A w : Longer(Halved(w, o), u) = Longer(w, u)
  BY DEF Longer, Halved
<1> HIDE DEF x, y, u
<1>10. /\ \A e : e \in DOMAIN x <=> \E v \in DOMAIN c : e = Longer(v, u)
       /\ \A e : e \in DOMAIN y <=> \E w \in DOMAIN W : e = Longer(w, u)
       /\ \A v \in DOMAIN c : x[Longer(v, u)] = c[v]
       /\ \A w \in DOMAIN W : y[Longer(w, u)] = W[w]
       /\ Bag(x) /\ Bag(y)
  BY <1>8 DEF Carries
<1>11. DOMAIN x = DOMAIN y
  <2>1. \A e : e \in DOMAIN x => e \in DOMAIN y
    <3> SUFFICES ASSUME NEW e \in DOMAIN x PROVE e \in DOMAIN y
      OBVIOUS
    <3>1. PICK v \in DOMAIN c : e = Longer(v, u)
      BY <1>10
    <3>2. PICK w \in DOMAIN W : v = Halved(w, o)
      BY <1>5
    <3>3. e = Longer(w, u)
      BY <1>9, <3>1, <3>2
    <3> QED BY <1>10, <3>3
  <2>2. \A e : e \in DOMAIN y => e \in DOMAIN x
    BY <1>5, <1>9, <1>10
  <2> QED BY <2>1, <2>2
<1>12. \A e \in DOMAIN y : x[e] = y[e]
  <2> SUFFICES ASSUME NEW e \in DOMAIN y PROVE x[e] = y[e]
    OBVIOUS
  <2>1. PICK w \in DOMAIN W : e = Longer(w, u)
    BY <1>10
  <2>2. y[e] = W[w]
    BY <1>10, <2>1
  <2>3. Halved(w, o) \in DOMAIN c /\ e = Longer(Halved(w, o), u)
    BY <1>5, <1>9, <2>1
  <2>4. x[e] = c[Halved(w, o)]
    BY <1>10, <2>3
  <2> QED BY <1>6, <2>2, <2>4
<1>13. x = [e \in DOMAIN x |-> x[e]] /\ y = [e \in DOMAIN y |-> y[e]]
  BY <1>10 DEF Bag
<1>14. x = y
  BY <1>11, <1>12, <1>13
<1> QED BY <1>14 DEF x, y, c, W

\* One more output's gradient beside those there.
LEMMA HalfBeside ==
  ASSUME Stacked, NEW k, NEW O, NEW o, o \notin O, NEW b, Halves(b, k, O)
  PROVE  /\ Bag(InPart(Whole(<<k, o>>), o))
         /\ Halves(b (+) InPart(Whole(<<k, o>>), o), k, O \cup {o})
<1> DEFINE W == Whole(<<k, o>>)
           R == [w \in DOMAIN W |-> Halved(w, o)]
           c == InPart(W, o)
<1>1. Ways(W) /\ OfPart(W, "all")
  BY WholeIs, WholePlain
<1>2. c = Added([w \in DOMAIN W |-> Copies(R[w], W[w])])
  <2>1. [w \in DOMAIN W |-> Copies(R[w], W[w])]
          = [w \in DOMAIN W |-> Copies([part |-> o, path |-> w.path], W[w])]
    BY DEF Halved
  <2> QED BY <2>1 DEF InPart
<1>3. \A w, p : Halved(w, p).part = p /\ Halved(w, p).path = w.path
  BY DEF Halved
<1> HIDE DEF W
<1>4. \A v, w \in DOMAIN W : R[v] = R[w] => v = w
  <2> SUFFICES ASSUME NEW v \in DOMAIN W, NEW w \in DOMAIN W, R[v] = R[w] PROVE v = w
    OBVIOUS
  <2>1. v.path = w.path
    <3>1. Halved(v, o) = Halved(w, o)
      OBVIOUS
    <3> QED BY <1>3, <3>1
  <2> QED BY <1>1, <2>1 DEF OfPart
<1>5. \A w \in DOMAIN W : R[w] = Halved(w, o)
  OBVIOUS
<1> HIDE DEF R, c
<1>6. Bag(W)
  BY <1>1 DEF Ways
<1>7. LET e == Added([w \in DOMAIN W |-> Copies(R[w], W[w])]) IN
      /\ Bag(e) /\ DOMAIN e = {R[w] : w \in DOMAIN W}
      /\ \A w \in DOMAIN W : e[R[w]] = W[w]
  BY <1>4, <1>6, Renamed
<1>8. /\ Bag(c) /\ \A e : e \in DOMAIN c <=> \E w \in DOMAIN W : e = Halved(w, o)
      /\ \A w \in DOMAIN W : c[Halved(w, o)] = W[w]
  BY <1>2, <1>5, <1>7
<1>9. /\ Bag(b)
      /\ \A e : e \in DOMAIN b <=> \E p \in O : \E w \in DOMAIN Whole(<<k, p>>) : e = Halved(w, p)
      /\ \A p \in O : \A w \in DOMAIN Whole(<<k, p>>) : b[Halved(w, p)] = Whole(<<k, p>>)[w]
  <2>1. Bag(b)
    BY DEF Halves
  <2>2. DOMAIN b = UNION {{Halved(w, p) : w \in DOMAIN Whole(<<k, p>>)} : p \in O}
    BY DEF Halves
  <2>3. \A p \in O : \A w \in DOMAIN Whole(<<k, p>>) : b[Halved(w, p)] = Whole(<<k, p>>)[w]
    BY DEF Halves
  <2>4. \A e : e \in DOMAIN b <=> \E p \in O : \E w \in DOMAIN Whole(<<k, p>>) : e = Halved(w, p)
    <3> DEFINE H(p) == {Halved(w, p) : w \in DOMAIN Whole(<<k, p>>)}
    <3>1. \A e, p : e \in H(p) <=> \E w \in DOMAIN Whole(<<k, p>>) : e = Halved(w, p)
      OBVIOUS
    <3>2. DOMAIN b = UNION {H(p) : p \in O}
      BY <2>2
    <3> HIDE DEF H
    <3>3. \A e : e \in DOMAIN b <=> \E p \in O : e \in H(p)
      BY <3>2
    <3> QED BY ONLY <3>1, <3>3
  <2> QED BY <2>1, <2>3, <2>4
<1>10. DOMAIN b \cap DOMAIN c = {}
  <2> SUFFICES ASSUME NEW e \in DOMAIN b, e \in DOMAIN c PROVE FALSE
    OBVIOUS
  <2>1. e.part = o
    BY <1>3, <1>8
  <2>2. PICK p \in O : \E w \in DOMAIN Whole(<<k, p>>) : e = Halved(w, p)
    BY <1>9
  <2>3. e.part = p
    BY <1>3, <2>2
  <2> QED BY <2>1, <2>3
<1> DEFINE a == b (+) c
<1>11. /\ Bag(a) /\ DOMAIN a = DOMAIN b \cup DOMAIN c
       /\ \A e \in DOMAIN b \ DOMAIN c : a[e] = b[e]
       /\ \A e \in DOMAIN c \ DOMAIN b : a[e] = c[e]
  BY <1>8, <1>9, AddTwo
<1> HIDE DEF a
<1>12. \A e : e \in DOMAIN a <=> \E p \in O \cup {o} : \E w \in DOMAIN Whole(<<k, p>>) : e = Halved(w, p)
  BY <1>8, <1>9, <1>11 DEF W
<1>13. ASSUME NEW p \in O \cup {o}, NEW w \in DOMAIN Whole(<<k, p>>)
       PROVE  a[Halved(w, p)] = Whole(<<k, p>>)[w]
  <2>1. CASE p \in O
    <3>1. Halved(w, p) \in DOMAIN b \ DOMAIN c
      BY <1>9, <1>10, <2>1
    <3> QED BY <1>9, <1>11, <2>1, <3>1
  <2>2. CASE p = o
    <3>1. w \in DOMAIN W
      BY <2>2 DEF W
    <3>2. Halved(w, o) \in DOMAIN c \ DOMAIN b
      BY <1>8, <1>10, <3>1
    <3>3. a[Halved(w, o)] = W[w]
      BY <1>8, <1>11, <3>1, <3>2
    <3> QED BY <2>2, <3>3 DEF W
  <2> QED BY <2>1, <2>2
<1>14. DOMAIN a = UNION {{Halved(w, p) : w \in DOMAIN Whole(<<k, p>>)} : p \in O \cup {o}}
  BY <1>12
<1>15. Halves(a, k, O \cup {o})
  BY <1>11, <1>13, <1>14 DEF Halves
<1> QED BY <1>8, <1>15 DEF a, c, W

\* What a node or a leaf holds after a node has been consumed and has given.
LEMMA RegisterHeld ==
  ASSUME NEW g, NEW n, NEW given, NEW q, q # n, q \in DOMAIN given => Bag(given[q])
  PROVE  HeldIn(Register([m \in DOMAIN g \ {n} |-> g[m]], given), q)
           = IF q \in DOMAIN given THEN HeldIn(g, q) (+) given[q] ELSE HeldIn(g, q)
<1> DEFINE into == [m \in DOMAIN g \ {n} |-> g[m]]
           r == Register(into, given)
<1>1. DOMAIN into = DOMAIN g \ {n} /\ (q \in DOMAIN g => q \in DOMAIN into /\ into[q] = g[q])
  OBVIOUS
<1>2. q \notin DOMAIN g => q \notin DOMAIN into
  OBVIOUS
<1> HIDE DEF into
<1>3. /\ q \in DOMAIN r <=> q \in DOMAIN into \/ q \in DOMAIN given
      /\ q \in DOMAIN r => r[q] = IF q \notin DOMAIN given THEN into[q]
                                  ELSE IF q \notin DOMAIN into THEN given[q] ELSE into[q] (+) given[q]
  BY DEF Register
<1> HIDE DEF r
<1>4. CASE q \in DOMAIN given /\ q \notin DOMAIN g
  <2>1. EmptyBag (+) given[q] = given[q]
    BY <1>4, AddNone
  <2> QED BY <1>1, <1>2, <1>3, <1>4, <2>1 DEF HeldIn, r, into
<1>5. CASE q \in DOMAIN given /\ q \in DOMAIN g
  BY <1>1, <1>2, <1>3, <1>5 DEF HeldIn, r, into
<1>6. CASE q \notin DOMAIN given
  BY <1>1, <1>2, <1>3, <1>6 DEF HeldIn, r, into
<1> QED BY <1>4, <1>5, <1>6

\* What a pass through a region is of.
LEMMA PassIs ==
  ASSUME Stacked, NEW first, NEW last, Region(first, last), NEW leaves, Leaves(leaves, first)
  PROVE  /\ Called /\ DOMAIN calls = 1 .. Len(calls) /\ Len(calls) \in Nat
         /\ first \in Nat \ {0} /\ last \in first .. Len(calls) /\ first .. last \in SUBSET DOMAIN calls
         /\ TrackedOn(Tracked(first, last, leaves), NodesOf(first, last), leaves, first)
         /\ Input \in Tracked(first, last, leaves) => first > 1
         /\ \A n \in NodesOf(first, last) : /\ n[1] \in first .. last /\ n[1] > 0 /\ n[1] \in DOMAIN calls
                                            /\ n = <<n[1], n[2]>> /\ n[2] \in Roles(calls[n[1]])
                                            /\ n \in NodesOf(first, Len(calls))
<1>1. Called /\ DOMAIN calls = 1 .. Len(calls) /\ Len(calls) \in Nat
  BY UnitsAre
<1>2. first \in Nat \ {0} /\ last \in first .. Len(calls)
  BY DEF Region
<1>3. first .. last \in SUBSET DOMAIN calls
  BY <1>1, <1>2
<1>4. TrackedOn(Tracked(first, last, leaves), NodesOf(first, last), leaves, first)
  BY <1>1, <1>2, TrackedIs DEF Leaves
<1>5. \A n \in NodesOf(first, last) : /\ n[1] \in first .. last /\ n[1] > 0 /\ n[1] \in DOMAIN calls
                                      /\ n = <<n[1], n[2]>> /\ n[2] \in Roles(calls[n[1]])
                                      /\ n \in NodesOf(first, Len(calls))
  BY <1>1, <1>2 DEF NodesOf
<1>6. Input \in Tracked(first, last, leaves) => first > 1
  <2>1. Input[1] = 0
    BY DEF Input
  <2>2. Input \notin NodesOf(first, last)
    BY <1>5, <2>1
  <2> QED BY <1>4, <2>2 DEF TrackedOn, Leaves
<1> QED BY <1>1, <1>2, <1>3, <1>4, <1>5, <1>6

\* An input a node takes of its call, not the token of another node.
Real(n, s) == n[2] = "node" \/ (n[2] = "base" /\ s = "base")

\* All that one node gives a value: what goes through each use it takes it by.
LEMMA GivenSum ==
  ASSUME Stacked, NEW first, NEW last, Region(first, last), NEW leaves, Leaves(leaves, first),
         NEW n \in NodesOf(first, last), NEW g, DOMAIN g = DOMAIN Parents(n, first),
         \A s \in DOMAIN g : Real(n, s) => SumOver(g[s], {<<n[1], o, s>> : o \in calls[n[1]].outs}),
         NEW q \in Tracked(first, last, leaves), q \in NodesOf(first, last) \/ q[1] = 0, ~Inner(q)
  PROVE  /\ SumOver(Added([s \in {i \in DOMAIN Parents(n, first) : Parents(n, first)[i] = q} |-> g[s]]),
                    {u \in Uses(ValueOf(q, first), first .. last) : Taker(u) = n})
         /\ q \notin Elements(Parents(n, first)) =>
              {u \in Uses(ValueOf(q, first), first .. last) : Taker(u) = n} = {}
<1> DEFINE T == Tracked(first, last, leaves)
           K == first .. last
           P == Parents(n, first)
           k == n[1]
           v == ValueOf(q, first)
           X == {u \in Uses(v, K) : Taker(u) = n}
           D == {i \in DOMAIN P : P[i] = q}
           h == [s \in D |-> g[s]]
           U == [s \in D |-> {<<k, o, s>> : o \in calls[k].outs}]
<1>1. /\ Called /\ DOMAIN calls = 1 .. Len(calls) /\ Len(calls) \in Nat
      /\ first \in Nat \ {0} /\ last \in first .. Len(calls) /\ K \in SUBSET DOMAIN calls
      /\ TrackedOn(T, NodesOf(first, last), leaves, first)
      /\ Input \in T => first > 1
      /\ k \in K /\ k > 0 /\ k \in DOMAIN calls /\ n = <<k, n[2]>> /\ n[2] \in Roles(calls[k])
      /\ n \in NodesOf(first, Len(calls))
  <2> HIDE DEF K
  <2> QED BY PassIs DEF K
<1>2. q = Input => first > 1
  BY <1>1
<1>3. /\ calls[k].outs \subseteq {"out", "state"} /\ IsFiniteSet(DOMAIN calls[k].ins)
      /\ n[2] # "node" => HasBase(calls[k]) \/ Shares(calls[k]) \/ Packs(calls[k])
  <2> DEFINE c == calls[k]
  <2> HIDE DEF c
  <2>1. c.outs \in {{"out"}, {"out", "state"}} /\ IsFiniteSet(DOMAIN c.ins)
    BY <1>1, CallIs DEF c
  <2>2. ~HasBase(c) /\ ~Shares(c) /\ ~Packs(c) => Roles(c) = {"node"}
    BY DEF Roles
  <2> QED BY <1>1, <2>1, <2>2 DEF c
<1>4. ASSUME NEW s \in D
      PROVE  /\ s \in DOMAIN calls[k].ins /\ Real(n, s) /\ calls[k].ins[s] = v
             /\ \A o : Taker(<<k, o, s>>) = n
  <2>1. s \in DOMAIN P /\ P[s] = q
    OBVIOUS
  <2> HIDE DEF P, D
  <2>2. ~(n[2] # "node" /\ s = "token" /\ P[s] = <<k, "node">>)
    <3> SUFFICES ASSUME n[2] # "node", q = <<k, "node">> PROVE FALSE
      BY <2>1
    <3> QED BY <1>1, <1>3 DEF Inner
  <2>3. /\ s \in DOMAIN calls[k].ins /\ (n[2] = "node" \/ (n[2] = "base" /\ s = "base"))
        /\ P[s] = NodeOf(calls[k].ins[s], first)
        /\ \A o : Taker(<<k, o, s>>) = n
    BY <1>1, <2>1, <2>2, ParentTakes DEF P
  <2>4. calls[k].ins[s] = v
    BY <1>1, <1>2, <2>1, <2>3, InputNode DEF K
  <2> QED BY <2>3, <2>4 DEF Real
<1>5. \A s \in D : {<<k, o, s>> : o \in calls[k].outs} \subseteq Uses(v, K)
  <2> SUFFICES ASSUME NEW s \in D, NEW o \in calls[k].outs PROVE <<k, o, s>> \in Uses(v, K)
    OBVIOUS
  <2> DEFINE u == <<k, o, s>>
  <2>1. /\ u = <<u[1], u[2], u[3]>> /\ u[1] \in K /\ u[2] \in calls[u[1]].outs
        /\ u[3] \in DOMAIN calls[u[1]].ins /\ calls[u[1]].ins[u[3]] = v
    BY <1>1, <1>4
  <2> HIDE DEF u, v, K
  <2>2. u \in Uses(v, K)
    BY <1>1, <2>1, UsesAre
  <2> QED BY <2>2 DEF u
<1>6. /\ Uses(v, K) \subseteq AnyUse
      /\ \A u \in Uses(v, K) : /\ u = <<u[1], u[2], u[3]>>
                               /\ u[1] \in K /\ u[2] \in calls[u[1]].outs
  <2> HIDE DEF v, K
  <2> QED BY <1>1, UsesAre
<1>7. ASSUME NEW u \in X
      PROVE  u[3] \in D /\ u = <<k, u[2], u[3]>> /\ u[2] \in calls[k].outs /\ q \in Elements(P)
  <2>1. NodeOf(v, first) = q
    <3>1. u[1] \in K /\ u[3] \in DOMAIN calls[u[1]].ins /\ calls[u[1]].ins[u[3]] = v
      <4> HIDE DEF v, K
      <4> QED BY <1>1, UsesAre
    <3> QED BY <1>1, <1>2, <3>1, InputNode DEF K
  <2>2. /\ u[3] \in DOMAIN Parents(Taker(u), first) /\ Parents(Taker(u), first)[u[3]] = NodeOf(v, first)
        /\ NodeOf(v, first) \in Elements(Parents(Taker(u), first))
    <3> HIDE DEF v
    <3> QED BY <2>1, UseTracked DEF T, K
  <2>3. Taker(u) = n /\ Taker(u)[1] = u[1]
    BY DEF Taker
  <2> QED BY <1>6, <2>1, <2>2, <2>3
<1>8. X = UNION {U[s] : s \in D}
  <2>1. ASSUME NEW u \in X PROVE \E s \in D : u \in U[s]
    <3>1. u[3] \in D /\ u = <<k, u[2], u[3]>> /\ u[2] \in calls[k].outs
      BY <1>7
    <3>2. u \in U[u[3]]
      BY <3>1
    <3> QED BY <3>1, <3>2
  <2>2. ASSUME NEW s \in D, NEW u \in U[s] PROVE u \in X
    <3>1. PICK o \in calls[k].outs : u = <<k, o, s>>
      OBVIOUS
    <3>2. Taker(<<k, o, s>>) = n
      BY <1>4
    <3> QED BY <1>5, <3>1, <3>2
  <2> HIDE DEF X, U, D
  <2> QED BY <2>1, <2>2
<1>9. IsFiniteSet(DOMAIN h)
  <2>1. D \subseteq DOMAIN calls[k].ins
    BY <1>4
  <2>2. IsFiniteSet(D)
    BY <1>3, <2>1, FS_Subset
  <2> QED BY <2>2
<1>10. \A s \in DOMAIN h : U[s] \subseteq AnyUse /\ SumOver(h[s], U[s])
  <2> SUFFICES ASSUME NEW s \in D PROVE U[s] \subseteq AnyUse /\ SumOver(h[s], U[s])
    OBVIOUS
  <2>1. U[s] = {<<k, o, s>> : o \in calls[k].outs} /\ h[s] = g[s] /\ s \in DOMAIN g
    OBVIOUS
  <2>2. Real(n, s)
    BY <1>4
  <2>3. SumOver(g[s], {<<k, o, s>> : o \in calls[k].outs})
    BY <2>1, <2>2
  <2>4. U[s] \subseteq Uses(v, K)
    BY <1>5, <2>1
  <2> HIDE DEF U, h, v, K
  <2> QED BY <1>6, <2>1, <2>3, <2>4
<1>11. \A s, t \in DOMAIN h : s # t => U[s] \cap U[t] = {}
  OBVIOUS
<1>12. DOMAIN h = D
  OBVIOUS
<1> HIDE DEF h, U, D, X
<1>13. SumOver(Added(h), UNION {U[s] : s \in DOMAIN h})
  BY <1>9, <1>10, <1>11, SumAll
<1>14. SumOver(Added(h), X)
  BY <1>8, <1>12, <1>13
<1>15. q \notin Elements(P) => X = {}
  BY <1>7
<1> QED BY <1>14, <1>15 DEF h, D, X

-----------------------------------------------------------------------------
(* A pass, from its start to its last node.                                *)

\* No node takes the root.
LEMMA RootTop ==
  ASSUME Called, NEW first \in Nat \ {0}, NEW last \in first .. Len(calls), NEW n \in NodesOf(first, last)
  PROVE  NodeOf(<<last, "out">>, first) \notin Elements(Parents(n, first))
<1> DEFINE root == NodeOf(<<last, "out">>, first)
<1>1. root = <<last, Role(calls[last], "out")>>
  BY RootNode
<1>2. /\ n \in NodesOf(first, Len(calls)) /\ n[1] \in first .. last /\ n[2] \in Roles(calls[n[1]])
      /\ last \in DOMAIN calls /\ last \in Nat
  BY DEF NodesOf, Called
<1>3. "out" \in calls[last].outs
  BY <1>2, CallIs
<1>4. Role(calls[last], "out") = "node" => Roles(calls[last]) = {"node"}
  BY <1>2, <1>3 DEF Role, Roles
<1> SUFFICES ASSUME root \in Elements(Parents(n, first)) PROVE FALSE
  OBVIOUS
<1> HIDE DEF root
<1>5. Rank(root) < Rank(n)
  BY <1>2, ParentsBefore
<1>6. /\ root[1] = last /\ n[1] \in Nat /\ n[1] <= last
      /\ n[1] = last /\ root[2] = "node" => n[2] = "node"
  BY <1>1, <1>2, <1>4
<1> QED BY <1>2, <1>5, <1>6 DEF Rank

\* A pass starts with nothing given that would have to be.
LEMMA RecordOwes ==
  ASSUME Stacked, NEW first, NEW last, Region(first, last), NEW leaves, Leaves(leaves, first),
         NEW tracked, tracked = Tracked(first, last, leaves),
         NEW root, root = NodeOf(<<last, "out">>, first)
  PROVE  Owes(first, last, tracked, {m \in Reached(root, first, tracked) : m[1] > 0},
              [n \in {root} |-> Whole(<<last, "out">>)], [k \in DOMAIN calls |-> Nothing])
<1> DEFINE K == first .. last
           N == NodesOf(first, last)
           R == Reached(root, first, tracked)
           T == {m \in R : m[1] > 0}
           g == [n \in {root} |-> Whole(<<last, "out">>)]
           c == [k \in DOMAIN calls |-> Nothing]
<1>1. /\ Called /\ DOMAIN calls = 1 .. Len(calls) /\ Len(calls) \in Nat
      /\ first \in Nat \ {0} /\ last \in first .. Len(calls) /\ K \in SUBSET DOMAIN calls
      /\ TrackedOn(tracked, N, leaves, first)
      /\ Input \in tracked => first > 1
      /\ \A n \in N : /\ n[1] \in K /\ n[1] > 0 /\ n[1] \in DOMAIN calls
                      /\ n = <<n[1], n[2]>> /\ n[2] \in Roles(calls[n[1]])
                      /\ n \in NodesOf(first, Len(calls))
  BY PassIs
<1>2. root \in N /\ root[1] = last
  BY <1>1, RootNode
<1>3. Spans(R, root, first, tracked) /\ (root \in tracked => root \in R)
  BY <1>1, <1>2, ReachedIs
<1>4. Needed(R, tracked, root, first)
  BY <1>3 DEF Spans, Needed
<1> HIDE DEF R
<1>5. /\ \A k \in K : \A o \in calls[k].outs :
           <<k, Role(calls[k], o)>> \in tracked \ R => DOMAIN Whole(<<k, o>>) = {}
      /\ \A v : NodeOf(v, first) \in tracked =>
           \A u \in Uses(v, K) : Taker(u) \notin R => DOMAIN Flow(u) = {}
  <2> HIDE DEF K
  <2> QED BY <1>4, DeadIs DEF K
<1>6. T \subseteq N \cap tracked
  BY <1>2, <1>3 DEF Spans
<1>7. \A n : n # root => HeldIn(g, n) = EmptyBag
  BY DEF HeldIn
<1>8. HeldIn(g, root) = Whole(<<last, "out">>)
  BY DEF HeldIn
<1> HIDE DEF g
<1>9. ASSUME NEW k \in K, <<k, "node">> \in T, Shares(calls[k]) \/ Packs(calls[k]), NEW o \in calls[k].outs,
             <<k, o>> \notin T
      PROVE  DOMAIN Whole(<<k, o>>) = {}
  <2> DEFINE m == <<k, o>>
  <2>1. k \in DOMAIN calls
    BY <1>1
  <2>2. o \in {"out", "state"} /\ ~HasBase(calls[k]) /\ Roles(calls[k]) = {"node", "out", "state"}
    BY <1>1, <1>9, <2>1, CallIs
  <2>3. Role(calls[k], o) = o
    BY <1>9, <2>2 DEF Role
  <2>4. m \in N
    BY <2>2 DEF NodesOf
  <2>5. <<k, "node">> \in Elements(Parents(m, first))
    <3>1. m[1] = k /\ m[2] # "node" /\ m[2] # "base"
      BY <2>2
    <3> HIDE DEF m
    <3>2. Parents(m, first) = [i \in {"token"} |-> <<k, "node">>]
      BY <3>1 DEF Parents
    <3>3. "token" \in DOMAIN Parents(m, first) /\ Parents(m, first)["token"] = <<k, "node">>
      BY <3>2
    <3> QED BY <3>3 DEF Elements
  <2>6. m \in tracked
    <3>1. <<k, "node">> \in tracked
      BY <1>6, <1>9
    <3> HIDE DEF m, N
    <3> QED BY <1>1, <2>4, <2>5, <3>1 DEF TrackedOn
  <2>7. m \notin R
    <3>1. m[1] > 0
      BY <1>1, <2>4
    <3> QED BY <1>9, <3>1
  <2>8. <<k, Role(calls[k], o)>> = m
    BY <2>3
  <2> QED BY <1>5, <2>6, <2>7, <2>8
<1>10. ASSUME NEW n \in T \cup {m \in tracked : m[1] = 0} PROVE OwedTo(n, first, last, T, g)
  <2>1. CASE n = root
    BY <1>8, <2>1 DEF OwedTo
  <2>2. CASE n # root /\ ~Inner(n)
    <3> DEFINE v == ValueOf(n, first)
               X == {u \in Uses(v, K) : Taker(u) \notin T}
    <3>1. \A u \in X : DOMAIN Flow(u) = {}
      <4> SUFFICES ASSUME NEW u \in Uses(v, K), Taker(u) \notin T PROVE DOMAIN Flow(u) = {}
        OBVIOUS
      <4>1. n \in tracked /\ (n \in N \/ n[1] = 0)
        BY <1>6
      <4>2. u[1] \in K /\ u[3] \in DOMAIN calls[u[1]].ins /\ calls[u[1]].ins[u[3]] = v
        <5> HIDE DEF v, K
        <5> QED BY <1>1, UsesAre
      <4>3. NodeOf(v, first) = n
        BY <1>1, <2>2, <4>1, <4>2, InputNode
      <4> HIDE DEF v
      <4>4. Taker(u) \in N
        BY <4>1, <4>3, UseTracked
      <4>5. Taker(u) \notin R
        BY <1>1, <4>4
      <4> QED BY <1>5, <4>1, <4>3, <4>5
    <3> HIDE DEF X
    <3>2. SumOver(EmptyBag, X)
      BY <3>1, SumNone
    <3> QED BY <1>7, <2>2, <3>2 DEF OwedTo, X
  <2>3. CASE n # root /\ Inner(n)
    <3>1. n \in T
      BY <2>3 DEF Inner
    <3>2. n = <<n[1], "node">> /\ n[1] \in K
      BY <1>1, <1>6, <2>3, <3>1 DEF Inner
    <3>3. CASE Packs(calls[n[1]])
      <4> DEFINE k == n[1]
                 O == {o \in calls[k].outs : <<k, o>> \notin T}
      <4>1. \A o \in O : DOMAIN Whole(<<k, o>>) = {}
        BY <1>9, <3>1, <3>2, <3>3
      <4>2. Bag(EmptyBag) /\ DOMAIN EmptyBag = {}
        BY NoneIsBag
      <4> HIDE DEF O
      <4>3. {} = UNION {{Halved(w, o) : w \in DOMAIN Whole(<<k, o>>)} : o \in O}
        BY <4>1
      <4>4. Halves(EmptyBag, k, O)
        BY <4>1, <4>2, <4>3 DEF Halves
      <4> QED BY <1>7, <2>3, <3>3, <4>4 DEF OwedTo, O
    <3>4. CASE ~Packs(calls[n[1]])
      BY <1>7, <2>3, <3>4 DEF OwedTo
    <3> QED BY <3>3, <3>4
  <2> QED BY <2>1, <2>2, <2>3
<1>11. ASSUME NEW k \in K, <<k, "node">> \in T PROVE LeftFor(k, T, c)
  <2>1. k \in DOMAIN calls
    BY <1>1
  <2>2. c[k] = Nothing /\ DOMAIN Nothing = {}
    BY <2>1 DEF Nothing
  <2>3. DOMAIN c[k] = {}
    BY <2>2
  <2> HIDE DEF c, T
  <2>4. Shares(calls[k]) => \A o \in calls[k].outs : <<k, o>> \in T \/ DOMAIN Whole(<<k, o>>) = {}
    BY <1>9, <1>11
  <2> QED BY <2>3, <2>4 DEF LeftFor
<1> HIDE DEF c, N
<1>12. Owes(first, last, tracked, T, g, c)
  BY <1>6, <1>10, <1>11 DEF Owes, N
<1> QED BY <1>12 DEF g, c, R

\* What a node may count on when it runs.
Ready(n) ==
  LET k == n[1]
      c == calls[k] IN
  /\ \A o \in c.outs : n = <<k, Role(c, o)>> => grads[n] = Whole(<<k, o>>)
  /\ n[2] = "node" /\ HasBase(c) /\ "out" \in DOMAIN cells[k] => cells[k].out = Whole(<<k, "out">>)
  /\ n[2] = "node" /\ Shares(c) => \A o \in c.outs :
       (IF o \in DOMAIN cells[k] THEN cells[k][o] ELSE EmptyBag) = Whole(<<k, o>>)
  /\ n[2] = "node" /\ Packs(c) => Halves(grads[n], k, c.outs)

\* The highest node left has been given all it is owed.
LEMMA HighestReady ==
  ASSUME Stacked, NEW first, NEW last, Region(first, last), NEW leaves, Leaves(leaves, first),
         NEW tracked, tracked = Tracked(first, last, leaves),
         span.first = first, span.tracked = tracked, Left,
         Owes(first, last, tracked, DOMAIN tape, grads, cells),
         NEW n \in DOMAIN tape, Highest(n), n \in DOMAIN grads
  PROVE  Ready(n)
<1> DEFINE K == first .. last
           N == NodesOf(first, last)
           T == DOMAIN tape
           k == n[1]
           c == calls[k]
<1>1. /\ Called /\ DOMAIN calls = 1 .. Len(calls) /\ Len(calls) \in Nat
      /\ first \in Nat \ {0} /\ last \in first .. Len(calls) /\ K \in SUBSET DOMAIN calls
      /\ \A m \in N : /\ m[1] \in K /\ m[1] > 0 /\ m[1] \in DOMAIN calls
                      /\ m = <<m[1], m[2]>> /\ m[2] \in Roles(calls[m[1]])
                      /\ m \in NodesOf(first, Len(calls))
  BY PassIs
<1>2. /\ T \subseteq N \cap tracked /\ OwedTo(n, first, last, T, grads)
      /\ <<k, "node">> \in T => LeftFor(k, T, cells)
  BY <1>1 DEF Owes
<1>3. n \in N /\ n \in tracked /\ k \in K /\ k \in DOMAIN calls /\ n = <<k, n[2]>> /\ k > 0
  BY <1>1, <1>2
<1>4. \A m \in T : n \notin Elements(Parents(m, first))
  <2> SUFFICES ASSUME NEW m \in T, n \in Elements(Parents(m, first)) PROVE FALSE
    OBVIOUS
  <2>1. tape[n] < tape[m] /\ tape[m] \in Nat /\ tape[n] \in Nat
    BY <1>3 DEF Left
  <2>2. tape[m] <= tape[n]
    BY DEF Highest
  <2> QED BY <2>1, <2>2
<1>5. HeldIn(grads, n) = grads[n]
  BY DEF HeldIn
<1> HIDE DEF T
<1>6. ASSUME NEW o \in c.outs, n = <<k, Role(c, o)>> PROVE grads[n] = Whole(<<k, o>>)
  <2> DEFINE v == <<k, o>>
             root == NodeOf(<<last, "out">>, first)
  <2>1. NodeOf(v, first) = n /\ ~Inner(n) /\ ValueOf(n, first) = v
    <3>1. k >= first
      BY <1>1, <1>3
    <3>2. o \in calls[k].outs /\ n = <<k, Role(calls[k], o)>>
      BY <1>6
    <3>3. first \in Nat \ {0} /\ Called /\ k \in DOMAIN calls
      BY <1>1, <1>3
    <3> HIDE DEF k, c, K, N, root
    <3>4. /\ NodeOf(<<k, o>>, first) = <<k, Role(calls[k], o)>> /\ ~Inner(<<k, Role(calls[k], o)>>)
          /\ ValueOf(<<k, Role(calls[k], o)>>, first) = <<k, o>>
      BY ONLY <3>1, <3>2, <3>3, ValueNode
    <3> QED BY <3>2, <3>4
  <2>2. CASE n = root
    <3>1. grads[n] = Whole(<<last, "out">>)
      BY <1>2, <1>5, <2>2 DEF OwedTo
    <3>2. k = last /\ ValueOf(n, first) = <<last, "out">>
      <4>1. root[1] = last
        BY <1>1, RootNode
      <4>2. last \in DOMAIN calls /\ last >= first /\ "out" \in calls[last].outs
        <5>1. last \in DOMAIN calls /\ last >= first
          BY <1>1
        <5> QED BY <1>1, <5>1, CallIs
      <4>3. /\ NodeOf(<<last, "out">>, first) = <<last, Role(calls[last], "out")>>
            /\ ValueOf(<<last, Role(calls[last], "out")>>, first) = <<last, "out">>
        <5>1. first \in Nat \ {0} /\ Called
          BY <1>1
        <5> QED BY ONLY <4>2, <5>1, ValueNode
      <4> QED BY <2>2, <4>1, <4>3
    <3> QED BY <2>1, <3>1, <3>2
  <2>3. CASE n # root
    <3> DEFINE X == {u \in Uses(v, K) : Taker(u) \notin T}
    <3>1. SumOver(grads[n], X)
      BY <1>2, <1>5, <2>1, <2>3 DEF OwedTo
    <3>2. v # <<last, "out">>
      BY <2>1, <2>3
    <3>3. Uses(v, DOMAIN calls) = Uses(v, K)
      BY <1>3, <3>2 DEF Region
    <3>4. v # Out(Units)
      <4>1. Out(Units) = <<Len(calls), "out">>
        BY UnitsAre DEF Out
      <4>2. last \in Nat /\ k \in Nat /\ k <= last /\ last <= Len(calls)
        BY <1>1, <1>3
      <4>3. k = Len(calls) => k = last
        BY <1>1, <4>2
      <4> QED BY <3>2, <4>1, <4>3
    <3> HIDE DEF v
    <3>5. SumOver(Whole(v), Uses(v, K))
      BY <3>3, <3>4, WholeSum
    <3>6. X = Uses(v, K)
      <4> SUFFICES ASSUME NEW u \in Uses(v, K) PROVE Taker(u) \notin T
        OBVIOUS
      <4>1. NodeOf(v, first) \in Elements(Parents(Taker(u), first))
        BY <1>3, <2>1, UseTracked
      <4> QED BY <1>4, <2>1, <4>1
    <3> HIDE DEF X
    <3>7. SumOver(grads[n], Uses(v, K))
      BY <3>1, <3>6
    <3>8. grads[n] = Whole(v)
      BY <3>5, <3>7, SumUnique
    <3> QED BY <3>8 DEF v
  <2> QED BY <2>2, <2>3
<1>7. ASSUME n[2] = "node", Shares(c) \/ Packs(c), NEW o \in c.outs PROVE <<k, o>> \notin T
  <2> DEFINE m == <<k, o>>
  <2>1. o \in {"out", "state"}
    BY <1>1, <1>3, CallIs
  <2>2. m[1] = k /\ m[2] # "node" /\ m[2] # "base"
    BY <2>1
  <2> HIDE DEF m
  <2>3. Parents(m, first) = [i \in {"token"} |-> <<k, "node">>]
    BY <2>2 DEF Parents
  <2>4. "token" \in DOMAIN Parents(m, first) /\ Parents(m, first)["token"] = n
    BY <1>3, <1>7, <2>3
  <2>5. n \in Elements(Parents(m, first))
    BY <2>4 DEF Elements
  <2> QED BY <1>4, <2>5 DEF m
<1>8. n[2] = "node" => LeftFor(k, T, cells)
  BY <1>2, <1>3 DEF T
<1> HIDE DEF c
<1>9. n[2] = "node" /\ HasBase(c) /\ "out" \in DOMAIN cells[k] => cells[k].out = Whole(<<k, "out">>)
  BY <1>8 DEF LeftFor, c
<1>10. ASSUME n[2] = "node", Shares(c), NEW o \in c.outs
       PROVE  (IF o \in DOMAIN cells[k] THEN cells[k][o] ELSE EmptyBag) = Whole(<<k, o>>)
  <2>1. IF o \in DOMAIN cells[k] THEN cells[k][o] = Whole(<<k, o>>)
        ELSE <<k, o>> \in T \/ DOMAIN Whole(<<k, o>>) = {}
    BY <1>8, <1>10 DEF LeftFor, c
  <2>2. <<k, o>> \notin T
    BY <1>7, <1>10
  <2>3. CASE o \in DOMAIN cells[k]
    BY <2>1, <2>3
  <2>4. CASE DOMAIN Whole(<<k, o>>) = {} /\ o \notin DOMAIN cells[k]
    <3>1. Bag(Whole(<<k, o>>)) /\ Bag(EmptyBag) /\ DOMAIN EmptyBag = {}
      BY WholeIs, NoneIsBag DEF Ways
    <3> DEFINE b == Whole(<<k, o>>)
    <3>2. b = [e \in DOMAIN b |-> b[e]] /\ EmptyBag = [e \in DOMAIN EmptyBag |-> EmptyBag[e]] /\ DOMAIN b = {}
      BY <2>4, <3>1 DEF Bag
    <3> HIDE DEF b
    <3>3. b = EmptyBag
      BY <3>1, <3>2
    <3> QED BY <2>4, <3>3 DEF b
  <2> QED BY <2>1, <2>2, <2>3, <2>4
<1>11. ASSUME n[2] = "node", Packs(c) PROVE Halves(grads[n], k, c.outs)
  <2>1. Inner(n)
    BY <1>3, <1>11 DEF Inner, c
  <2>2. n # NodeOf(<<last, "out">>, first)
    <3>1. NodeOf(<<last, "out">>, first) = <<last, Role(calls[last], "out")>>
      BY <1>1, RootNode
    <3>2. last \in DOMAIN calls /\ last >= first
      BY <1>1
    <3>3. "out" \in calls[last].outs
      BY <1>1, <3>2, CallIs
    <3>4. ~Inner(<<last, Role(calls[last], "out")>>)
      BY <1>1, <3>2, <3>3, ValueNode
    <3> QED BY <2>1, <3>1, <3>4
  <2>3. {o \in calls[k].outs : <<k, o>> \notin T} = c.outs
    BY <1>7, <1>11 DEF c
  <2>4. Packs(calls[n[1]])
    BY <1>11 DEF c
  <2>5. Halves(grads[n], k, {o \in calls[k].outs : <<k, o>> \notin T})
    BY <1>2, <1>5, <2>1, <2>2, <2>4 DEF OwedTo
  <2> QED BY <2>3, <2>5
<1>12. \A o \in c.outs : n = <<k, Role(c, o)>> => grads[n] = Whole(<<k, o>>)
  BY <1>6 DEF c
<1>13. n[2] = "node" /\ Shares(c) => \A o \in c.outs :
         (IF o \in DOMAIN cells[k] THEN cells[k][o] ELSE EmptyBag) = Whole(<<k, o>>)
  BY <1>10
<1> QED BY <1>9, <1>11, <1>12, <1>13 DEF Ready, c

\* What a node gives its parents, g[s] to the one at input s.
GivenBy(n, g) ==
  [p \in Elements(Parents(n, span.first)) \cap span.tracked |->
     Added([s \in {i \in DOMAIN Parents(n, span.first) : Parents(n, span.first)[i] = p} |-> g[s]])]

\* g is what goes through each use, and for a token nothing, or one half.
Gives(n, g) ==
  /\ DOMAIN g = DOMAIN Parents(n, span.first)
  /\ grads' = Register([m \in DOMAIN grads \ {n} |-> grads[m]], GivenBy(n, g))
  /\ \A s \in DOMAIN g :
       IF Real(n, s) THEN SumOver(g[s], {<<n[1], o, s>> : o \in calls[n[1]].outs})
       ELSE g[s] = IF Packs(calls[n[1]]) THEN InPart(Whole(<<n[1], n[2]>>), n[2]) ELSE EmptyBag

\* What a node leaves beside the tape.
Leaving(n) ==
  /\ \A j \in DOMAIN calls : j # n[1] => cells'[j] = cells[j]
  /\ n[2] = "base" /\ <<n[1], "node">> \in span.tracked => cells'[n[1]] = [out |-> Whole(<<n[1], "out">>)]
  /\ n[2] # "node" /\ Shares(calls[n[1]]) => cells'[n[1]] = With(cells[n[1]], n[2], Whole(<<n[1], n[2]>>))

\* A node's inputs are of its call.
LEMMA RealUse ==
  ASSUME Called, NEW first \in Nat \ {0}, NEW n \in NodesOf(first, Len(calls)),
         NEW s \in DOMAIN Parents(n, first), Real(n, s), NEW o \in calls[n[1]].outs
  PROVE  <<n[1], o, s>> \in AnyUse
<1> DEFINE k == n[1]
           C == calls
<1>1. k \in DOMAIN C
  BY DEF NodesOf, Called
<1>2. o \in {"out", "state"}
  BY <1>1, CallIs
<1>3. ~(n[2] # "node" /\ s = "token")
  BY DEF Real
<1>4. s \in DOMAIN C[k].ins
  BY <1>3, ParentTakes
<1> QED BY <1>1, <1>2, <1>4 DEF AnyUse

\* A node whose output is the call's gives what goes through its uses.
LEMMA PlainNodeGives ==
  ASSUME Stacked, NEW n \in NodesOf(span.first, Len(calls)), span.first \in Nat \ {0},
         DOMAIN cells = DOMAIN calls, Ready(n), PlainNode(n)
  PROVE  (\E g : Gives(n, g)) /\ Leaving(n)
<1> DEFINE k == n[1]
           P == Parents(n, span.first)
           X(s) == Through(grads[n], k, "out", s)
           g == [s \in DOMAIN P |-> X(s)]
           A == Elements(P) \cap span.tracked
           D(p) == {i \in DOMAIN P : P[i] = p}
<1>1. Called /\ k \in DOMAIN calls /\ n = <<k, n[2]>> /\ n[2] \in Roles(calls[k])
  <2>1. Called
    BY UnitsAre
  <2> QED BY <2>1 DEF NodesOf, Called
<1>2. calls[k].outs = {"out"} /\ n[2] = "node" /\ grads[n] = Whole(<<k, "out">>) /\ ~Shares(calls[k])
  <2>1. n[2] = "node" /\ ~HasBase(calls[k]) /\ ~Shares(calls[k]) /\ ~Packs(calls[k])
    BY DEF PlainNode
  <2>2. calls[k].outs = {"out"} /\ Role(calls[k], "out") = "node"
    BY <1>1, <2>1, CallIs DEF Role
  <2>3. n = <<k, Role(calls[k], "out")>>
    BY <1>1, <2>1, <2>2
  <2>4. \A o \in calls[k].outs : n = <<k, Role(calls[k], o)>> => grads[n] = Whole(<<k, o>>)
    BY DEF Ready
  <2> QED BY <2>1, <2>2, <2>3, <2>4
<1>3. grads' = Register([m \in DOMAIN grads \ {n} |-> grads[m]], [p \in A |-> Added([s \in D(p) |-> X(s)])])
  BY DEF PlainNode, Consume, Given
<1>4. \A p : [s \in D(p) |-> X(s)] = [s \in D(p) |-> g[s]]
  <2> HIDE DEF X, P
  <2> QED OBVIOUS
<1>5. GivenBy(n, g) = [p \in A |-> Added([s \in D(p) |-> X(s)])]
  <2> HIDE DEF X, g
  <2> QED BY <1>4 DEF GivenBy
<1>6. \A s \in DOMAIN P : Real(n, s) => \A o \in calls[k].outs : <<k, o, s>> \in AnyUse
  <2> HIDE DEF P, k
  <2> QED BY <1>1, RealUse DEF P, k
<1>7. \A s \in DOMAIN P :
        IF Real(n, s) THEN SumOver(X(s), {<<n[1], o, s>> : o \in calls[n[1]].outs})
        ELSE X(s) = IF Packs(calls[n[1]]) THEN InPart(Whole(<<n[1], n[2]>>), n[2]) ELSE EmptyBag
  <2> SUFFICES ASSUME NEW s \in DOMAIN P PROVE SumOver(X(s), {<<k, o, s>> : o \in calls[k].outs})
    BY <1>2 DEF Real
  <2>1. <<k, "out", s>> \in AnyUse
    BY <1>2, <1>6 DEF Real
  <2>2. X(s) = Through(Whole(<<k, "out">>), k, "out", s) /\ {<<k, o, s>> : o \in calls[k].outs} = {<<k, "out", s>>}
    BY <1>2
  <2> HIDE DEF X
  <2> QED BY <2>1, <2>2, WholeGives
<1>8. DOMAIN g = DOMAIN P /\ \A s \in DOMAIN g : g[s] = X(s)
  OBVIOUS
<1> HIDE DEF g, X, P, A, D
<1>9. Gives(n, g)
  BY <1>3, <1>5, <1>7, <1>8 DEF Gives, P, A
<1>10. Leaving(n)
  <2>1. cells' = cells
    BY DEF PlainNode
  <2> QED BY <1>2, <2>1 DEF Leaving
<1> QED BY <1>9, <1>10

\* The node adding the base gives it what goes through its use, and leaves the gradient.
LEMMA BaseNodeGives ==
  ASSUME Stacked, NEW n \in NodesOf(span.first, Len(calls)), span.first \in Nat \ {0},
         DOMAIN cells = DOMAIN calls, Ready(n), BaseNode(n)
  PROVE  (\E g : Gives(n, g)) /\ Leaving(n)
<1> DEFINE k == n[1]
           P == Parents(n, span.first)
           X(s) == IF s = "token" THEN EmptyBag ELSE Through(grads[n], k, "out", s)
           g == [s \in DOMAIN P |-> X(s)]
           A == Elements(P) \cap span.tracked
           D(p) == {i \in DOMAIN P : P[i] = p}
<1>1. Called /\ k \in DOMAIN calls /\ n = <<k, n[2]>> /\ n[2] \in Roles(calls[k])
  <2>1. Called
    BY UnitsAre
  <2> QED BY <2>1 DEF NodesOf, Called
<1>2. /\ calls[k].outs = {"out"} /\ n[2] = "base" /\ grads[n] = Whole(<<k, "out">>)
      /\ ~Shares(calls[k]) /\ ~Packs(calls[k]) /\ DOMAIN P = {"base", "token"}
  <2>1. n[2] = "base"
    BY DEF BaseNode
  <2>2. HasBase(calls[k])
    BY <1>1, <2>1, CallIs
  <2>3. calls[k].outs = {"out"} /\ Role(calls[k], "out") = "base" /\ ~Shares(calls[k]) /\ ~Packs(calls[k])
    BY <1>1, <2>2, CallIs DEF Role
  <2>4. n = <<k, Role(calls[k], "out")>>
    BY <1>1, <2>1, <2>3
  <2>5. \A o \in calls[k].outs : n = <<k, Role(calls[k], o)>> => grads[n] = Whole(<<k, o>>)
    BY DEF Ready
  <2>6. P = [s \in {"base", "token"} |->
               IF s = "base" THEN NodeOf(calls[k].ins[s], span.first) ELSE <<k, "node">>]
    BY <2>1 DEF Parents
  <2> QED BY <2>1, <2>3, <2>4, <2>5, <2>6
<1>3. grads' = Register([m \in DOMAIN grads \ {n} |-> grads[m]], [p \in A |-> Added([s \in D(p) |-> X(s)])])
  BY DEF BaseNode, Consume, Given
<1>4. \A p : [s \in D(p) |-> X(s)] = [s \in D(p) |-> g[s]]
  <2> HIDE DEF X, P
  <2> QED OBVIOUS
<1>5. GivenBy(n, g) = [p \in A |-> Added([s \in D(p) |-> X(s)])]
  <2> HIDE DEF X, g
  <2> QED BY <1>4 DEF GivenBy
<1>6. \A s \in DOMAIN P : Real(n, s) => \A o \in calls[k].outs : <<k, o, s>> \in AnyUse
  <2> HIDE DEF P, k
  <2> QED BY <1>1, RealUse DEF P, k
<1>7. \A s \in DOMAIN P :
        IF Real(n, s) THEN SumOver(X(s), {<<n[1], o, s>> : o \in calls[n[1]].outs})
        ELSE X(s) = IF Packs(calls[n[1]]) THEN InPart(Whole(<<n[1], n[2]>>), n[2]) ELSE EmptyBag
  <2> SUFFICES ASSUME NEW s \in DOMAIN P
               PROVE  IF Real(n, s) THEN SumOver(X(s), {<<k, o, s>> : o \in calls[k].outs}) ELSE X(s) = EmptyBag
    BY <1>2
  <2>1. CASE s = "base"
    <3>1. Real(n, s)
      BY <1>2, <2>1 DEF Real
    <3>2. <<k, "out", s>> \in AnyUse
      BY <1>2, <1>6, <3>1
    <3>3. X(s) = Through(Whole(<<k, "out">>), k, "out", s) /\ {<<k, o, s>> : o \in calls[k].outs} = {<<k, "out", s>>}
      BY <1>2, <2>1
    <3> HIDE DEF X
    <3> QED BY <3>1, <3>2, <3>3, WholeGives
  <2>2. CASE s = "token"
    BY <1>2, <2>2 DEF Real
  <2> QED BY <1>2, <2>1, <2>2
<1>8. DOMAIN g = DOMAIN P /\ \A s \in DOMAIN g : g[s] = X(s)
  OBVIOUS
<1> HIDE DEF g, X, P, A, D
<1>9. Gives(n, g)
  BY <1>3, <1>5, <1>7, <1>8 DEF Gives, P, A
<1>10. Leaving(n)
  <2>1. cells' = IF <<k, "node">> \in span.tracked THEN [cells EXCEPT ![k] = [out |-> grads[n]]] ELSE cells
    BY DEF BaseNode
  <2> QED BY <1>1, <1>2, <2>1 DEF Leaving
<1> QED BY <1>9, <1>10

\* The low-rank product gives what was left for it through its uses.
LEMMA LowRankNodeGives ==
  ASSUME Stacked, NEW n \in NodesOf(span.first, Len(calls)), span.first \in Nat \ {0},
         DOMAIN cells = DOMAIN calls, Ready(n), LowRankNode(n)
  PROVE  (\E g : Gives(n, g)) /\ Leaving(n)
<1> DEFINE k == n[1]
           P == Parents(n, span.first)
           X(s) == Through(cells[k].out, k, "out", s)
           g == [s \in DOMAIN P |-> X(s)]
           A == Elements(P) \cap span.tracked
           D(p) == {i \in DOMAIN P : P[i] = p}
<1>1. Called /\ k \in DOMAIN calls /\ n = <<k, n[2]>> /\ n[2] \in Roles(calls[k])
  <2>1. Called
    BY UnitsAre
  <2> QED BY <2>1 DEF NodesOf, Called
<1>2. calls[k].outs = {"out"} /\ n[2] = "node" /\ cells[k].out = Whole(<<k, "out">>) /\ ~Shares(calls[k])
  <2>1. n[2] = "node" /\ HasBase(calls[k]) /\ "out" \in DOMAIN cells[k]
    BY DEF LowRankNode
  <2>2. calls[k].outs = {"out"} /\ ~Shares(calls[k])
    BY <1>1, <2>1, CallIs
  <2>3. cells[k].out = Whole(<<k, "out">>)
    BY <2>1 DEF Ready
  <2> QED BY <2>1, <2>2, <2>3
<1>3. grads' = Register([m \in DOMAIN grads \ {n} |-> grads[m]], [p \in A |-> Added([s \in D(p) |-> X(s)])])
  BY DEF LowRankNode, Consume, Given
<1>4. \A p : [s \in D(p) |-> X(s)] = [s \in D(p) |-> g[s]]
  <2> HIDE DEF X, P
  <2> QED OBVIOUS
<1>5. GivenBy(n, g) = [p \in A |-> Added([s \in D(p) |-> X(s)])]
  <2> HIDE DEF X, g
  <2> QED BY <1>4 DEF GivenBy
<1>6. \A s \in DOMAIN P : Real(n, s) => \A o \in calls[k].outs : <<k, o, s>> \in AnyUse
  <2> HIDE DEF P, k
  <2> QED BY <1>1, RealUse DEF P, k
<1>7. \A s \in DOMAIN P :
        IF Real(n, s) THEN SumOver(X(s), {<<n[1], o, s>> : o \in calls[n[1]].outs})
        ELSE X(s) = IF Packs(calls[n[1]]) THEN InPart(Whole(<<n[1], n[2]>>), n[2]) ELSE EmptyBag
  <2> SUFFICES ASSUME NEW s \in DOMAIN P PROVE SumOver(X(s), {<<k, o, s>> : o \in calls[k].outs})
    BY <1>2 DEF Real
  <2>1. <<k, "out", s>> \in AnyUse
    BY <1>2, <1>6 DEF Real
  <2>2. X(s) = Through(Whole(<<k, "out">>), k, "out", s) /\ {<<k, o, s>> : o \in calls[k].outs} = {<<k, "out", s>>}
    BY <1>2
  <2> HIDE DEF X
  <2> QED BY <2>1, <2>2, WholeGives
<1>8. DOMAIN g = DOMAIN P /\ \A s \in DOMAIN g : g[s] = X(s)
  OBVIOUS
<1> HIDE DEF g, X, P, A, D
<1>9. Gives(n, g)
  BY <1>3, <1>5, <1>7, <1>8 DEF Gives, P, A
<1>10. Leaving(n)
  <2>1. cells' = [cells EXCEPT ![k] = Nothing]
    BY DEF LowRankNode
  <2> QED BY <1>2, <2>1 DEF Leaving
<1> QED BY <1>9, <1>10

\* An output's node of the convolution leaves its gradient and gives its token nothing.
LEMMA HandoverNodeGives ==
  ASSUME Stacked, NEW n \in NodesOf(span.first, Len(calls)), span.first \in Nat \ {0},
         DOMAIN cells = DOMAIN calls, Ready(n), HandoverNode(n)
  PROVE  (\E g : Gives(n, g)) /\ Leaving(n)
<1> DEFINE k == n[1]
           P == Parents(n, span.first)
           X(s) == EmptyBag
           g == [s \in DOMAIN P |-> X(s)]
           A == Elements(P) \cap span.tracked
           D(p) == {i \in DOMAIN P : P[i] = p}
<1>1. Called /\ k \in DOMAIN calls /\ n = <<k, n[2]>> /\ n[2] \in Roles(calls[k])
  <2>1. Called
    BY UnitsAre
  <2> QED BY <2>1 DEF NodesOf, Called
<1>2. /\ n[2] \in {"out", "state"} /\ grads[n] = Whole(<<k, n[2]>>) /\ ~Packs(calls[k])
  <2>1. n[2] # "node" /\ Shares(calls[k])
    BY DEF HandoverNode
  <2>2. /\ calls[k].outs = {"out", "state"} /\ ~Packs(calls[k]) /\ ~HasBase(calls[k])
        /\ Roles(calls[k]) = {"node", "out", "state"}
    BY <1>1, <2>1, CallIs
  <2>3. n[2] \in {"out", "state"}
    BY <1>1, <2>1, <2>2
  <2>4. n = <<k, Role(calls[k], n[2])>> /\ n[2] \in calls[k].outs
    BY <1>1, <2>1, <2>2, <2>3 DEF Role
  <2>5. \A o \in calls[k].outs : n = <<k, Role(calls[k], o)>> => grads[n] = Whole(<<k, o>>)
    BY DEF Ready
  <2> QED BY <2>2, <2>3, <2>4, <2>5
<1>3. grads' = Register([m \in DOMAIN grads \ {n} |-> grads[m]], [p \in A |-> Added([s \in D(p) |-> X(s)])])
  BY DEF HandoverNode, Consume, Given
<1>4. \A p : [s \in D(p) |-> X(s)] = [s \in D(p) |-> g[s]]
  <2> HIDE DEF X, P
  <2> QED OBVIOUS
<1>5. GivenBy(n, g) = [p \in A |-> Added([s \in D(p) |-> X(s)])]
  <2> HIDE DEF X, g
  <2> QED BY <1>4 DEF GivenBy
<1>6. \A s \in DOMAIN P : Real(n, s) => \A o \in calls[k].outs : <<k, o, s>> \in AnyUse
  <2> HIDE DEF P, k
  <2> QED BY <1>1, RealUse DEF P, k
<1>7. \A s \in DOMAIN P :
        IF Real(n, s) THEN SumOver(X(s), {<<n[1], o, s>> : o \in calls[n[1]].outs})
        ELSE X(s) = IF Packs(calls[n[1]]) THEN InPart(Whole(<<n[1], n[2]>>), n[2]) ELSE EmptyBag
  <2>1. \A s : ~Real(n, s)
    BY <1>2 DEF Real
  <2> QED BY <1>2, <2>1
<1>8. DOMAIN g = DOMAIN P /\ \A s \in DOMAIN g : g[s] = X(s)
  OBVIOUS
<1> HIDE DEF g, X, P, A, D
<1>9. Gives(n, g)
  BY <1>3, <1>5, <1>7, <1>8 DEF Gives, P, A
<1>10. Leaving(n)
  <2>1. cells' = [cells EXCEPT ![k] = With(@, n[2], grads[n])]
    BY DEF HandoverNode
  <2> QED BY <1>1, <1>2, <2>1 DEF Leaving
<1> QED BY <1>9, <1>10

\* The convolution gives what was left of both its outputs through its uses.
LEMMA ConvNodeGives ==
  ASSUME Stacked, NEW n \in NodesOf(span.first, Len(calls)), span.first \in Nat \ {0},
         DOMAIN cells = DOMAIN calls, Ready(n), ConvNode(n)
  PROVE  (\E g : Gives(n, g)) /\ Leaving(n)
<1> DEFINE k == n[1]
           P == Parents(n, span.first)
           X(s) == Through(IF "out" \in DOMAIN cells[k] THEN cells[k]["out"] ELSE EmptyBag, k, "out", s)
                     (+) Through(IF "state" \in DOMAIN cells[k] THEN cells[k]["state"] ELSE EmptyBag, k, "state", s)
           g == [s \in DOMAIN P |-> X(s)]
           A == Elements(P) \cap span.tracked
           D(p) == {i \in DOMAIN P : P[i] = p}
<1>1. Called /\ k \in DOMAIN calls /\ n = <<k, n[2]>> /\ n[2] \in Roles(calls[k])
  <2>1. Called
    BY UnitsAre
  <2> QED BY <2>1 DEF NodesOf, Called
<1>2. /\ calls[k].outs = {"out", "state"} /\ n[2] = "node"
      /\ \A o \in {"out", "state"} :
           (IF o \in DOMAIN cells[k] THEN cells[k][o] ELSE EmptyBag) = Whole(<<k, o>>)
  <2>1. n[2] = "node" /\ Shares(calls[k])
    BY DEF ConvNode
  <2>2. calls[k].outs = {"out", "state"}
    BY <1>1, <2>1, CallIs
  <2> QED BY <2>1, <2>2 DEF Ready
<1>3. grads' = Register([m \in DOMAIN grads \ {n} |-> grads[m]], [p \in A |-> Added([s \in D(p) |-> X(s)])])
  BY DEF ConvNode, Consume, Given
<1>4. \A p : [s \in D(p) |-> X(s)] = [s \in D(p) |-> g[s]]
  <2> HIDE DEF X, P
  <2> QED OBVIOUS
<1>5. GivenBy(n, g) = [p \in A |-> Added([s \in D(p) |-> X(s)])]
  <2> HIDE DEF X, g
  <2> QED BY <1>4 DEF GivenBy
<1>6. \A s \in DOMAIN P : Real(n, s) => \A o \in calls[k].outs : <<k, o, s>> \in AnyUse
  <2> HIDE DEF P, k
  <2> QED BY <1>1, RealUse DEF P, k
<1>7. \A s \in DOMAIN P :
        IF Real(n, s) THEN SumOver(X(s), {<<n[1], o, s>> : o \in calls[n[1]].outs})
        ELSE X(s) = IF Packs(calls[n[1]]) THEN InPart(Whole(<<n[1], n[2]>>), n[2]) ELSE EmptyBag
  <2> SUFFICES ASSUME NEW s \in DOMAIN P PROVE SumOver(X(s), {<<k, o, s>> : o \in {"out", "state"}})
    BY <1>2 DEF Real
  <2>1. <<k, "out", s>> \in AnyUse /\ <<k, "state", s>> \in AnyUse
    BY <1>2, <1>6 DEF Real
  <2>2. X(s) = Through(Whole(<<k, "out">>), k, "out", s) (+) Through(Whole(<<k, "state">>), k, "state", s)
    BY <1>2
  <2> HIDE DEF X
  <2> QED BY <2>1, <2>2, BothGive
<1>8. DOMAIN g = DOMAIN P /\ \A s \in DOMAIN g : g[s] = X(s)
  OBVIOUS
<1> HIDE DEF g, X, P, A, D
<1>9. Gives(n, g)
  BY <1>3, <1>5, <1>7, <1>8 DEF Gives, P, A
<1>10. Leaving(n)
  <2>1. cells' = [cells EXCEPT ![k] = Nothing]
    BY DEF ConvNode
  <2> QED BY <1>2, <2>1 DEF Leaving
<1> QED BY <1>9, <1>10

\* A slice of the packed outputs gives its half.
LEMMA SliceNodeGives ==
  ASSUME Stacked, NEW n \in NodesOf(span.first, Len(calls)), span.first \in Nat \ {0},
         DOMAIN cells = DOMAIN calls, Ready(n), SliceNode(n)
  PROVE  (\E g : Gives(n, g)) /\ Leaving(n)
<1> DEFINE k == n[1]
           P == Parents(n, span.first)
           X(s) == InPart(grads[n], n[2])
           g == [s \in DOMAIN P |-> X(s)]
           A == Elements(P) \cap span.tracked
           D(p) == {i \in DOMAIN P : P[i] = p}
<1>1. Called /\ k \in DOMAIN calls /\ n = <<k, n[2]>> /\ n[2] \in Roles(calls[k])
  <2>1. Called
    BY UnitsAre
  <2> QED BY <2>1 DEF NodesOf, Called
<1>2. /\ n[2] \in {"out", "state"} /\ grads[n] = Whole(<<k, n[2]>>) /\ Packs(calls[k]) /\ ~Shares(calls[k])
  <2>1. n[2] # "node" /\ Packs(calls[k])
    BY DEF SliceNode
  <2>2. /\ calls[k].outs = {"out", "state"} /\ ~Shares(calls[k]) /\ ~HasBase(calls[k])
        /\ Roles(calls[k]) = {"node", "out", "state"}
    BY <1>1, <2>1, CallIs
  <2>3. n[2] \in {"out", "state"}
    BY <1>1, <2>1, <2>2
  <2>4. n = <<k, Role(calls[k], n[2])>> /\ n[2] \in calls[k].outs
    BY <1>1, <2>1, <2>2, <2>3 DEF Role
  <2>5. \A o \in calls[k].outs : n = <<k, Role(calls[k], o)>> => grads[n] = Whole(<<k, o>>)
    BY DEF Ready
  <2> QED BY <2>1, <2>2, <2>3, <2>4, <2>5
<1>3. grads' = Register([m \in DOMAIN grads \ {n} |-> grads[m]], [p \in A |-> Added([s \in D(p) |-> X(s)])])
  BY DEF SliceNode, Consume, Given
<1>4. \A p : [s \in D(p) |-> X(s)] = [s \in D(p) |-> g[s]]
  <2> HIDE DEF X, P
  <2> QED OBVIOUS
<1>5. GivenBy(n, g) = [p \in A |-> Added([s \in D(p) |-> X(s)])]
  <2> HIDE DEF X, g
  <2> QED BY <1>4 DEF GivenBy
<1>6. \A s \in DOMAIN P : Real(n, s) => \A o \in calls[k].outs : <<k, o, s>> \in AnyUse
  <2> HIDE DEF P, k
  <2> QED BY <1>1, RealUse DEF P, k
<1>7. \A s \in DOMAIN P :
        IF Real(n, s) THEN SumOver(X(s), {<<n[1], o, s>> : o \in calls[n[1]].outs})
        ELSE X(s) = IF Packs(calls[n[1]]) THEN InPart(Whole(<<n[1], n[2]>>), n[2]) ELSE EmptyBag
  <2>1. \A s : ~Real(n, s)
    BY <1>2 DEF Real
  <2> QED BY <1>2, <2>1
<1>8. DOMAIN g = DOMAIN P /\ \A s \in DOMAIN g : g[s] = X(s)
  OBVIOUS
<1> HIDE DEF g, X, P, A, D
<1>9. Gives(n, g)
  BY <1>3, <1>5, <1>7, <1>8 DEF Gives, P, A
<1>10. Leaving(n)
  <2>1. cells' = cells
    BY DEF SliceNode
  <2> QED BY <1>2, <2>1 DEF Leaving
<1> QED BY <1>9, <1>10

\* The chunk with its outputs packed gives each half through its uses.
LEMMA PackedNodeGives ==
  ASSUME Stacked, NEW n \in NodesOf(span.first, Len(calls)), span.first \in Nat \ {0},
         DOMAIN cells = DOMAIN calls, Ready(n), PackedNode(n)
  PROVE  (\E g : Gives(n, g)) /\ Leaving(n)
<1> DEFINE k == n[1]
           P == Parents(n, span.first)
           X(s) == Through(PartOf(grads[n], "out"), k, "out", s) (+) Through(PartOf(grads[n], "state"), k, "state", s)
           g == [s \in DOMAIN P |-> X(s)]
           A == Elements(P) \cap span.tracked
           D(p) == {i \in DOMAIN P : P[i] = p}
<1>1. Called /\ k \in DOMAIN calls /\ n = <<k, n[2]>> /\ n[2] \in Roles(calls[k])
  <2>1. Called
    BY UnitsAre
  <2> QED BY <2>1 DEF NodesOf, Called
<1>2. /\ calls[k].outs = {"out", "state"} /\ n[2] = "node" /\ ~Shares(calls[k])
      /\ Halves(grads[n], k, {"out", "state"})
  <2>1. n[2] = "node" /\ Packs(calls[k])
    BY DEF PackedNode
  <2>2. calls[k].outs = {"out", "state"} /\ ~Shares(calls[k])
    BY <1>1, <2>1, CallIs
  <2>3. Halves(grads[n], k, calls[k].outs)
    BY <2>1 DEF Ready
  <2> QED BY <2>1, <2>2, <2>3
<1>3. grads' = Register([m \in DOMAIN grads \ {n} |-> grads[m]], [p \in A |-> Added([s \in D(p) |-> X(s)])])
  BY DEF PackedNode, Consume, Given
<1>4. \A p : [s \in D(p) |-> X(s)] = [s \in D(p) |-> g[s]]
  <2> HIDE DEF X, P
  <2> QED OBVIOUS
<1>5. GivenBy(n, g) = [p \in A |-> Added([s \in D(p) |-> X(s)])]
  <2> HIDE DEF X, g
  <2> QED BY <1>4 DEF GivenBy
<1>6. \A s \in DOMAIN P : Real(n, s) => \A o \in calls[k].outs : <<k, o, s>> \in AnyUse
  <2> HIDE DEF P, k
  <2> QED BY <1>1, RealUse DEF P, k
<1>7. \A s \in DOMAIN P :
        IF Real(n, s) THEN SumOver(X(s), {<<n[1], o, s>> : o \in calls[n[1]].outs})
        ELSE X(s) = IF Packs(calls[n[1]]) THEN InPart(Whole(<<n[1], n[2]>>), n[2]) ELSE EmptyBag
  <2> SUFFICES ASSUME NEW s \in DOMAIN P PROVE SumOver(X(s), {<<k, o, s>> : o \in {"out", "state"}})
    BY <1>2 DEF Real
  <2>1. <<k, "out", s>> \in AnyUse /\ <<k, "state", s>> \in AnyUse
    BY <1>2, <1>6 DEF Real
  <2>2. X(s) = Through(Whole(<<k, "out">>), k, "out", s) (+) Through(Whole(<<k, "state">>), k, "state", s)
    <3> HIDE DEF P, k
    <3>1. /\ Through(PartOf(grads[n], "out"), k, "out", s) = Through(Whole(<<k, "out">>), k, "out", s)
          /\ Through(PartOf(grads[n], "state"), k, "state", s) = Through(Whole(<<k, "state">>), k, "state", s)
      BY <1>2, <2>1, HalfGives
    <3> QED BY <3>1
  <2> HIDE DEF X
  <2> QED BY <2>1, <2>2, BothGive
<1>8. DOMAIN g = DOMAIN P /\ \A s \in DOMAIN g : g[s] = X(s)
  OBVIOUS
<1> HIDE DEF g, X, P, A, D
<1>9. Gives(n, g)
  BY <1>3, <1>5, <1>7, <1>8 DEF Gives, P, A
<1>10. Leaving(n)
  <2>1. cells' = cells
    BY DEF PackedNode
  <2> QED BY <1>2, <2>1 DEF Leaving
<1> QED BY <1>9, <1>10

\* An inner node is taken by the token alone.
LEMMA InnerTaken ==
  ASSUME Called, NEW first, NEW last, Region(first, last), NEW n \in NodesOf(first, last),
         NEW q, Inner(q), q[1] \in Nat, q = <<q[1], q[2]>>
  PROVE  /\ \A s \in DOMAIN Parents(n, first) : Parents(n, first)[s] = q =>
              s = "token" /\ q = <<n[1], "node">> /\ ~Real(n, s)
         /\ \A o \in {"out", "state"} : n = <<q[1], o>> => q \in Elements(Parents(n, first))
<1> DEFINE k == n[1]
           P == Parents(n, first)
           C == calls
<1>1. /\ first \in Nat \ {0} /\ last \in first .. Len(calls) /\ Len(calls) \in Nat
      /\ n \in NodesOf(first, Len(calls)) /\ k \in first .. last /\ k \in DOMAIN C
  BY DEF Region, NodesOf, Called
<1>2. ASSUME NEW s \in DOMAIN P, P[s] = q PROVE s = "token" /\ q = <<k, "node">> /\ ~Real(n, s)
  <2>1. CASE n[2] # "node" /\ s = "token" /\ P[s] = <<k, "node">>
    BY <1>2, <2>1 DEF Real
  <2>2. CASE s \in DOMAIN C[k].ins /\ P[s] = NodeOf(C[k].ins[s], first)
    <3> DEFINE v == C[k].ins[s]
    <3>1. /\ v = <<v[1], v[2]>>
          /\ \/ v[1] = 0 /\ v[2] # "input"
             \/ /\ v[1] \in 1 .. (k - 1) /\ v[1] \in DOMAIN C
                /\ v[2] \in C[v[1]].outs
      BY <1>1, <2>2, Inputs
    <3>2. q = NodeOf(v, first)
      BY <1>2, <2>2
    <3>3. q[1] > 0
      BY DEF Inner
    <3> HIDE DEF v, P
    <3>4. v[1] # 0 /\ ~(v[1] < first)
      BY <1>1, <3>2, <3>3 DEF NodeOf, Input
    <3> DEFINE j == v[1]
               o == v[2]
    <3>5. j \in DOMAIN C /\ o \in C[j].outs /\ v = <<j, o>> /\ j >= first
      BY <1>1, <3>1, <3>4
    <3> HIDE DEF j, o
    <3>6. NodeOf(<<j, o>>, first) = <<j, Role(C[j], o)>> /\ ~Inner(<<j, Role(C[j], o)>>)
      BY <1>1, <3>5, ValueNode
    <3> QED BY <3>2, <3>5, <3>6
  <2> QED BY <1>1, <2>1, <2>2, ParentTakes
<1>3. ASSUME NEW o \in {"out", "state"}, n = <<q[1], o>> PROVE q \in Elements(P)
  <2>1. n[1] = q[1] /\ n[2] # "node" /\ n[2] # "base"
    BY <1>3
  <2>2. P = [i \in {"token"} |-> <<q[1], "node">>]
    BY <2>1 DEF Parents
  <2>3. q = <<q[1], "node">>
    BY DEF Inner
  <2>4. "token" \in DOMAIN P /\ P["token"] = q
    BY <2>2, <2>3
  <2> QED BY <2>4 DEF Elements
<1> QED BY <1>2, <1>3

\* A node run, all the others have been given what they are owed.
LEMMA RunOwes ==
  ASSUME Stacked, NEW first, NEW last, Region(first, last), NEW leaves, Leaves(leaves, first),
         NEW tracked, tracked = Tracked(first, last, leaves),
         span.first = first, span.tracked = tracked,
         NEW T, Owes(first, last, tracked, T, grads, cells),
         NEW n \in T, NEW g, Gives(n, g), Leaving(n)
  PROVE  Owes(first, last, tracked, T \ {n}, grads', cells')
<1> DEFINE K == first .. last
           N == NodesOf(first, last)
           k == n[1]
           P == Parents(n, first)
           S == T \ {n}
           D(q) == {i \in DOMAIN P : P[i] = q}
           A(q) == Added([s \in D(q) |-> g[s]])
           root == NodeOf(<<last, "out">>, first)
<1>1. /\ Called /\ DOMAIN calls = 1 .. Len(calls) /\ Len(calls) \in Nat
      /\ first \in Nat \ {0} /\ last \in first .. Len(calls) /\ K \in SUBSET DOMAIN calls
      /\ TrackedOn(tracked, N, leaves, first)
      /\ Input \in tracked => first > 1
      /\ \A m \in N : /\ m[1] \in K /\ m[1] > 0 /\ m[1] \in DOMAIN calls
                      /\ m = <<m[1], m[2]>> /\ m[2] \in Roles(calls[m[1]])
                      /\ m \in NodesOf(first, Len(calls))
  BY PassIs
<1>2. /\ T \subseteq N \cap tracked
      /\ \A q \in T \cup {m \in tracked : m[1] = 0} : OwedTo(q, first, last, T, grads)
      /\ \A j \in K : <<j, "node">> \in T => LeftFor(j, T, cells)
  BY DEF Owes
<1>3. n \in N /\ n \in tracked /\ k \in K /\ k > 0 /\ k \in DOMAIN calls /\ n = <<k, n[2]>> /\ n[2] \in Roles(calls[k])
  BY <1>1, <1>2
<1>4. /\ DOMAIN g = DOMAIN P
      /\ \A s \in DOMAIN g : Real(n, s) => SumOver(g[s], {<<k, o, s>> : o \in calls[k].outs})
      /\ \A s \in DOMAIN g : ~Real(n, s) =>
           g[s] = IF Packs(calls[k]) THEN InPart(Whole(<<k, n[2]>>), n[2]) ELSE EmptyBag
  BY DEF Gives
<1> DEFINE given == GivenBy(n, g)
<1>5. /\ grads' = Register([m \in DOMAIN grads \ {n} |-> grads[m]], given)
      /\ DOMAIN given = Elements(P) \cap tracked
      /\ \A q \in DOMAIN given : given[q] = A(q)
  BY DEF Gives, GivenBy
<1> HIDE DEF given, N, K, A, P
<1>6. ASSUME NEW q \in tracked, q # n, q \in Elements(P) => Bag(A(q))
      PROVE  HeldIn(grads', q) = IF q \in Elements(P) THEN HeldIn(grads, q) (+) A(q) ELSE HeldIn(grads, q)
  <2>1. q \in DOMAIN given <=> q \in Elements(P)
    BY <1>5
  <2>2. q \in DOMAIN given => Bag(given[q]) /\ given[q] = A(q)
    BY <1>5, <1>6
  <2>3. HeldIn(Register([m \in DOMAIN grads \ {n} |-> grads[m]], given), q)
          = IF q \in DOMAIN given THEN HeldIn(grads, q) (+) given[q] ELSE HeldIn(grads, q)
    BY <1>6, <2>2, RegisterHeld
  <2> QED BY <1>5, <2>1, <2>2, <2>3
<1>7. ASSUME NEW q \in S \cup {m \in tracked : m[1] = 0} PROVE OwedTo(q, first, last, S, grads')
  <2>1. q \in tracked /\ q # n /\ (q \in N \/ q[1] = 0) /\ OwedTo(q, first, last, T, grads)
    BY <1>2, <1>3
  <2>2. CASE q = root
    <3>1. q \notin Elements(P)
      BY <1>1, <1>3, <2>2, RootTop DEF P, N
    <3>2. HeldIn(grads', q) = HeldIn(grads, q)
      BY <1>6, <2>1, <3>1
    <3>3. HeldIn(grads, q) = Whole(<<last, "out">>)
      BY <2>1, <2>2 DEF OwedTo
    <3> QED BY <2>2, <3>2, <3>3 DEF OwedTo
  <2>3. CASE q # root /\ ~Inner(q)
    <3> DEFINE v == ValueOf(q, first)
               X == {u \in Uses(v, K) : Taker(u) \notin T}
               Y == {u \in Uses(v, K) : Taker(u) = n}
               Z == {u \in Uses(v, K) : Taker(u) \notin S}
    <3>1. SumOver(HeldIn(grads, q), X)
      BY <2>1, <2>3 DEF OwedTo, K
    <3>2. SumOver(A(q), Y) /\ (q \notin Elements(P) => Y = {})
      <4>1. DOMAIN g = DOMAIN Parents(n, first)
        BY <1>4 DEF P
      <4>2. \A s \in DOMAIN g : Real(n, s) => SumOver(g[s], {<<n[1], o, s>> : o \in calls[n[1]].outs})
        BY <1>4
      <4>3. q \in Tracked(first, last, leaves) /\ ~Inner(q)
        BY <2>1, <2>3
      <4>4. (q \in NodesOf(first, last) \/ q[1] = 0) /\ n \in NodesOf(first, last)
        BY <1>3, <2>1 DEF N
      <4> HIDE DEF v, X, Y, Z, S, root, D, k
      <4>5. /\ SumOver(Added([s \in {i \in DOMAIN Parents(n, first) : Parents(n, first)[i] = q} |-> g[s]]),
                       {u \in Uses(ValueOf(q, first), first .. last) : Taker(u) = n})
            /\ q \notin Elements(Parents(n, first)) =>
                 {u \in Uses(ValueOf(q, first), first .. last) : Taker(u) = n} = {}
        BY <4>1, <4>2, <4>3, <4>4, GivenSum
      <4> QED BY <4>5 DEF A, D, P, Y, v, K
    <3>3. Z = X \cup Y /\ X \cap Y = {}
      OBVIOUS
    <3>4. X \in SUBSET AnyUse /\ Y \in SUBSET AnyUse
      <4>1. Uses(v, K) \subseteq AnyUse
        <5> HIDE DEF v
        <5> QED BY <1>1, UsesAre
      <4> QED BY <4>1
    <3> HIDE DEF X, Y, Z, S
    <3>5. Bag(A(q))
      BY <3>2 DEF SumOver
    <3>6. SumOver(HeldIn(grads', q), Z)
      <4>1. CASE q \in Elements(P)
        <5>1. SumOver(HeldIn(grads, q) (+) A(q), X \cup Y)
          BY <3>1, <3>2, <3>3, <3>4, SumJoin
        <5>2. HeldIn(grads', q) = HeldIn(grads, q) (+) A(q)
          BY <1>6, <2>1, <3>5, <4>1
        <5> QED BY <3>3, <5>1, <5>2
      <4>2. CASE q \notin Elements(P)
        <5>1. HeldIn(grads', q) = HeldIn(grads, q) /\ Z = X
          BY <1>6, <2>1, <3>2, <3>3, <4>2
        <5> QED BY <3>1, <5>1
      <4> QED BY <4>1, <4>2
    <3> QED BY <2>3, <3>6 DEF OwedTo, Z, K
  <2>4. CASE q # root /\ Inner(q)
    <3> DEFINE j == q[1]
               O == {o \in calls[j].outs : <<j, o>> \notin T}
               Q == {o \in calls[j].outs : <<j, o>> \notin S}
    <3>1. q \in N /\ q = <<j, "node">> /\ j \in DOMAIN calls /\ j \in Nat
      BY <1>1, <2>1, <2>4 DEF Inner
    <3>2. calls[j].outs \subseteq {"out", "state"}
      BY <1>1, <3>1, CallIs
    <3>3. /\ \A s \in DOMAIN P : P[s] = q => s = "token" /\ q = <<k, "node">> /\ ~Real(n, s)
          /\ \A o \in {"out", "state"} : n = <<j, o>> => q \in Elements(P)
      <4>1. q = <<q[1], q[2]>> /\ q[1] \in Nat
        BY <3>1
      <4> QED BY <1>1, <1>3, <2>4, <4>1, InnerTaken DEF P, N
    <3>4. /\ Packs(calls[j]) => Halves(HeldIn(grads, q), j, O)
          /\ ~Packs(calls[j]) => HeldIn(grads, q) = EmptyBag
      BY <2>1, <2>4 DEF OwedTo
    <3>5. CASE q \notin Elements(P)
      <4>1. HeldIn(grads', q) = HeldIn(grads, q)
        BY <1>6, <2>1, <3>5
      <4>2. Q = O
        BY <3>2, <3>3, <3>5
      <4> HIDE DEF S
      <4> QED BY <2>4, <3>4, <4>1, <4>2 DEF OwedTo
    <3>6. CASE q \in Elements(P)
      <4>1. PICK s \in DOMAIN P : P[s] = q
        BY <3>6 DEF Elements
      <4>2. s = "token" /\ j = k /\ ~Real(n, s) /\ D(q) = {"token"} /\ n[2] # "node"
        <5>1. s = "token" /\ q = <<k, "node">> /\ ~Real(n, s)
          BY <3>3, <4>1
        <5>2. D(q) = {"token"}
          BY <3>3, <4>1, <5>1
        <5>3. j = k
          BY <3>1, <5>1
        <5> QED BY <5>1, <5>2, <5>3 DEF Real
      <4> DEFINE b == g["token"]
      <4>3. b = IF Packs(calls[k]) THEN InPart(Whole(<<k, n[2]>>), n[2]) ELSE EmptyBag
        BY <1>4, <4>1, <4>2
      <4>4. A(q) = Added([i \in {"token"} |-> b])
        <5>1. [i \in {"token"} |-> g[i]] = [i \in {"token"} |-> b]
          OBVIOUS
        <5>2. A(q) = Added([i \in D(q) |-> g[i]])
          BY DEF A
        <5> QED BY <4>2, <5>1, <5>2
      <4> HIDE DEF b, D, S
      <4>5. CASE Packs(calls[k])
        <5>1. n[2] \in calls[k].outs /\ n[2] \notin O /\ Q = O \cup {n[2]}
          <6>1. Roles(calls[k]) = {"node", "out", "state"} /\ calls[k].outs = {"out", "state"}
            BY <1>1, <1>3, <4>5, CallIs
          <6>2. n[2] \in calls[k].outs
            BY <1>3, <4>2, <6>1
          <6>3. \A o : <<k, o>> \notin S <=> <<k, o>> \notin T \/ o = n[2]
            BY <1>3 DEF S
          <6> QED BY <1>3, <4>2, <6>2, <6>3
        <5> HIDE DEF O, Q, j
        <5>2. Halves(HeldIn(grads, q), k, O)
          BY <3>4, <4>2, <4>5
        <5>3. Bag(b) /\ Halves(HeldIn(grads, q) (+) b, k, O \cup {n[2]})
          BY <4>3, <4>5, <5>1, <5>2, HalfBeside
        <5>4. A(q) = b
          BY <4>4, <5>3, AddedOne
        <5>5. HeldIn(grads', q) = HeldIn(grads, q) (+) b
          BY <1>6, <2>1, <3>6, <5>3, <5>4
        <5>6. Halves(HeldIn(grads', q), q[1], {o \in calls[q[1]].outs : <<q[1], o>> \notin S})
          BY <4>2, <5>1, <5>3, <5>5 DEF Q, j
        <5> QED BY <2>4, <4>2, <4>5, <5>6 DEF OwedTo, j
      <4>6. CASE ~Packs(calls[k])
        <5>1. b = EmptyBag /\ HeldIn(grads, q) = EmptyBag
          BY <3>4, <4>2, <4>3, <4>6
        <5>2. Bag(b)
          BY <5>1, NoneIsBag
        <5>3. A(q) = b
          BY <4>4, <5>2, AddedOne
        <5>4. HeldIn(grads', q) = EmptyBag (+) EmptyBag
          BY <1>6, <2>1, <3>6, <5>1, <5>2, <5>3
        <5>5. HeldIn(grads', q) = EmptyBag
          BY <5>1, <5>2, <5>4, AddNone
        <5> QED BY <2>4, <4>2, <4>6, <5>5 DEF OwedTo
      <4> QED BY <4>5, <4>6
    <3> QED BY <3>5, <3>6
  <2> QED BY <2>2, <2>3, <2>4
<1>8. ASSUME NEW j \in K, <<j, "node">> \in S PROVE LeftFor(j, S, cells')
  <2>1. LeftFor(j, T, cells) /\ j \in DOMAIN calls /\ <<j, "node">> \in tracked /\ n # <<j, "node">>
    BY <1>1, <1>2, <1>8
  <2>2. CASE j # k
    <3>1. cells'[j] = cells[j]
      BY <2>1, <2>2 DEF Leaving
    <3>2. \A o : <<j, o>> \in T => <<j, o>> \in S
      BY <1>3, <2>2
    <3> HIDE DEF S
    <3> QED BY <2>1, <3>1, <3>2 DEF LeftFor
  <2>3. CASE j = k
    <3>1. n[2] # "node"
      BY <1>3, <2>1, <2>3
    <3>2. CASE HasBase(calls[k])
      <4>1. n[2] = "base" /\ ~Shares(calls[k])
        BY <1>1, <1>3, <3>1, <3>2, CallIs
      <4>2. cells'[k] = [out |-> Whole(<<k, "out">>)]
        BY <2>1, <2>3, <4>1 DEF Leaving
      <4>3. cells'[k].out = Whole(<<k, "out">>)
        BY <4>2
      <4> HIDE DEF S
      <4> QED BY <2>3, <4>1, <4>3 DEF LeftFor
    <3>3. CASE Shares(calls[k])
      <4>1. ~HasBase(calls[k]) /\ cells'[k] = With(cells[k], n[2], Whole(<<k, n[2]>>))
        BY <1>1, <1>3, <3>1, <3>3, CallIs DEF Leaving
      <4>2. /\ \A o : o \in DOMAIN cells'[k] <=> o \in DOMAIN cells[k] \/ o = n[2]
            /\ \A o \in DOMAIN cells'[k] : cells'[k][o] = IF o = n[2] THEN Whole(<<k, n[2]>>) ELSE cells[k][o]
        BY <4>1 DEF With
      <4>3. \A o : o # n[2] /\ <<k, o>> \in T => <<k, o>> \in S
        BY <1>3
      <4> HIDE DEF S
      <4>4. \A o \in calls[k].outs :
              IF o \in DOMAIN cells[k] THEN cells[k][o] = Whole(<<k, o>>)
              ELSE <<k, o>> \in T \/ DOMAIN Whole(<<k, o>>) = {}
        BY <2>1, <2>3, <3>3 DEF LeftFor
      <4>5. \A o \in calls[k].outs :
              IF o \in DOMAIN cells'[k] THEN cells'[k][o] = Whole(<<k, o>>)
              ELSE <<k, o>> \in S \/ DOMAIN Whole(<<k, o>>) = {}
        BY <4>2, <4>3, <4>4
      <4> QED BY <2>3, <4>1, <4>5 DEF LeftFor
    <3>4. CASE ~HasBase(calls[k]) /\ ~Shares(calls[k])
      BY <2>3, <3>4 DEF LeftFor
    <3> QED BY <3>2, <3>3, <3>4
  <2> QED BY <2>2, <2>3
<1>9. S \subseteq N \cap tracked
  BY <1>2
<1> HIDE DEF S
<1>10. Owes(first, last, tracked, S, grads', cells')
  BY <1>7, <1>8, <1>9 DEF Owes, K, N
<1> QED BY <1>10 DEF S

\* A node run: those still to run have been given what they are owed.
LEMMA StepOwes ==
  ASSUME Stacked, NEW first, NEW last, Region(first, last), NEW leaves, Leaves(leaves, first),
         NEW tracked, tracked = Tracked(first, last, leaves),
         span.first = first, span.tracked = tracked, Left, Run,
         Owes(first, last, tracked, DOMAIN tape, grads, cells)
  PROVE  Owes(first, last, tracked, DOMAIN tape', grads', cells')
<1>1. PICK n \in DOMAIN tape :
        /\ Highest(n) /\ n \in DOMAIN grads
        /\ \/ PlainNode(n) \/ BaseNode(n) \/ LowRankNode(n) \/ HandoverNode(n)
           \/ ConvNode(n) \/ SliceNode(n) \/ PackedNode(n)
        /\ tape' = [m \in DOMAIN tape \ {n} |-> tape[m]]
  BY DEF Run
<1>2. n \in NodesOf(span.first, Len(calls)) /\ span.first \in Nat \ {0} /\ DOMAIN cells = DOMAIN calls
  BY DEF Left
<1>3. Ready(n)
  BY <1>1, HighestReady
<1>4. (\E g : Gives(n, g)) /\ Leaving(n)
  <2>1. CASE PlainNode(n)
    BY <1>2, <1>3, <2>1, PlainNodeGives
  <2>2. CASE BaseNode(n)
    BY <1>2, <1>3, <2>2, BaseNodeGives
  <2>3. CASE LowRankNode(n)
    BY <1>2, <1>3, <2>3, LowRankNodeGives
  <2>4. CASE HandoverNode(n)
    BY <1>2, <1>3, <2>4, HandoverNodeGives
  <2>5. CASE ConvNode(n)
    BY <1>2, <1>3, <2>5, ConvNodeGives
  <2>6. CASE SliceNode(n)
    BY <1>2, <1>3, <2>6, SliceNodeGives
  <2>7. CASE PackedNode(n)
    BY <1>2, <1>3, <2>7, PackedNodeGives
  <2> QED BY <1>1, <2>1, <2>2, <2>3, <2>4, <2>5, <2>6, <2>7
<1>5. PICK g : Gives(n, g)
  BY <1>4
<1>6. DOMAIN tape' = DOMAIN tape \ {n}
  BY <1>1
<1> DEFINE T == DOMAIN tape
<1>7. n \in T /\ Owes(first, last, tracked, T, grads, cells)
  OBVIOUS
<1> HIDE DEF T
<1>8. Owes(first, last, tracked, T \ {n}, grads', cells')
  BY <1>4, <1>5, <1>7, RunOwes
<1> QED BY <1>6, <1>8 DEF T

\* A pass recorded: so have all of its own.
LEMMA FirstOwes ==
  ASSUME Stacked, NEW first, NEW last, Region(first, last), NEW leaves, Leaves(leaves, first),
         Record(first, last, leaves, <<last, "out">>, Whole(<<last, "out">>))
  PROVE  /\ span' = [first |-> first, tracked |-> Tracked(first, last, leaves)]
         /\ Owes(first, last, Tracked(first, last, leaves), DOMAIN tape', grads', cells')
<1> DEFINE tracked == Tracked(first, last, leaves)
           root == NodeOf(<<last, "out">>, first)
           level == Level(first, last)
           T == {m \in Reached(root, first, tracked) : m[1] > 0}
<1>1. /\ span' = [first |-> first, tracked |-> tracked]
      /\ tape' = [n \in T |-> level[n]]
      /\ grads' = [n \in {root} |-> Whole(<<last, "out">>)]
      /\ cells' = [k \in DOMAIN calls |-> Nothing]
  BY DEF Record
<1>2. DOMAIN tape' = T
  BY <1>1
<1>3. Owes(first, last, tracked, T, [n \in {root} |-> Whole(<<last, "out">>)], [k \in DOMAIN calls |-> Nothing])
  BY RecordOwes
<1> QED BY <1>1, <1>2, <1>3

\* What is owed is of the stack, which no step changes.
LEMMA OwesStays ==
  ASSUME calls' = calls, cuts' = cuts
  PROVE  /\ \A b, U : SumOver(b, U)' <=> SumOver(b, U)
         /\ \A v, K : Uses(v, K)' = Uses(v, K)
         /\ \A first, last, leaves : Tracked(first, last, leaves)' = Tracked(first, last, leaves)
         /\ \A first, last, tracked, T, g, c :
              Owes(first, last, tracked, T, g, c)' <=> Owes(first, last, tracked, T, g, c)
<1>1. \A v : Whole(v)' = Whole(v)
  BY WholeStays
<1>2. \A u : Flow(u)' = Flow(u)
  BY <1>1 DEF Flow
<1>3. \A b, U : SumOver(b, U)' <=> SumOver(b, U)
  BY <1>2 DEF SumOver
<1>4. \A v, K : Uses(v, K)' = Uses(v, K)
  BY DEF Uses
<1>5. \A u : Taker(u)' = Taker(u)
  BY DEF Taker, HasBase
<1>6. \A n, first : NodeOf(n, first)' = NodeOf(n, first)
  BY DEF NodeOf
<1>7. \A first, last, leaves : Tracked(first, last, leaves)' = Tracked(first, last, leaves)
  BY DEF Tracked, Parents, NodeOf
<1>8. \A first, last : NodesOf(first, last)' = NodesOf(first, last)
  BY DEF NodesOf
<1>9. \A n : Inner(n)' <=> Inner(n)
  BY DEF Inner
<1>10. \A b, k, O : Halves(b, k, O)' <=> Halves(b, k, O)
  BY <1>1 DEF Halves
<1>11. \A n, first, last, T, g : OwedTo(n, first, last, T, g)' <=> OwedTo(n, first, last, T, g)
  <2> SUFFICES ASSUME NEW n, NEW first, NEW last, NEW T, NEW g
               PROVE  OwedTo(n, first, last, T, g)' <=> OwedTo(n, first, last, T, g)
    OBVIOUS
  <2> DEFINE K == first .. last
             v == ValueOf(n, first)
             h == HeldIn(g, n)
             X == {u \in Uses(v, K) : Taker(u) \notin T}
             O == {o \in calls[n[1]].outs : <<n[1], o>> \notin T}
  <2>1. X' = X
    BY <1>4, <1>5 DEF ValueOf, Input
  <2>2. O' = O /\ h' = h /\ Packs(calls[n[1]])' = Packs(calls[n[1]])
    BY DEF HeldIn, Packs
  <2>3. NodeOf(<<last, "out">>, first)' = NodeOf(<<last, "out">>, first)
    BY <1>6
  <2>4. Whole(<<last, "out">>)' = Whole(<<last, "out">>)
    BY <1>1
  <2>5. SumOver(h, X)' <=> SumOver(h, X)
    <3>1. h' = h
      BY <2>2
    <3> HIDE DEF h, X
    <3>2. Bag(h)' <=> Bag(h)
      BY <3>1 DEF Bag
    <3>3. (UNION {DOMAIN Flow(u) : u \in X})' = UNION {DOMAIN Flow(u) : u \in X}
      BY <1>2, <2>1
    <3> QED BY <1>2, <2>1, <3>1, <3>2, <3>3 DEF SumOver
  <2> QED BY <1>9, <1>10, <2>1, <2>2, <2>3, <2>4, <2>5 DEF OwedTo
<1>12. \A k, T, c : LeftFor(k, T, c)' <=> LeftFor(k, T, c)
  BY <1>1 DEF LeftFor
<1>13. \A first, last, tracked, T, g, c :
         Owes(first, last, tracked, T, g, c)' <=> Owes(first, last, tracked, T, g, c)
  BY <1>8, <1>11, <1>12 DEF Owes
<1> QED BY <1>3, <1>4, <1>7, <1>13

-----------------------------------------------------------------------------
(* The passes of a step.                                                    *)

\* Uses by more calls are more, and those by some and others are of either.
LEMMA UsesSplit ==
  ASSUME NEW v, NEW J, NEW K
  PROVE  /\ Uses(v, J \cup K) = Uses(v, J) \cup Uses(v, K)
         /\ J \subseteq K => Uses(v, J) \subseteq Uses(v, K)
         /\ \A u \in Uses(v, J) : u[1] \in J
BY DEF Uses

\* A unit is a region, and so are all the calls.
LEMMA UnitRegion ==
  ASSUME Stacked
  PROVE  /\ \A i \in 1 .. Units : Region(First(i), Last(i))
         /\ Region(1, Last(Units))
<1>1. /\ Called /\ Len(calls) \in Nat /\ DOMAIN calls = 1 .. Len(calls)
      /\ Units \in Nat /\ Units >= 2 /\ DOMAIN cuts = 1 .. Units
      /\ \A i \in 1 .. Units : First(i) \in Nat \ {0} /\ Last(i) \in First(i) .. Len(calls)
      /\ Last(Units) = Len(calls) /\ First(1) = 1
      /\ \A i \in 2 .. Units : First(i) = Last(i - 1) + 1
  BY UnitsAre
<1>2. ASSUME NEW i \in 1 .. Units PROVE Region(First(i), Last(i))
  <2> DEFINE f == First(i)
             l == Last(i)
  <2>1. f \in Nat \ {0} /\ l \in f .. Len(calls) /\ (f = 1 \/ (i - 1 \in 1 .. Units /\ i \in 2 .. Units /\ f = Last(i - 1) + 1))
    BY <1>1
  <2>a. i # 1 => i - 1 \in 1 .. Units /\ i \in 2 .. Units /\ f = Last(i - 1) + 1 /\ f - 1 = Last(i - 1) /\ Last(i - 1) \in Nat
    <3> SUFFICES ASSUME i # 1
                 PROVE  i - 1 \in 1 .. Units /\ i \in 2 .. Units /\ f = Last(i - 1) + 1 /\ f - 1 = Last(i - 1) /\ Last(i - 1) \in Nat
      OBVIOUS
    <3> DEFINE j == i - 1
    <3>1. j \in 1 .. Units /\ i \in 2 .. Units
      BY <1>1
    <3>2. f = Last(i - 1) + 1 /\ Last(j) \in First(j) .. Len(calls) /\ First(j) \in Nat
      BY <1>1, <3>1
    <3>3. Last(j) \in Nat
      BY <1>1, <3>2
    <3> HIDE DEF f
    <3> QED BY <3>1, <3>2, <3>3
  <2>b. i = 1 => f = 1
    BY <1>1
  <2>2. ASSUME NEW k \in f .. l, NEW s \in DOMAIN calls[k].ins, calls[k].ins[s][1] \in 1 .. (f - 1)
        PROVE  calls[k].ins[s] = <<f - 1, "out">>
    <3>1. i \in 2 .. Units /\ f = Last(i - 1) + 1 /\ Last(i - 1) \in Nat
      <4>1. i # 1
        <5>1. f # 1
          BY <2>2
        <5> QED BY <2>b, <5>1
      <4> QED BY <2>a, <4>1
    <3>2. PICK m \in Models : calls = m.calls /\ cuts = m.cuts
      BY DEF Stacked
    <3>3. IsModel(m)
      BY ModelsAssumption
    <3>4. \A j \in 2 .. Len(m.cuts) : \A h \in (m.cuts[j - 1] + 1) .. m.cuts[j] : \A t \in DOMAIN m.calls[h].ins :
            m.calls[h].ins[t][1] \in 1 .. m.cuts[j - 1] => m.calls[h].ins[t] = <<m.cuts[j - 1], "out">>
      BY <3>3 DEF IsModel
    <3>5. \A j \in 2 .. Units : \A h \in (cuts[j - 1] + 1) .. cuts[j] : \A t \in DOMAIN calls[h].ins :
            calls[h].ins[t][1] \in 1 .. cuts[j - 1] => calls[h].ins[t] = <<cuts[j - 1], "out">>
      BY <3>2, <3>4 DEF Units
    <3>6. Last(i - 1) = cuts[i - 1] /\ l = cuts[i]
      BY DEF Last
    <3>7. f - 1 = cuts[i - 1] /\ f = cuts[i - 1] + 1
      BY <3>1, <3>6
    <3> HIDE DEF f, l
    <3> QED BY <2>2, <3>1, <3>5, <3>6, <3>7
  <2>3. ASSUME NEW k \in f .. l, NEW o \in calls[k].outs, <<k, o>> # <<l, "out">>
        PROVE  Uses(<<k, o>>, DOMAIN calls) = Uses(<<k, o>>, f .. l)
    <3>1. <<k, o>> # Out(i)
      BY <2>3 DEF Out
    <3>2. Uses(<<k, o>>, DOMAIN calls) = Uses(<<k, o>>, (k + 1) .. l)
      BY <1>1, <3>1, UnitUses
    <3>3. (k + 1) .. l \subseteq f .. l /\ f .. l \subseteq DOMAIN calls
      BY <1>1, <2>1
    <3>4. Uses(<<k, o>>, (k + 1) .. l) \subseteq Uses(<<k, o>>, f .. l) /\ Uses(<<k, o>>, f .. l) \subseteq Uses(<<k, o>>, DOMAIN calls)
      BY <3>3, UsesSplit
    <3> QED BY <3>2, <3>4
  <2>4. ASSUME f > 1 PROVE Uses(<<f - 1, "out">>, DOMAIN calls) = Uses(<<f - 1, "out">>, f .. l)
    <3>1. i \in 2 .. Units /\ i - 1 \in 1 .. Units /\ i - 1 < Units /\ f - 1 = Last(i - 1) /\ (i - 1) + 1 = i
      <4>1. i # 1
        BY <2>b, <2>4
      <4>2. i - 1 \in 1 .. Units /\ i \in 2 .. Units /\ f - 1 = Last(i - 1)
        BY <2>a, <4>1
      <4> HIDE DEF f
      <4> QED BY <1>1, <4>2
    <3>2. Last(i - 1) \in First(i - 1) .. Last(i - 1)
      BY <1>1, <3>1
    <3>3. Out(i - 1) = <<f - 1, "out">>
      BY <3>1 DEF Out
    <3> DEFINE j == i - 1
    <3>4. j \in 1 .. Units /\ Last(j) \in First(j) .. Last(j) /\ <<Last(j), "out">> = Out(j) /\ j < Units
      BY <3>1, <3>2 DEF Out
    <3> HIDE DEF j
    <3>5. Uses(<<Last(j), "out">>, 1 .. Last(Units)) = Uses(<<Last(j), "out">>, First(j + 1) .. Last(j + 1))
      BY <3>4, UnitUses
    <3> QED BY <1>1, <3>1, <3>5 DEF j
  <2> HIDE DEF f, l
  <2>5. Region(f, l)
    BY <2>1, <2>2, <2>3, <2>4 DEF Region
  <2> QED BY <2>5 DEF f, l
<1>3. Region(1, Last(Units))
  BY <1>1 DEF Region
<1> QED BY <1>2, <1>3

\* What is trainable is leaves, a pass's input none of them.
LEMMA Trainables ==
  ASSUME Stacked
  PROVE  /\ \A p \in trainable : /\ p = <<0, p[2]>> /\ p[1] = 0 /\ p # Input /\ ~Inner(p)
                                 /\ \A first : NodeOf(p, first) = p /\ ValueOf(p, first) = p
                                 /\ \A i \in 1 .. Units : p # Out(i)
         /\ \A S \in SUBSET trainable : \A first : Leaves(S, first)
         /\ \A first \in Nat : first > 1 => Leaves(trainable \cup {Input}, first)
         /\ \A first : NodeOf(Input, first) = Input /\ ~Inner(Input)
<1>1. PICK m \in Models : trainable \subseteq {<<0, p>> : p \in m.leaves}
  BY DEF Stacked
<1>2. "input" \notin m.leaves
  BY ModelsAssumption DEF IsModel
<1>3. ASSUME NEW p \in trainable PROVE p = <<0, p[2]>> /\ p[1] = 0 /\ p # Input
  <2>1. PICK q \in m.leaves : p = <<0, q>>
    BY <1>1
  <2> QED BY <1>2, <2>1 DEF Input
<1>4. \A i \in 1 .. Units : Last(i) \in Nat /\ Last(i) > 0
  BY UnitsAre
<1>5. \A p : p[1] = 0 => ~Inner(p) /\ \A first : NodeOf(p, first) = p /\ (p # Input => ValueOf(p, first) = p)
  BY DEF Inner, NodeOf, ValueOf
<1>6. \A i \in 1 .. Units : Out(i)[1] # 0
  BY <1>4 DEF Out
<1>7. Input[1] = 0
  BY DEF Input
<1>8. \A S \in SUBSET trainable : \A first : Leaves(S, first)
  BY <1>3 DEF Leaves
<1>9. \A first \in Nat : first > 1 => Leaves(trainable \cup {Input}, first)
  BY <1>3, <1>7 DEF Leaves
<1> QED BY <1>3, <1>5, <1>6, <1>7, <1>8, <1>9

\* Where nothing goes through a unit's output, nothing goes through any use
\* at or below it.
LEMMA NothingBelow ==
  ASSUME Stacked, NEW i \in 1 .. Units, DOMAIN Whole(Out(i)) = {}
  PROVE  \A u \in AnyUse : u[1] <= Last(i) /\ u[2] \in calls[u[1]].outs => DOMAIN Flow(u) = {}
<1>1. /\ Called /\ Len(calls) \in Nat /\ DOMAIN calls = 1 .. Len(calls)
      /\ \A j \in 1 .. Units : First(j) \in Nat \ {0} /\ Last(j) \in First(j) .. Len(calls)
      /\ Units \in Nat /\ Last(Units) = Len(calls)
  BY UnitsAre
<1>2. \A j, h \in 1 .. Units : j < h => Last(j) < First(h)
  BY UnitsOrder
<1> DEFINE L == Last(i)
           Dead(k) == \A o \in calls[k].outs : DOMAIN Whole(<<k, o>>) = {}
           S == {n \in Nat : \A k \in 1 .. L : L - k <= n => Dead(k)}
<1>3. L \in Nat /\ L > 0 /\ L \in DOMAIN calls
  BY <1>1
<1>4. ASSUME NEW k \in 1 .. L, \A m \in (k + 1) .. L : Dead(m), NEW o \in calls[k].outs
      PROVE  DOMAIN Whole(<<k, o>>) = {}
  <2>1. CASE <<k, o>> = Out(i)
    BY <2>1
  <2>2. CASE <<k, o>> # Out(i)
    <3>1. k \in DOMAIN calls
      BY <1>1, <1>3
    <3>2. <<k, o>> # Out(Units)
      <4>1. Out(i) = <<L, "out">> /\ Out(Units) = <<Len(calls), "out">>
        BY <1>1 DEF Out
      <4>2. CASE i = Units
        BY <2>2, <4>2
      <4>3. CASE i # Units
        <5>1. i < Units /\ Units \in 1 .. Units
          BY <1>1, <4>3
        <5>2. L < First(Units) /\ First(Units) <= Len(calls) /\ First(Units) \in Nat
          BY <1>1, <1>2, <5>1
        <5> HIDE DEF L
        <5>3. k # Len(calls)
          <6>1. k <= L /\ k \in Nat /\ Len(calls) \in Nat
            BY <1>1, <1>3
          <6> QED BY <1>3, <5>2, <6>1
        <5> QED BY <4>1, <5>3
      <4> QED BY <4>2, <4>3
    <3>3. SumOver(Whole(<<k, o>>), Uses(<<k, o>>, DOMAIN calls))
      BY <3>2, WholeSum
    <3>4. ASSUME NEW u \in Uses(<<k, o>>, DOMAIN calls) PROVE DOMAIN Flow(u) = {}
      <4>1. /\ u = <<u[1], u[2], u[3]>> /\ u[1] \in DOMAIN calls /\ u[2] \in calls[u[1]].outs
            /\ u[3] \in DOMAIN calls[u[1]].ins /\ calls[u[1]].ins[u[3]] = <<k, o>>
            /\ k \in 0 .. (u[1] - 1) /\ u \in AnyUse
        BY <1>1, UsesAre
      <4>2. u[1] <= L
        <5> SUFFICES ASSUME ~(u[1] <= L) PROVE FALSE
          OBVIOUS
        <5>1. PICK j \in 1 .. Units : k \in First(j) .. Last(j)
          BY <3>1, UnitsOrder
        <5>2. j <= i
          <6>1. CASE i < j
            <7>1. Last(i) < First(j)
              BY <1>2, <6>1
            <7> QED BY <1>1, <5>1, <7>1
          <6> QED BY <6>1
        <5>3. Last(j) <= L
          <6>1. CASE j = i
            BY <1>1, <6>1
          <6>2. CASE j < i
            <7>1. Last(j) < First(i) /\ First(i) <= Last(i)
              BY <1>1, <1>2, <6>2
            <7> QED BY <1>1, <7>1
          <6> QED BY <5>2, <6>1, <6>2
        <5>4. u[1] > Last(j)
          BY <1>1, <1>3, <4>1, <5>3
        <5>5. <<k, o>> = Out(j) /\ j < Units /\ u[1] \in First(j + 1) .. Last(j + 1)
          BY <4>1, <5>1, <5>4, Crossing
        <5>6. j # i
          BY <2>2, <5>5
        <5>7. j + 1 \in 1 .. Units /\ j + 1 <= i
          BY <1>1, <5>2, <5>5, <5>6
        <5>8. Last(j + 1) <= L
          <6>1. CASE j + 1 = i
            BY <1>1, <6>1
          <6>2. CASE j + 1 < i
            <7>1. Last(j + 1) < First(i) /\ First(i) <= Last(i)
              BY <1>1, <1>2, <5>7, <6>2
            <7> QED BY <1>1, <5>7, <7>1
          <6> QED BY <1>1, <5>7, <6>1, <6>2
        <5> QED BY <1>1, <1>3, <4>1, <5>5, <5>7, <5>8
      <4>3. u[1] \in (k + 1) .. L
        BY <1>1, <1>3, <4>1, <4>2
      <4>4. DOMAIN Whole(<<u[1], u[2]>>) = {}
        BY <1>4, <4>1, <4>3
      <4> QED BY <4>1, <4>4, EmptyFlow
    <3> QED BY <3>3, <3>4 DEF SumOver
  <2> QED BY <2>1, <2>2
<1> HIDE DEF L, Dead
<1>5. 0 \in S
  <2> SUFFICES ASSUME NEW k \in 1 .. L, L - k <= 0 PROVE Dead(k)
    OBVIOUS
  <2>1. (k + 1) .. L = {}
    BY <1>3
  <2> QED BY <1>4, <2>1 DEF Dead
<1>6. ASSUME NEW n \in Nat, n \in S PROVE n + 1 \in S
  <2> SUFFICES ASSUME NEW k \in 1 .. L, L - k <= n + 1 PROVE Dead(k)
    OBVIOUS
  <2>1. \A m \in (k + 1) .. L : m \in 1 .. L /\ L - m <= n
    BY <1>3
  <2>2. \A m \in (k + 1) .. L : Dead(m)
    BY <1>6, <2>1
  <2> QED BY <1>4, <2>2 DEF Dead
<1>7. L \in S
  <2> HIDE DEF S
  <2> QED BY <1>3, <1>5, <1>6, EveryNatural
<1>8. \A k \in 1 .. L : Dead(k)
  BY <1>3, <1>7
<1>9. ASSUME NEW u \in AnyUse, u[1] <= Last(i), u[2] \in calls[u[1]].outs PROVE DOMAIN Flow(u) = {}
  <2>1. u[1] \in DOMAIN calls
    BY <1>9 DEF AnyUse
  <2>2. u[1] \in 1 .. L
    BY <1>1, <1>3, <1>9, <2>1 DEF L
  <2>3. DOMAIN Whole(<<u[1], u[2]>>) = {}
    BY <1>8, <1>9, <2>2 DEF Dead
  <2> QED BY <2>3, EmptyFlow
<1> QED BY <1>9

\* A layer that was let through: its output is not recorded with its own
\* parameters frozen.
Frozen(i) == NodeOf(Out(i), First(i)) \notin Tracked(First(i), Last(i), trainable \ Own(i))

\* A pass that has run every node has given every leaf what it owes.
LEMMA RanOwes ==
  ASSUME Stacked, NEW first, NEW last, Region(first, last), NEW leaves, Leaves(leaves, first),
         NEW c, Owes(first, last, Tracked(first, last, leaves), {}, grads, c)
  PROVE  /\ \A p \in trainable \cap leaves : SumOver(HeldIn(grads, p), Uses(p, first .. last))
         /\ Input \in leaves => SumOver(HeldIn(grads, Input), Uses(<<first - 1, "out">>, first .. last))
<1> DEFINE T == Tracked(first, last, leaves)
           root == NodeOf(<<last, "out">>, first)
<1>1. /\ Called /\ first \in Nat \ {0} /\ last \in first .. Len(calls) /\ Len(calls) \in Nat
      /\ leaves \subseteq T /\ \A n \in leaves : n[1] = 0
  BY PassIs DEF TrackedOn, Leaves
<1>2. root[1] # 0
  <2>1. root \in NodesOf(first, last)
    BY <1>1, RootNode
  <2>2. \A n \in NodesOf(first, last) : n[1] \in first .. last
    BY DEF NodesOf
  <2>3. root[1] \in first .. last
    BY <2>1, <2>2
  <2> HIDE DEF root
  <2> QED BY <1>1, <2>3
<1>3. ASSUME NEW p \in leaves, ~Inner(p) PROVE SumOver(HeldIn(grads, p), Uses(ValueOf(p, first), first .. last))
  <2>1. OwedTo(p, first, last, {}, grads) /\ p # root
    BY <1>1, <1>2 DEF Owes
  <2> HIDE DEF root
  <2>2. {u \in Uses(ValueOf(p, first), first .. last) : Taker(u) \notin {}} = Uses(ValueOf(p, first), first .. last)
    OBVIOUS
  <2>3. SumOver(HeldIn(grads, p), {u \in Uses(ValueOf(p, first), first .. last) : Taker(u) \notin {}})
    BY <1>3, <2>1 DEF OwedTo, root
  <2> QED BY <2>2, <2>3
<1>4. /\ \A p \in trainable : ~Inner(p) /\ ValueOf(p, first) = p
      /\ ~Inner(Input) /\ ValueOf(Input, first) = <<first - 1, "out">>
  BY Trainables DEF ValueOf
<1>5. ASSUME NEW p \in trainable \cap leaves PROVE SumOver(HeldIn(grads, p), Uses(p, first .. last))
  BY <1>3, <1>4
<1>6. ASSUME Input \in leaves PROVE SumOver(HeldIn(grads, Input), Uses(<<first - 1, "out">>, first .. last))
  BY <1>3, <1>4, <1>6
<1> QED BY <1>5, <1>6

\* A parameter that is not its module's gets nothing from a unit below the
\* last: a layer was let through, and what comes before the stack is a module's.
LEMMA OthersUses ==
  ASSUME Stacked, NEW i \in 1 .. (Units - 1), i \in Layers => Frozen(i), NEW p \in trainable \ Own(i)
  PROVE  \A u \in Uses(p, First(i) .. Last(i)) : DOMAIN Flow(u) = {}
<1>1. /\ Called /\ Len(calls) \in Nat /\ DOMAIN calls = 1 .. Len(calls)
      /\ Units \in Nat /\ Units >= 2 /\ i \in 1 .. Units
      /\ First(i) \in Nat \ {0} /\ Last(i) \in First(i) .. Len(calls) /\ First(1) = 1
  BY UnitsAre
<1>2. CASE i = 1
  <2>1. PICK m \in Models : calls = m.calls /\ cuts = m.cuts /\ own = m.own /\ trainable \subseteq {<<0, q>> : q \in m.leaves}
    BY DEF Stacked
  <2>2. PICK q \in m.leaves : p = <<0, q>>
    BY <2>1
  <2>3. \A k \in DOMAIN m.calls : \A s \in DOMAIN m.calls[k].ins :
          k <= m.cuts[1] /\ m.calls[k].ins[s][1] = 0 /\ m.calls[k].ins[s][2] \in m.leaves => m.calls[k].ins[s][2] \in m.own[1]
    <3>1. IsModel(m)
      BY ModelsAssumption
    <3> QED BY <3>1 DEF IsModel
  <2>4. ASSUME NEW u \in Uses(p, First(i) .. Last(i)) PROVE FALSE
    <3>1. u[1] \in First(i) .. Last(i) /\ u[3] \in DOMAIN calls[u[1]].ins /\ calls[u[1]].ins[u[3]] = p
      <4>1. First(i) .. Last(i) \in SUBSET DOMAIN calls
        BY <1>1
      <4> QED BY <1>1, <4>1, UsesAre
    <3>2. u[1] \in DOMAIN calls /\ u[1] <= cuts[1]
      BY <1>1, <1>2, <3>1 DEF Last
    <3>3. p[1] = 0 /\ p[2] = q
      BY <2>2
    <3>4. q \in own[1]
      BY <2>1, <2>3, <3>1, <3>2, <3>3
    <3>5. p \in Own(1)
      BY <2>2, <3>4 DEF Own
    <3> QED BY <1>2, <3>5
  <2> QED BY <2>4
<1>3. CASE i # 1
  <2>1. i \in Layers
    BY <1>1, <1>3 DEF Layers
  <2> DEFINE leaves == trainable \ Own(i)
             f == First(i)
             l == Last(i)
  <2>2. Leaves(leaves, f) /\ Region(f, l)
    BY <1>1, Trainables, UnitRegion
  <2>3. NodeOf(<<l, "out">>, f) \notin Tracked(f, l, leaves)
    BY <2>1 DEF Frozen, Out
  <2>4. p \in Tracked(f, l, leaves) /\ NodeOf(p, f) = p
    BY <2>2, PassIs, Trainables DEF TrackedOn
  <2> HIDE DEF leaves, f, l
  <2>5. Needed({}, Tracked(f, l, leaves), NodeOf(<<l, "out">>, f), f)
    BY <2>3 DEF Needed
  <2>6. \A u \in Uses(p, f .. l) : Taker(u) \notin {} => DOMAIN Flow(u) = {}
    BY <2>2, <2>4, <2>5, DeadIs
  <2> QED BY <2>6 DEF f, l
<1> QED BY <1>2, <1>3

\* What has been collected, with what the pass has given besides.
LEMMA CollectAdds ==
  ASSUME Stacked, NEW i, Collect(i), NEW p \in trainable,
         NEW U \in SUBSET AnyUse, NEW W \in SUBSET AnyUse, U \cap W = {},
         SumOver(SeenOf(<<0, p>>), U), SumOver(HeldIn(grads, p), W),
         i # Units /\ p \notin Own(i) => \A u \in W : DOMAIN Flow(u) = {}
  PROVE  SumOver(HeldIn(seen', <<0, p>>), U \cup W)
<1> DEFINE G == DOMAIN grads \cap trainable \cap (IF i = Units THEN trainable ELSE Own(i))
           f == [q \in G |-> grads[q]]
           n == <<0, p>>
<1>1. seen' = Register(seen, Kept(0, f))
  BY DEF Collect
<1>2. DOMAIN f = G
  OBVIOUS
<1>3. DOMAIN Kept(0, f) = {<<0, q>> : q \in G} /\ (p \in G => Kept(0, f)[n] = grads[p])
  BY DEF Kept
<1>4. n \in DOMAIN Kept(0, f) <=> p \in G
  BY <1>3
<1>5. HeldIn(seen', n) = IF p \notin G THEN SeenOf(n)
                         ELSE IF n \notin DOMAIN seen THEN grads[p] ELSE seen[n] (+) grads[p]
  <2> HIDE DEF f, G, n
  <2>1. \A m : m \in DOMAIN seen' <=> m \in DOMAIN seen \/ m \in DOMAIN Kept(0, f)
    BY <1>1 DEF Register
  <2>2. n \in DOMAIN seen' => seen'[n] = IF n \notin DOMAIN Kept(0, f) THEN seen[n]
                         ELSE IF n \notin DOMAIN seen THEN Kept(0, f)[n] ELSE seen[n] (+) Kept(0, f)[n]
    BY <1>1 DEF Register
  <2> QED BY <1>3, <1>4, <2>1, <2>2 DEF HeldIn, SeenOf
<1>6. Bag(SeenOf(n)) /\ Bag(HeldIn(grads, p))
  BY DEF SumOver
<1>7. CASE p \in G
  <2>1. HeldIn(grads, p) = grads[p]
    BY <1>7 DEF HeldIn
  <2>2. HeldIn(seen', n) = SeenOf(n) (+) HeldIn(grads, p)
    <3>1. CASE n \in DOMAIN seen
      BY <1>5, <1>7, <2>1, <3>1 DEF SeenOf
    <3>2. CASE n \notin DOMAIN seen
      <4>1. SeenOf(n) = EmptyBag
        BY <3>2 DEF SeenOf
      <4>2. EmptyBag (+) HeldIn(grads, p) = HeldIn(grads, p)
        BY <1>6, AddNone
      <4> QED BY <1>5, <1>7, <2>1, <3>2, <4>1, <4>2
    <3> QED BY <3>1, <3>2
  <2>3. SumOver(SeenOf(n) (+) HeldIn(grads, p), U \cup W)
    BY SumJoin
  <2> QED BY <2>2, <2>3
<1>8. CASE p \notin G
  <2>1. HeldIn(seen', n) = SeenOf(n)
    BY <1>5, <1>8
  <2>2. \A u \in W : DOMAIN Flow(u) = {}
    <3>1. CASE p \in DOMAIN grads
      BY <1>8, <3>1
    <3>2. CASE p \notin DOMAIN grads
      <4>1. HeldIn(grads, p) = EmptyBag
        BY <3>2 DEF HeldIn
      <4>2. DOMAIN HeldIn(grads, p) = {}
        BY <4>1, NoneIsBag
      <4>3. UNION {DOMAIN Flow(u) : u \in W} = {}
        BY <4>2 DEF SumOver
      <4> QED BY <4>3
    <3> QED BY <3>1, <3>2
  <2>3. SumOver(SeenOf(n), U \cup W)
    <3>1. \A u \in (U \cup W) \ U : DOMAIN Flow(u) = {}
      BY <2>2
    <3>2. U \subseteq U \cup W
      OBVIOUS
    <3>3. SumOver(SeenOf(n), U)
      OBVIOUS
    <3> DEFINE b == SeenOf(n)
               V == U \cup W
    <3> HIDE DEF b, V, n
    <3> QED BY <3>1, <3>2, <3>3, SumDead DEF b, V
  <2> QED BY <2>1, <2>3
<1> QED BY <1>7, <1>8

\* What is collected is of trainable parameters.
LEMMA CollectKeys ==
  ASSUME NEW i, Collect(i), DOMAIN seen \subseteq {0} \X trainable
  PROVE  DOMAIN seen' \subseteq {0} \X trainable
<1> DEFINE G == DOMAIN grads \cap trainable \cap (IF i = Units THEN trainable ELSE Own(i))
           f == [q \in G |-> grads[q]]
<1>1. seen' = Register(seen, Kept(0, f))
  BY DEF Collect
<1>2. DOMAIN Kept(0, f) = {<<0, q>> : q \in G}
  BY DEF Kept
<1> HIDE DEF f
<1>3. DOMAIN seen' = DOMAIN seen \cup DOMAIN Kept(0, f)
  BY <1>1 DEF Register
<1> QED BY <1>2, <1>3

\* What is tracked comes from a leaf a call takes.
LEMMA LeafTaken ==
  ASSUME Stacked, NEW first, NEW last, Region(first, last), NEW leaves, leaves \subseteq trainable,
         NEW n \in NodesOf(first, last), n \in Tracked(first, last, leaves)
  PROVE  \E k \in first .. last : \E s \in DOMAIN calls[k].ins : calls[k].ins[s] \in leaves
<1> SUFFICES ASSUME \A k \in first .. last : \A s \in DOMAIN calls[k].ins : calls[k].ins[s] \notin leaves
             PROVE  FALSE
  OBVIOUS
<1> DEFINE T == Tracked(first, last, leaves)
           N == NodesOf(first, last)
           S == {j \in Nat : \A m \in N : Rank(m) <= j => m \notin T}
<1>1. /\ Called /\ first \in Nat \ {0} /\ last \in first .. Len(calls) /\ Len(calls) \in Nat
      /\ TrackedOn(T, N, leaves, first)
      /\ \A m \in N : /\ m[1] \in first .. last /\ m \in NodesOf(first, Len(calls)) /\ m[1] > 0
                      /\ m = <<m[1], m[2]>>
      /\ \A p \in leaves : p[1] = 0 /\ p # Input
  <2>1. Leaves(leaves, first)
    BY Trainables
  <2> QED BY <2>1, PassIs, Trainables
<1>2. ASSUME NEW m \in N, m \in T PROVE \E p \in N : p \in T /\ Rank(p) < Rank(m)
  <2>1. PICK p \in Elements(Parents(m, first)) : p \in T
    BY <1>1, <1>2 DEF TrackedOn
  <2>2. Rank(p) < Rank(m) /\ p[1] \in Nat
    BY <1>1, ParentsBefore
  <2>3. CASE p \in N
    BY <2>1, <2>2, <2>3
  <2>4. CASE p \notin N
    <3>1. p \in leaves /\ p[1] = 0
      BY <1>1, <2>1, <2>4 DEF TrackedOn
    <3>2. PICK s \in DOMAIN Parents(m, first) : p = Parents(m, first)[s]
      BY <2>1 DEF Elements
    <3>3. p # <<m[1], "node">>
      BY <1>1, <3>1
    <3>4. s \in DOMAIN calls[m[1]].ins /\ p = NodeOf(calls[m[1]].ins[s], first)
      BY <1>1, <3>2, <3>3, ParentTakes
    <3> DEFINE v == calls[m[1]].ins[s]
    <3>5. p = v
      <4>1. CASE v[1] = 0
        BY <3>4, <4>1 DEF NodeOf
      <4>2. CASE v[1] # 0
        <5>1. p # Input
          BY <1>1, <3>1
        <5>2. p = <<v[1], Role(calls[v[1]], v[2])>>
          BY <3>4, <4>2, <5>1 DEF NodeOf
        <5>3. p[1] = v[1]
          BY <5>2
        <5> QED BY <3>1, <4>2, <5>3
      <4> QED BY <4>1, <4>2
    <3> QED BY <1>1, <3>1, <3>4, <3>5
  <2> QED BY <2>3, <2>4
<1>3. \A m \in N : Rank(m) \in Nat /\ Rank(m) > 0
  <2> SUFFICES ASSUME NEW m \in N PROVE Rank(m) \in Nat /\ Rank(m) > 0
    OBVIOUS
  <2>1. m[1] \in Nat /\ m[1] > 0
    BY <1>1
  <2> QED BY <2>1 DEF Rank
<1> HIDE DEF N, T
<1>4. 0 \in S
  <2> SUFFICES ASSUME NEW m \in N, Rank(m) <= 0 PROVE FALSE
    OBVIOUS
  <2> QED BY <1>3
<1>5. ASSUME NEW j \in Nat, j \in S PROVE j + 1 \in S
  <2> SUFFICES ASSUME NEW m \in N, Rank(m) <= j + 1, m \in T PROVE FALSE
    OBVIOUS
  <2>1. PICK p \in N : p \in T /\ Rank(p) < Rank(m)
    BY <1>2
  <2>2. Rank(p) <= j
    BY <1>3, <2>1
  <2> QED BY <1>5, <2>1, <2>2
<1>6. n \in N /\ n \in T
  BY DEF N, T
<1>7. Rank(n) \in S
  <2> HIDE DEF S
  <2> QED BY <1>3, <1>4, <1>5, <1>6, EveryNatural
<1> QED BY <1>3, <1>6, <1>7

-----------------------------------------------------------------------------
(* What every step keeps.                                                   *)

\* The layers gone through were let through, and the one refused was not.
Accepted ==
  way = "burn" => \A i \in 1 .. Units :
    /\ i \in Layers /\ (stage = "forward" => i < at) /\ stage # "failed" => Frozen(i)
    /\ stage = "failed" /\ i = at => ~Frozen(i)

PassFirst == IF way = "plain" THEN 1 ELSE First(at)
PassLeaves == IF way = "plain" \/ at = 1 THEN trainable ELSE trainable \cup {Input}

\* The pass under way is through the unit at work, or through all of them at
\* once, and what is left of it has been given what it is owed.
Passing ==
  way # "mlx" /\ stage = "pass" =>
    /\ at = 0 => DOMAIN grads = {}
    /\ at > 0 => \A first, last, leaves, tracked, T, g, c :
         /\ first = PassFirst /\ last = Last(at) /\ leaves = PassLeaves
         /\ tracked = Tracked(first, last, leaves) /\ T = DOMAIN tape /\ g = grads /\ c = cells
         => /\ span.first = first /\ span.tracked = tracked
            /\ Owes(first, last, tracked, T, g, c)

\* The calls whose uses have been collected, and what has been.
Collected ==
  IF stage = "done" THEN DOMAIN calls
  ELSE IF way = "burn" /\ stage = "pass" THEN (Last(at) + 1) .. Len(calls) ELSE {}

Summed ==
  way # "mlx" =>
    /\ DOMAIN seen \subseteq {0} \X trainable
    /\ \A p \in trainable : \A b, U : b = SeenOf(<<0, p>>) /\ U = Uses(p, Collected) => SumOver(b, U)

PlainInv == ReadyInv /\ Accepted /\ Passing /\ Summed

\* A pass begun, or gone on with.
LEMMA PassingNext ==
  ASSUME calls' = calls, cuts' = cuts, trainable' = trainable, way' = way,
         NEW i, at' = i, i # 0,
         NEW first, first = (IF way = "plain" THEN 1 ELSE First(i)), NEW last, last = Last(i),
         NEW leaves, leaves = (IF way = "plain" \/ i = 1 THEN trainable ELSE trainable \cup {Input}),
         span'.first = first, span'.tracked = Tracked(first, last, leaves),
         Owes(first, last, Tracked(first, last, leaves), DOMAIN tape', grads', cells')
  PROVE  Passing'
<1>1. PassFirst' = first /\ Last(at)' = last /\ PassLeaves' = leaves
  BY DEF PassFirst, PassLeaves, First, Last, Input
<1>2. /\ \A f, l, v : Tracked(f, l, v)' = Tracked(f, l, v)
      /\ \A f, l, t, T, g, c : Owes(f, l, t, T, g, c)' <=> Owes(f, l, t, T, g, c)
  BY OwesStays
<1>3. ASSUME NEW f, NEW l, NEW v, NEW t, NEW T, NEW g, NEW c,
             f = PassFirst', l = Last(at)', v = PassLeaves',
             t = Tracked(f, l, v)', T = DOMAIN tape', g = grads', c = cells'
      PROVE  span'.first = f /\ span'.tracked = t /\ Owes(f, l, t, T, g, c)'
  <2>1. f = first /\ l = last /\ v = leaves
    BY <1>1, <1>3
  <2>2. t = Tracked(f, l, v)
    BY <1>2, <1>3
  <2>3. Owes(f, l, t, T, g, c)
    BY <1>3, <2>1, <2>2
  <2> QED BY <1>2, <2>1, <2>2, <2>3
<1>4. ~(at' = 0)
  OBVIOUS
<1> QED BY ONLY <1>3, <1>4 DEF Passing

\* A pass of which nothing changes.
LEMMA PassingKeeps ==
  ASSUME Passing, calls' = calls, cuts' = cuts, trainable' = trainable, way' = way,
         at' = at, stage' = stage, UNCHANGED <<span, tape, grads, cells>>
  PROVE  Passing'
<1>1. PassFirst' = PassFirst /\ Last(at)' = Last(at) /\ PassLeaves' = PassLeaves
  BY DEF PassFirst, PassLeaves, First, Last, Input
<1>2. /\ \A f, l, v : Tracked(f, l, v)' = Tracked(f, l, v)
      /\ \A f, l, t, T, g, c : Owes(f, l, t, T, g, c)' <=> Owes(f, l, t, T, g, c)
  BY OwesStays
<1>3. ASSUME way' # "mlx", stage' = "pass", at' > 0, NEW f, NEW l, NEW v, NEW t, NEW T, NEW g, NEW c,
             f = PassFirst', l = Last(at)', v = PassLeaves',
             t = Tracked(f, l, v)', T = DOMAIN tape', g = grads', c = cells'
      PROVE  span'.first = f /\ span'.tracked = t /\ Owes(f, l, t, T, g, c)'
  <2>1. f = PassFirst /\ l = Last(at) /\ v = PassLeaves /\ t = Tracked(f, l, v) /\ T = DOMAIN tape
        /\ g = grads /\ c = cells
    BY <1>1, <1>2, <1>3
  <2>2. span.first = f /\ span.tracked = t /\ Owes(f, l, t, T, g, c)
    BY <1>3, <2>1 DEF Passing
  <2> QED BY <1>2, <2>2
<1> QED BY <1>3 DEF Passing

\* What has been collected, after a step.
LEMMA SummedNext ==
  ASSUME calls' = calls, cuts' = cuts, trainable' = trainable,
         NEW J, Collected' = J, DOMAIN seen' \subseteq {0} \X trainable,
         \A p \in trainable : SumOver(HeldIn(seen', <<0, p>>), Uses(p, J))
  PROVE  Summed'
<1>1. /\ \A b, U : SumOver(b, U)' <=> SumOver(b, U)
      /\ \A v, K : Uses(v, K)' = Uses(v, K)
  BY OwesStays
<1>2. ASSUME NEW p \in trainable, NEW b, NEW U, b = SeenOf(<<0, p>>)', U = Uses(p, Collected)'
      PROVE  SumOver(b, U)'
  <2>1. b = HeldIn(seen', <<0, p>>)
    BY <1>2 DEF SeenOf, HeldIn
  <2>2. Uses(p, Collected)' = Uses(p, J)
    BY DEF Uses
  <2>3. SumOver(b, U)
    BY <1>2, <2>1, <2>2
  <2> QED BY <1>1, <2>3
<1> QED BY <1>2 DEF Summed

\* Which layers were let through is of the stack.
LEMMA FrozenStays ==
  ASSUME calls' = calls, cuts' = cuts, own' = own, trainable' = trainable
  PROVE  \A i : Frozen(i)' <=> Frozen(i)
<1> SUFFICES ASSUME NEW i PROVE Frozen(i)' <=> Frozen(i)
  OBVIOUS
<1> DEFINE f == First(i)
           l == Last(i)
           v == trainable \ Own(i)
<1>1. f' = f /\ l' = l /\ v' = v
  BY DEF First, Last, Own
<1>2. NodeOf(Out(i), f)' = NodeOf(Out(i), f)
  BY DEF NodeOf, Out, First, Last
<1>3. Tracked(f, l, v)' = Tracked(f, l, v)
  BY DEF Tracked, Parents, NodeOf, First, Last, Own
<1> QED BY <1>2, <1>3 DEF Frozen

\* What a step leaves as it is.
StackKept == calls' = calls /\ cuts' = cuts /\ way' = way /\ own' = own /\ trainable' = trainable

\* What is trainable, collected when the last unit's pass or a unit's has run.
LEMMA PassCollects ==
  ASSUME PlainInv, way # "mlx", stage = "pass", Ran, at \in 1 .. Units, Collect(at)
  PROVE  /\ DOMAIN seen' \subseteq {0} \X trainable
         /\ \A p \in trainable : SumOver(HeldIn(seen', <<0, p>>), Uses(p, PassFirst .. Len(calls)))
         /\ at > 1 /\ way = "burn" => InputGradient = Whole(Out(at - 1))
<1> DEFINE f == PassFirst
           l == Last(at)
           v == PassLeaves
           T == Tracked(f, l, v)
<1>1. /\ Called /\ Len(calls) \in Nat /\ DOMAIN calls = 1 .. Len(calls)
      /\ Units \in Nat /\ Units >= 2 /\ Last(Units) = Len(calls) /\ First(1) = 1
      /\ First(at) \in Nat \ {0} /\ l \in First(at) .. Len(calls)
      /\ \A i \in 2 .. Units : First(i) = Last(i - 1) + 1
      /\ \A i \in 1 .. Units : Last(i) \in Nat \ {0}
  <2>1. /\ Called /\ Len(calls) \in Nat /\ DOMAIN calls = 1 .. Len(calls)
        /\ Units \in Nat /\ Units >= 2 /\ Last(Units) = Len(calls) /\ First(1) = 1
        /\ \A i \in 1 .. Units : First(i) \in Nat \ {0} /\ Last(i) \in First(i) .. Len(calls)
        /\ \A i \in 2 .. Units : First(i) = Last(i - 1) + 1
    BY UnitsAre DEF PlainInv, ReadyInv
  <2>2. \A i \in 1 .. Units : Last(i) \in Nat \ {0}
    BY <2>1
  <2> QED BY <2>1, <2>2
<1>2. Stacked /\ Placed /\ way \in {"plain", "burn"} /\ (way = "plain" => at = Units)
  BY <1>1 DEF PlainInv, ReadyInv, Placed
<1>3. DOMAIN tape = {}
  BY DEF Ran
<1>4. at > 1 => First(at) = Last(at - 1) + 1 /\ Last(at - 1) \in Nat \ {0} /\ at \in 2 .. Units /\ at - 1 \in 1 .. (Units - 1)
  <2> SUFFICES ASSUME at > 1
               PROVE  First(at) = Last(at - 1) + 1 /\ Last(at - 1) \in Nat \ {0} /\ at \in 2 .. Units /\ at - 1 \in 1 .. (Units - 1)
    OBVIOUS
  <2>1. at \in 2 .. Units /\ at - 1 \in 1 .. Units /\ at - 1 \in 1 .. (Units - 1)
    BY <1>1
  <2> QED BY <1>1, <2>1
<1>5. f \in Nat \ {0} /\ l \in f .. Len(calls) /\ Region(f, l) /\ Leaves(v, f) /\ trainable \subseteq v
  <2>1. CASE way = "plain"
    <3>1. f = 1 /\ v = trainable /\ l = Last(Units)
      BY <1>2, <2>1 DEF PassFirst, PassLeaves
    <3>2. Region(1, Last(Units)) /\ Leaves(trainable, 1)
      BY <1>2, UnitRegion, Trainables
    <3>3. Last(Units) \in 1 .. Len(calls)
      BY <1>1
    <3> QED BY <3>1, <3>2, <3>3
  <2>2. CASE way = "burn"
    <3>1. f = First(at) /\ v = IF at = 1 THEN trainable ELSE trainable \cup {Input}
      BY <2>2 DEF PassFirst, PassLeaves
    <3>2. Region(First(at), l)
      BY <1>2, UnitRegion
    <3>3. Leaves(v, f)
      <4>1. CASE at = 1
        BY <1>2, <3>1, <4>1, Trainables
      <4>2. CASE at # 1
        <5>1. First(at) > 1
          BY <1>1, <1>4, <4>2
        <5> QED BY <1>1, <1>2, <3>1, <4>2, <5>1, Trainables
      <4> QED BY <4>1, <4>2
    <3> QED BY <1>1, <3>1, <3>2, <3>3
  <2> QED BY <1>2, <2>1, <2>2
<1>6. Owes(f, l, T, {}, grads, cells)
  <2>1. Passing
    BY DEF PlainInv
  <2>2. Owes(f, l, T, DOMAIN tape, grads, cells)
    BY <2>1 DEF Passing
  <2> QED BY <1>3, <2>2
<1>7. \A p \in trainable : p = <<0, p[2]>> /\ p[1] = 0 /\ \A i \in 1 .. Units : p # Out(i)
  BY <1>2, Trainables
<1> HIDE DEF f, l, v, T
<1>8. /\ \A p \in trainable : SumOver(HeldIn(grads, p), Uses(p, f .. l))
      /\ Input \in v => SumOver(HeldIn(grads, Input), Uses(<<f - 1, "out">>, f .. l))
  <2>1. /\ \A p \in trainable \cap v : SumOver(HeldIn(grads, p), Uses(p, f .. l))
        /\ Input \in v => SumOver(HeldIn(grads, Input), Uses(<<f - 1, "out">>, f .. l))
    BY <1>2, <1>5, <1>6, RanOwes DEF T
  <2> QED BY <1>5, <2>1
<1>9. ASSUME NEW p \in trainable PROVE SumOver(HeldIn(seen', <<0, p>>), Uses(p, f .. Len(calls)))
  <2> DEFINE U == Uses(p, Collected)
             W == Uses(p, f .. l)
  <2>1. /\ Collected \in SUBSET DOMAIN calls /\ f .. l \in SUBSET DOMAIN calls
        /\ Collected \cap (f .. l) = {} /\ Collected \cup (f .. l) = f .. Len(calls)
    <3>1. CASE way = "plain"
      <4>1. Collected = {} /\ l = Len(calls)
        BY <1>1, <1>2, <3>1 DEF Collected, l
      <4> QED BY <1>1, <1>5, <4>1
    <3>2. CASE way = "burn"
      <4>1. Collected = (l + 1) .. Len(calls)
        BY <3>2 DEF Collected, l
      <4> QED BY <1>1, <1>5, <4>1
    <3> QED BY <1>2, <3>1, <3>2
  <2>2. U \in SUBSET AnyUse /\ W \in SUBSET AnyUse /\ U \cup W = Uses(p, f .. Len(calls)) /\ U \cap W = {}
    <3>1. U \subseteq AnyUse /\ W \subseteq AnyUse
      <4>1. \A K \in SUBSET DOMAIN calls : Uses(p, K) \subseteq AnyUse
        <5>1. Called
          BY <1>1
        <5> QED BY <5>1, UsesAre
      <4> QED BY <2>1, <4>1
    <3>2. U \cup W = Uses(p, f .. Len(calls))
      BY <2>1, UsesSplit
    <3>3. \A u \in U : u[1] \in Collected
      BY UsesSplit
    <3>4. \A u \in W : u[1] \in f .. l
      BY UsesSplit
    <3> QED BY <2>1, <3>1, <3>2, <3>3, <3>4
  <2>3. SumOver(SeenOf(<<0, p>>), U)
    BY <1>2 DEF PlainInv, Summed
  <2>4. SumOver(HeldIn(grads, p), W)
    BY <1>8
  <2>5. at # Units /\ p \notin Own(at) => \A u \in W : DOMAIN Flow(u) = {}
    <3> SUFFICES ASSUME at # Units, p \notin Own(at) PROVE \A u \in W : DOMAIN Flow(u) = {}
      OBVIOUS
    <3>1. way = "burn" /\ at \in 1 .. (Units - 1)
      BY <1>1, <1>2
    <3>2. at \in Layers => Frozen(at)
      BY <1>1, <3>1 DEF PlainInv, Accepted
    <3>3. \A u \in Uses(p, First(at) .. Last(at)) : DOMAIN Flow(u) = {}
      BY <1>2, <3>1, <3>2, OthersUses
    <3> QED BY <3>1, <3>3 DEF f, l, PassFirst
  <2> HIDE DEF U, W
  <2>6. SumOver(HeldIn(seen', <<0, p>>), U \cup W)
    BY <1>2, <2>2, <2>3, <2>4, <2>5, CollectAdds
  <2> QED BY <2>2, <2>6
<1>10. DOMAIN seen' \subseteq {0} \X trainable
  <2>1. DOMAIN seen \subseteq {0} \X trainable
    BY <1>2 DEF PlainInv, Summed
  <2> QED BY <2>1, CollectKeys
<1>11. ASSUME at > 1, way = "burn" PROVE InputGradient = Whole(Out(at - 1))
  <2>1. Input \in v /\ f = First(at) /\ f - 1 = Last(at - 1) /\ f > 1
    <3>1. Input \in v /\ f = First(at)
      BY <1>11 DEF v, f, PassLeaves, PassFirst
    <3> QED BY <1>4, <1>11, <3>1
  <2>2. InputGradient = HeldIn(grads, Input) /\ Out(at - 1) = <<f - 1, "out">>
    BY <2>1 DEF InputGradient, HeldIn, Out
  <2>3. Uses(<<f - 1, "out">>, DOMAIN calls) = Uses(<<f - 1, "out">>, f .. l)
    BY <1>5, <2>1 DEF Region
  <2>4. Out(at - 1) # Out(Units)
    <3>1. Last(at - 1) # Last(Units)
      BY <1>1, <1>4, <1>11
    <3> QED BY <3>1 DEF Out
  <2>5. SumOver(Whole(Out(at - 1)), Uses(Out(at - 1), DOMAIN calls))
    BY <1>2, <2>4, WholeSum
  <2>6. SumOver(InputGradient, Uses(Out(at - 1), DOMAIN calls))
    BY <1>8, <2>1, <2>2, <2>3
  <2> QED BY <2>5, <2>6, SumUnique
<1> QED BY <1>9, <1>10, <1>11 DEF f

\* The step starts with nothing collected.
LEMMA PlainFirst ==
  ASSUME Init
  PROVE  PlainInv
<1>1. ReadyInv
  BY ReadyFirst
<1>2. PICK m \in Models, w \in {"plain", "burn", "mlx"} :
        /\ calls = m.calls /\ cuts = m.cuts /\ way = w
        /\ tape = [n \in {} |-> 0] /\ grads = tape /\ seen = tape
        /\ stage = IF w = "plain" THEN "pass" ELSE "forward"
        /\ at = IF w = "plain" THEN 0 ELSE 2
  BY DEF Init
<1>3. Accepted
  <2> SUFFICES ASSUME way = "burn", NEW i \in 1 .. Units
               PROVE  /\ i \in Layers /\ (stage = "forward" => i < at) /\ stage # "failed" => Frozen(i)
                      /\ stage = "failed" /\ i = at => ~Frozen(i)
    BY DEF Accepted
  <2>1. stage = "forward" /\ at = 2
    BY <1>2
  <2>2. i \in Layers => ~(i < 2)
    <3>1. Units \in Nat
      BY <1>1, UnitsAre DEF ReadyInv
    <3> QED BY <3>1 DEF Layers
  <2> QED BY <2>1, <2>2
<1>4. Passing
  <2>1. DOMAIN grads = {}
    BY <1>2
  <2>2. stage = "pass" => at = 0
    BY <1>2
  <2> QED BY <2>1, <2>2 DEF Passing
<1>5. Summed
  <2>1. DOMAIN seen = {}
    BY <1>2
  <2>2. Collected = {}
    BY <1>2 DEF Collected
  <2>3. \A p : SeenOf(<<0, p>>) = EmptyBag
    BY <2>1 DEF SeenOf
  <2>4. \A p : Uses(p, Collected) = {}
    BY <2>2 DEF Uses
  <2>5. SumOver(EmptyBag, {})
    BY SumNone
  <2> QED BY <2>1, <2>3, <2>4, <2>5 DEF Summed
<1> QED BY <1>1, <1>3, <1>4, <1>5 DEF PlainInv

\* A layer let through, or refused.
LEMMA ForwardKeeps ==
  ASSUME PlainInv, ForwardLayer, StackKept
  PROVE  Accepted' /\ Passing' /\ Summed'
<1>1. /\ way = "burn" /\ stage = "forward" /\ at \in Layers /\ way' = "burn" /\ seen' = seen
      /\ IF ~Frozen(at) THEN stage' = "failed" /\ at' = at ELSE at' = at + 1 /\ stage' = "forward"
  BY DEF ForwardLayer, StackKept, Frozen
<1>2. \A i : Frozen(i)' <=> Frozen(i)
  BY FrozenStays DEF StackKept
<1>3. Units' = Units /\ Units \in Nat
  <2>1. Stacked
    BY DEF PlainInv, ReadyInv
  <2> QED BY <2>1, UnitsAre DEF StackKept, Units
<1>4. Accepted'
  <2>1. ASSUME NEW i \in 1 .. Units, i \in Layers, stage' = "forward" => i < at', stage' # "failed" PROVE Frozen(i)
    <3>1. at' = at + 1 /\ Frozen(at) /\ at \in Nat /\ i \in Nat
      BY <1>1, <1>3, <2>1 DEF Layers
    <3>2. i < at \/ i = at
      BY <1>1, <2>1, <3>1
    <3>3. i < at => Frozen(i)
      BY <1>1, <2>1 DEF PlainInv, Accepted
    <3> QED BY <3>1, <3>2, <3>3
  <2>2. ASSUME NEW i, stage' = "failed", i = at' PROVE ~Frozen(i)
    BY <1>1, <2>2
  <2>3. Layers' = Layers
    BY <1>3 DEF Layers
  <2> QED BY <1>2, <1>3, <2>1, <2>2, <2>3 DEF Accepted
<1>5. Passing'
  BY <1>1 DEF Passing
<1>6. Summed'
  <2>1. Collected' = {} /\ Collected = {}
    BY <1>1 DEF Collected
  <2>2. /\ DOMAIN seen \subseteq {0} \X trainable
        /\ \A p \in trainable : SumOver(SeenOf(<<0, p>>), Uses(p, {}))
    BY <1>1, <2>1 DEF PlainInv, Summed
  <2>3. \A p \in trainable : SumOver(HeldIn(seen', <<0, p>>), Uses(p, {}))
    BY <1>1, <2>2 DEF SeenOf, HeldIn
  <2> QED BY <1>1, <2>1, <2>2, <2>3, SummedNext DEF StackKept
<1> QED BY <1>4, <1>5, <1>6

\* The loss's own pass starts with the whole gradient of the loss.
LEMMA HeadKeeps ==
  ASSUME PlainInv, HeadPass, StackKept
  PROVE  Accepted' /\ Passing' /\ Summed'
<1>1. /\ way = "burn" /\ stage = "forward" /\ at = Units /\ way' = "burn" /\ seen' = seen
      /\ stage' = "pass" /\ at' = at
      /\ Record(First(at), Last(at), trainable \cup {Input}, Out(at), Seed)
  BY DEF HeadPass, StackKept
<1>2. Stacked
  BY DEF PlainInv, ReadyInv
<1>3. /\ Units \in Nat /\ Units >= 2 /\ Last(Units) = Len(calls) /\ Len(calls) \in Nat
      /\ First(Units) \in Nat /\ First(Units) > 1
  <2>1. /\ Units \in Nat /\ Units >= 2 /\ Last(Units) = Len(calls) /\ Len(calls) \in Nat
        /\ \A i \in 1 .. Units : First(i) \in Nat \ {0} /\ Last(i) \in First(i) .. Len(calls)
        /\ \A i \in 2 .. Units : First(i) = Last(i - 1) + 1
    BY <1>2, UnitsAre
  <2>2. Units \in 2 .. Units /\ Units - 1 \in 1 .. Units /\ Units \in 1 .. Units
    BY <2>1
  <2>3. First(Units) = Last(Units - 1) + 1 /\ Last(Units - 1) \in Nat \ {0}
    <3>1. Last(Units - 1) \in First(Units - 1) .. Len(calls) /\ First(Units - 1) \in Nat \ {0}
      BY <2>1, <2>2
    <3> QED BY <2>1, <2>2, <3>1
  <2> QED BY <2>1, <2>3
<1>4. Accepted'
  <2>1. \A i : Frozen(i)' <=> Frozen(i)
    BY FrozenStays DEF StackKept
  <2>2. Units' = Units /\ Layers' = Layers
    BY DEF StackKept, Units, Layers
  <2>3. \A i \in 1 .. Units : i \in Layers => Frozen(i)
    <3>1. \A i \in Layers : i < at
      BY <1>1, <1>3 DEF Layers
    <3> QED BY <1>1, <3>1 DEF PlainInv, Accepted
  <2> QED BY <1>1, <2>1, <2>2, <2>3 DEF Accepted
<1>5. Passing'
  <2> DEFINE f == First(Units)
             l == Last(Units)
             v == trainable \cup {Input}
  <2>1. Region(f, l) /\ Leaves(v, f)
    <3>1. Units \in 1 .. Units
      BY <1>3
    <3>2. Region(f, l)
      BY <1>2, <3>1, UnitRegion
    <3>3. f \in Nat /\ f > 1
      BY <1>3
    <3> HIDE DEF f
    <3>4. Leaves(v, f)
      BY <1>2, <3>3, Trainables
    <3> QED BY <3>2, <3>4
  <2>2. Whole(<<l, "out">>) = Seed
    BY <1>2, ChainRule DEF Out
  <2>3. Record(f, l, v, <<l, "out">>, Whole(<<l, "out">>))
    BY <1>1, <2>2 DEF Out
  <2> HIDE DEF f, l, v
  <2>4. /\ span' = [first |-> f, tracked |-> Tracked(f, l, v)]
        /\ Owes(f, l, Tracked(f, l, v), DOMAIN tape', grads', cells')
    BY <1>2, <2>1, <2>3, FirstOwes
  <2>5. span'.first = f /\ span'.tracked = Tracked(f, l, v)
    BY <2>4
  <2>6. /\ f = (IF way = "plain" THEN 1 ELSE First(Units)) /\ l = Last(Units) /\ Units # 0 /\ at' = Units
        /\ v = (IF way = "plain" \/ Units = 1 THEN trainable ELSE trainable \cup {Input})
    BY <1>1, <1>3 DEF f, l, v
  <2> QED BY <2>4, <2>5, <2>6, PassingNext DEF StackKept
<1>6. Summed'
  <2>1. Collected = {} /\ Collected' = {}
    <3>1. Collected' = (Last(Units) + 1) .. Len(calls)
      BY <1>1 DEF Collected, StackKept, Last, Units
    <3>2. (Last(Units) + 1) .. Len(calls) = {}
      BY <1>3
    <3>3. Collected = {}
      BY <1>1 DEF Collected
    <3> QED BY <3>1, <3>2, <3>3
  <2>2. /\ DOMAIN seen \subseteq {0} \X trainable
        /\ \A p \in trainable : SumOver(SeenOf(<<0, p>>), Uses(p, {}))
    BY <1>1, <2>1 DEF PlainInv, Summed
  <2>3. \A p \in trainable : SumOver(HeldIn(seen', <<0, p>>), Uses(p, {}))
    BY <1>1, <2>2 DEF SeenOf, HeldIn
  <2> QED BY <1>1, <2>1, <2>2, <2>3, SummedNext DEF StackKept
<1> QED BY <1>4, <1>5, <1>6

\* Once the passes have started, what was let through stays so.
LEMMA AcceptedStays ==
  ASSUME Accepted, StackKept, stage \in {"pass", "done"}, stage' \in {"pass", "done"}
  PROVE  Accepted'
<1>1. \A i : Frozen(i)' <=> Frozen(i)
  BY FrozenStays DEF StackKept
<1>2. Units' = Units /\ Layers' = Layers /\ way' = way
  BY DEF StackKept, Units, Layers
<1>3. way = "burn" => \A i \in 1 .. Units : i \in Layers => Frozen(i)
  BY DEF Accepted
<1> QED BY <1>1, <1>2, <1>3 DEF Accepted

\* A node run.
LEMMA RunKeeps ==
  ASSUME PlainInv, RunNode, StackKept
  PROVE  Accepted' /\ Passing' /\ Summed'
<1>1. stage = "pass" /\ Run /\ way' = way /\ stage' = stage /\ at' = at /\ seen' = seen /\ span' = span
  BY DEF RunNode, Run
<1>2. /\ Stacked /\ Placed /\ Left
      /\ Units \in Nat /\ Units >= 2 /\ Last(Units) = Len(calls) /\ Len(calls) \in Nat
      /\ \A i \in 1 .. Units : First(i) \in Nat \ {0} /\ Last(i) \in First(i) .. Len(calls)
      /\ \A i \in 2 .. Units : First(i) = Last(i - 1) + 1
  BY UnitsAre DEF PlainInv, ReadyInv
<1>3. Accepted'
  BY <1>1, AcceptedStays DEF PlainInv
<1>4. Passing'
  <2>1. CASE way = "mlx"
    BY <1>1, <2>1 DEF Passing
  <2>2. CASE way # "mlx" /\ at = 0
    <3>1. FALSE
      <4>1. PICK n \in DOMAIN tape : n \in DOMAIN grads
        BY <1>1 DEF Run
      <4>2. DOMAIN grads = {}
        BY <1>1, <2>2 DEF PlainInv, Passing
      <4> QED BY <4>1, <4>2
    <3> QED BY <3>1
  <2>3. CASE way # "mlx" /\ at # 0
    <3> DEFINE f == PassFirst
               l == Last(at)
               v == PassLeaves
               T == Tracked(f, l, v)
    <3>1. at \in 1 .. Units /\ (way = "plain" => at = Units)
      BY <1>2, <2>3 DEF Placed
    <3>2. Region(f, l) /\ Leaves(v, f)
      <4>1. CASE way = "plain"
        <5>1. f = 1 /\ v = trainable /\ l = Last(Units)
          BY <3>1, <4>1 DEF PassFirst, PassLeaves
        <5> QED BY <1>2, <5>1, UnitRegion, Trainables
      <4>2. CASE way # "plain"
        <5>1. f = First(at) /\ v = IF at = 1 THEN trainable ELSE trainable \cup {Input}
          BY <4>2 DEF PassFirst, PassLeaves
        <5>2. Region(First(at), l)
          BY <1>2, <3>1, UnitRegion
        <5>3. CASE at = 1
          BY <1>2, <5>1, <5>2, <5>3, Trainables
        <5>4. CASE at # 1
          <6>1. First(at) > 1 /\ First(at) \in Nat
            <7>1. at \in 2 .. Units /\ at - 1 \in 1 .. Units
              BY <1>2, <3>1, <5>4
            <7>2. First(at) = Last(at - 1) + 1 /\ Last(at - 1) \in First(at - 1) .. Len(calls) /\ First(at - 1) \in Nat \ {0}
              BY <1>2, <7>1
            <7> QED BY <1>2, <7>2
          <6> QED BY <1>2, <5>1, <5>2, <5>4, <6>1, Trainables
        <5> QED BY <5>3, <5>4
      <4> QED BY <4>1, <4>2
    <3>3. span.first = f /\ span.tracked = T /\ Owes(f, l, T, DOMAIN tape, grads, cells)
      <4>1. Passing /\ at > 0
        BY <3>1 DEF PlainInv
      <4> QED BY <1>1, <2>3, <4>1 DEF Passing
    <3>4. f = (IF way = "plain" THEN 1 ELSE First(at)) /\ v = (IF way = "plain" \/ at = 1 THEN trainable ELSE trainable \cup {Input})
      BY DEF PassFirst, PassLeaves
    <3> DEFINE i == at
    <3>5. at' = i /\ i # 0 /\ l = Last(i) /\ f = (IF way = "plain" THEN 1 ELSE First(i))
          /\ v = (IF way = "plain" \/ i = 1 THEN trainable ELSE trainable \cup {Input})
      BY <1>1, <2>3, <3>4
    <3> HIDE DEF f, l, v, T, i
    <3>6. Owes(f, l, T, DOMAIN tape', grads', cells')
      BY <1>1, <1>2, <3>2, <3>3, StepOwes DEF T
    <3>7. span'.first = f /\ span'.tracked = Tracked(f, l, v)
      BY <1>1, <3>3 DEF T
    <3>8. Owes(f, l, Tracked(f, l, v), DOMAIN tape', grads', cells')
      BY <3>6 DEF T
    <3> QED BY <3>5, <3>7, <3>8, PassingNext DEF StackKept
  <2> QED BY <2>1, <2>2, <2>3
<1>5. Summed'
  <2>1. CASE way = "mlx"
    BY <1>1, <2>1 DEF Summed
  <2>2. CASE way # "mlx"
    <3> DEFINE J == Collected
    <3>1. Collected' = J
      BY <1>1 DEF Collected, Last, StackKept
    <3>2. /\ DOMAIN seen \subseteq {0} \X trainable
          /\ \A p \in trainable : SumOver(SeenOf(<<0, p>>), Uses(p, J))
      BY <2>2 DEF PlainInv, Summed
    <3>3. \A p \in trainable : SumOver(HeldIn(seen', <<0, p>>), Uses(p, J))
      BY <1>1, <3>2 DEF SeenOf, HeldIn
    <3>4. DOMAIN seen' \subseteq {0} \X trainable
      BY <1>1, <3>2
    <3> HIDE DEF J
    <3> QED BY <3>1, <3>3, <3>4, SummedNext DEF StackKept
  <2> QED BY <2>1, <2>2
<1> QED BY <1>3, <1>4, <1>5

\* Where a unit's output is not recorded, nothing goes to what is trainable in
\* it or below it.
LEMMA NothingLeft ==
  ASSUME Stacked, NEW i \in 1 .. (Units - 1),
         NEW leaves, leaves = trainable \cup (IF i = 1 THEN {} ELSE {Input}),
         NodeOf(Out(i), First(i)) \notin Tracked(First(i), Last(i), leaves)
  PROVE  \A p \in trainable : \A u \in Uses(p, 1 .. Last(i)) : DOMAIN Flow(u) = {}
<1> DEFINE f == First(i)
           l == Last(i)
           T == Tracked(f, l, leaves)
<1>1. /\ Called /\ Len(calls) \in Nat /\ DOMAIN calls = 1 .. Len(calls)
      /\ Units \in Nat /\ Units >= 2 /\ i \in 1 .. Units /\ First(1) = 1
      /\ f \in Nat \ {0} /\ l \in f .. Len(calls) /\ Last(Units) = Len(calls)
      /\ i # 1 => f > 1 /\ f - 1 = Last(i - 1) /\ i - 1 \in 1 .. (Units - 1) /\ Last(i - 1) < Len(calls)
  <2>1. /\ Called /\ Len(calls) \in Nat /\ DOMAIN calls = 1 .. Len(calls)
        /\ Units \in Nat /\ Units >= 2 /\ First(1) = 1 /\ Last(Units) = Len(calls)
        /\ \A j \in 1 .. Units : First(j) \in Nat \ {0} /\ Last(j) \in First(j) .. Len(calls)
        /\ \A j \in 2 .. Units : First(j) = Last(j - 1) + 1
    BY UnitsAre
  <2>2. i \in 1 .. Units
    BY <2>1
  <2>3. ASSUME i # 1
        PROVE  f > 1 /\ f - 1 = Last(i - 1) /\ i - 1 \in 1 .. (Units - 1) /\ Last(i - 1) < Len(calls)
    <3>1. i \in 2 .. Units /\ i - 1 \in 1 .. Units /\ i - 1 \in 1 .. (Units - 1)
      BY <2>1, <2>3
    <3>2. f = Last(i - 1) + 1 /\ Last(i - 1) \in First(i - 1) .. Len(calls) /\ First(i - 1) \in Nat \ {0}
      BY <2>1, <3>1
    <3>3. f \in Nat /\ l \in f .. Len(calls)
      BY <2>1, <2>2
    <3> DEFINE y == Last(i - 1)
               n == Len(calls)
    <3>4. f = y + 1 /\ y \in Int /\ n \in Nat /\ f <= n /\ y >= 1
      <4>1. n \in Nat
        BY <2>1
      <4>2. y \in Int /\ y >= 1
        BY <3>2, <4>1
      <4>3. f <= n
        BY <3>3, <4>1
      <4> QED BY <3>2, <4>1, <4>2, <4>3
    <3> HIDE DEF f, l, y, n
    <3>5. f > 1 /\ f - 1 = y /\ y < n
      BY <3>4
    <3> QED BY <3>1, <3>5 DEF y, n
  <2> QED BY <2>1, <2>2, <2>3
<1>2. Region(f, l) /\ Leaves(leaves, f)
  <2>1. Region(f, l)
    BY <1>1, UnitRegion
  <2>2. CASE i = 1
    <3>1. leaves \in SUBSET trainable
      BY <2>2
    <3> QED BY <2>1, <3>1, Trainables
  <2>3. CASE i # 1
    <3>1. leaves = trainable \cup {Input} /\ f > 1 /\ f \in Nat
      BY <1>1, <2>3
    <3> HIDE DEF f
    <3> QED BY <2>1, <3>1, Trainables
  <2> QED BY <2>2, <2>3
<1>3. NodeOf(<<l, "out">>, f) \notin T
  BY DEF Out
<1>4. leaves \subseteq T
  BY <1>2, PassIs DEF TrackedOn
<1> HIDE DEF f, l, T
<1>5. \A w : NodeOf(w, f) \in T => \A u \in Uses(w, f .. l) : DOMAIN Flow(u) = {}
  <2>1. Needed({}, T, NodeOf(<<l, "out">>, f), f)
    BY <1>3 DEF Needed
  <2>2. \A w : NodeOf(w, f) \in T => \A u \in Uses(w, f .. l) : Taker(u) \notin {} => DOMAIN Flow(u) = {}
    BY <1>2, <2>1, DeadIs DEF T
  <2> QED BY <2>2
<1>6. ASSUME NEW p \in trainable, NEW u \in Uses(p, f .. l) PROVE DOMAIN Flow(u) = {}
  <2>1. NodeOf(p, f) \in T
    BY <1>4, Trainables
  <2> QED BY <1>5, <2>1
<1>7. CASE i = 1
  BY <1>1, <1>6, <1>7 DEF f, l
<1>8. CASE i # 1
  <2> DEFINE y == Out(i - 1)
  <2>1. y = <<f - 1, "out">> /\ f > 1 /\ f \in Nat
    BY <1>1, <1>8 DEF Out
  <2>2. NodeOf(y, f) = Input
    BY <2>1 DEF NodeOf
  <2>3. Input \in T
    BY <1>4, <1>8
  <2>4. Uses(y, DOMAIN calls) = Uses(y, f .. l)
    BY <1>2, <2>1 DEF Region
  <2>5. y # Out(Units)
    BY <1>1, <1>8 DEF Out
  <2> HIDE DEF y
  <2>6. SumOver(Whole(y), Uses(y, DOMAIN calls))
    BY <2>5, WholeSum
  <2>7. \A u \in Uses(y, DOMAIN calls) : DOMAIN Flow(u) = {}
    BY <1>5, <2>2, <2>3, <2>4
  <2>8. DOMAIN Whole(y) = {}
    BY <2>6, <2>7 DEF SumOver
  <2>9. i - 1 \in 1 .. Units /\ Last(i - 1) = f - 1
    BY <1>1, <1>8
  <2> DEFINE j == i - 1
  <2>10. j \in 1 .. Units /\ DOMAIN Whole(Out(j)) = {}
    BY <2>8, <2>9 DEF y
  <2> HIDE DEF j
  <2>11. \A u \in AnyUse : u[1] <= Last(j) /\ u[2] \in calls[u[1]].outs => DOMAIN Flow(u) = {}
    BY <2>10, NothingBelow
  <2>12. ASSUME NEW p \in trainable, NEW u \in Uses(p, 1 .. l) PROVE DOMAIN Flow(u) = {}
    <3>1. 1 .. l \in SUBSET DOMAIN calls
      BY <1>1
    <3>2. /\ u \in AnyUse /\ u[1] \in 1 .. l /\ u[2] \in calls[u[1]].outs
      BY <1>1, <3>1, UsesAre
    <3>3. CASE u[1] <= Last(j)
      BY <2>11, <3>2, <3>3
    <3>4. CASE ~(u[1] <= Last(j))
      <4>1. u[1] \in f .. l
        BY <1>1, <2>9, <3>2, <3>4 DEF j
      <4>2. u \in Uses(p, f .. l)
        <5>1. f .. l \in SUBSET DOMAIN calls
          BY <1>1
        <5>2. u = <<u[1], u[2], u[3]>> /\ u[3] \in DOMAIN calls[u[1]].ins /\ calls[u[1]].ins[u[3]] = p
          BY <1>1, <3>1, UsesAre
        <5> QED BY <1>1, <3>2, <4>1, <5>1, <5>2, UsesAre
      <4> QED BY <1>6, <4>2
    <3> QED BY <3>3, <3>4
  <2> QED BY <2>12 DEF l
<1> QED BY <1>7, <1>8

\* A unit's pass has run, and that of the one below it starts, or nothing is left.
LEMMA LayerKeeps ==
  ASSUME PlainInv, LayerPass, StackKept
  PROVE  Accepted' /\ Passing' /\ Summed'
<1> DEFINE i == at - 1
           leaves == trainable \cup (IF i = 1 THEN {} ELSE {Input})
<1>1. /\ way = "burn" /\ stage = "pass" /\ at > 1 /\ Ran /\ Collect(at) /\ at' = i /\ way' = "burn"
      /\ IF NodeOf(Out(i), First(i)) \in Tracked(First(i), Last(i), leaves)
         THEN Record(First(i), Last(i), leaves, Out(i), InputGradient) /\ stage' = "pass"
         ELSE stage' = "done"
  BY DEF LayerPass, StackKept
<1>2. /\ Stacked /\ Placed
      /\ Units \in Nat /\ Units >= 2 /\ Last(Units) = Len(calls) /\ Len(calls) \in Nat /\ DOMAIN calls = 1 .. Len(calls)
      /\ \A j \in 1 .. Units : First(j) \in Nat \ {0} /\ Last(j) \in First(j) .. Len(calls)
      /\ \A j \in 2 .. Units : First(j) = Last(j - 1) + 1
      /\ First(1) = 1 /\ Called
  BY UnitsAre DEF PlainInv, ReadyInv
<1>3. at \in 2 .. Units /\ i \in 1 .. (Units - 1) /\ i \in 1 .. Units
  <2>1. at \in 1 .. Units
    BY <1>1, <1>2 DEF Placed
  <2> QED BY <1>1, <1>2, <2>1
<1>4. /\ DOMAIN seen' \subseteq {0} \X trainable
      /\ \A p \in trainable : SumOver(HeldIn(seen', <<0, p>>), Uses(p, First(at) .. Len(calls)))
      /\ InputGradient = Whole(Out(i))
  <2>1. at \in 1 .. Units /\ way # "mlx" /\ PassFirst = First(at)
    BY <1>1, <1>3 DEF PassFirst
  <2> QED BY <1>1, <2>1, PassCollects
<1>5. First(at) = Last(i) + 1 /\ Last(i) \in First(i) .. Len(calls) /\ First(i) \in Nat \ {0}
      /\ (i # 1 => First(i) > 1)
  <2>1. First(at) = Last(i) + 1 /\ Last(i) \in First(i) .. Len(calls) /\ First(i) \in Nat \ {0}
    BY <1>2, <1>3
  <2>2. ASSUME i # 1 PROVE First(i) > 1
    <3> DEFINE j == i - 1
    <3>1. i \in 2 .. Units /\ j \in 1 .. Units
      BY <1>2, <1>3, <2>2
    <3>2. First(i) = Last(j) + 1
      BY <1>2, <3>1
    <3>3. Last(j) \in First(j) .. Len(calls) /\ First(j) \in Nat \ {0}
      BY <1>2, <3>1
    <3> HIDE DEF i, j
    <3> QED BY <1>2, <3>2, <3>3
  <2> QED BY <2>1, <2>2
<1> HIDE DEF i
<1>6. Accepted'
  BY <1>1, AcceptedStays DEF PlainInv
<1>7. CASE stage' = "pass"
  <2> DEFINE f == First(i)
             l == Last(i)
  <2>1. Record(f, l, leaves, <<l, "out">>, Whole(<<l, "out">>))
    BY <1>1, <1>4, <1>7 DEF Out
  <2>2. Region(f, l) /\ Leaves(leaves, f)
    <3>1. Region(f, l)
      BY <1>2, <1>3, UnitRegion
    <3>2. CASE i = 1
      <4>1. leaves \in SUBSET trainable
        BY <3>2
      <4> QED BY <1>2, <3>1, <4>1, Trainables
    <3>3. CASE i # 1
      <4>1. leaves = trainable \cup {Input} /\ f > 1 /\ f \in Nat
        BY <1>5, <3>3
      <4> HIDE DEF f, leaves
      <4> QED BY <1>2, <3>1, <4>1, Trainables
    <3> QED BY <3>2, <3>3
  <2>3. /\ f = (IF way = "plain" THEN 1 ELSE First(i)) /\ l = Last(i) /\ i # 0 /\ at' = i
        /\ leaves = (IF way = "plain" \/ i = 1 THEN trainable ELSE trainable \cup {Input})
    BY <1>1, <1>3
  <2> HIDE DEF f, l, leaves
  <2>4. /\ span' = [first |-> f, tracked |-> Tracked(f, l, leaves)]
        /\ Owes(f, l, Tracked(f, l, leaves), DOMAIN tape', grads', cells')
    BY <1>2, <2>1, <2>2, FirstOwes
  <2>5. span'.first = f /\ span'.tracked = Tracked(f, l, leaves)
    BY <2>4
  <2>6. Passing'
    BY <2>3, <2>4, <2>5, PassingNext DEF StackKept
  <2>7. Collected' = First(at) .. Len(calls)
    <3>1. Collected' = (Last(i) + 1) .. Len(calls)
      BY <1>1, <1>7 DEF Collected, StackKept, Last
    <3> QED BY <1>5, <3>1
  <2> DEFINE J == First(at) .. Len(calls)
  <2>8. Collected' = J /\ \A p \in trainable : SumOver(HeldIn(seen', <<0, p>>), Uses(p, J))
    BY <1>4, <2>7
  <2> HIDE DEF J
  <2>9. Summed'
    BY <1>4, <2>8, SummedNext DEF StackKept
  <2> QED BY <1>6, <2>6, <2>9
<1>8. CASE stage' # "pass"
  <2>1. stage' = "done" /\ NodeOf(Out(i), First(i)) \notin Tracked(First(i), Last(i), leaves)
    BY <1>1, <1>8
  <2>2. Passing'
    BY <2>1 DEF Passing
  <2>3. Collected' = DOMAIN calls
    BY <2>1 DEF Collected, StackKept
  <2>4. ASSUME NEW p \in trainable PROVE SumOver(HeldIn(seen', <<0, p>>), Uses(p, DOMAIN calls))
    <3> DEFINE U == Uses(p, First(at) .. Len(calls))
               V == Uses(p, DOMAIN calls)
               W == Uses(p, 1 .. Last(i))
    <3>1. SumOver(HeldIn(seen', <<0, p>>), U)
      BY <1>4
    <3>2. V = W \cup U
      <4>1. DOMAIN calls = (1 .. Last(i)) \cup (First(at) .. Len(calls))
        BY <1>2, <1>5
      <4> DEFINE K == 1 .. Last(i)
                 H == First(at) .. Len(calls)
                 D == DOMAIN calls
      <4>2. D = K \cup H
        BY <4>1
      <4> HIDE DEF K, H, D
      <4>3. Uses(p, D) = Uses(p, K) \cup Uses(p, H)
        BY <4>2, UsesSplit
      <4> QED BY <4>3 DEF K, H, D
    <3>3. \A u \in W : DOMAIN Flow(u) = {}
      BY <1>2, <1>3, <2>1, NothingLeft
    <3> HIDE DEF U, V, W
    <3>4. U \subseteq V /\ \A u \in V \ U : DOMAIN Flow(u) = {}
      BY <3>2, <3>3
    <3>5. SumOver(HeldIn(seen', <<0, p>>), V)
      BY <3>1, <3>4, SumDead
    <3> QED BY <3>5 DEF V
  <2> DEFINE J == DOMAIN calls
  <2>5. Collected' = J /\ \A p \in trainable : SumOver(HeldIn(seen', <<0, p>>), Uses(p, J))
    BY <2>3, <2>4
  <2> HIDE DEF J
  <2>6. Summed'
    BY <1>4, <2>5, SummedNext DEF StackKept
  <2> QED BY <1>6, <2>2, <2>6
<1> QED BY <1>7, <1>8

\* The last pass has run.
LEMMA LastKeeps ==
  ASSUME PlainInv, LastPass, StackKept
  PROVE  Accepted' /\ Passing' /\ Summed'
<1>1. /\ way = "burn" /\ stage = "pass" /\ at = 1 /\ Ran /\ Collect(at) /\ stage' = "done" /\ way' = "burn"
  BY DEF LastPass, StackKept
<1>2. Stacked /\ Len(calls) \in Nat /\ DOMAIN calls = 1 .. Len(calls) /\ Units \in Nat /\ Units >= 2 /\ First(1) = 1
  BY UnitsAre DEF PlainInv, ReadyInv
<1>3. at \in 1 .. Units /\ PassFirst = 1 /\ way # "mlx"
  BY <1>1, <1>2 DEF PassFirst
<1> DEFINE J == DOMAIN calls
<1>4. /\ DOMAIN seen' \subseteq {0} \X trainable
      /\ \A p \in trainable : SumOver(HeldIn(seen', <<0, p>>), Uses(p, J))
  BY <1>1, <1>2, <1>3, PassCollects
<1>5. Collected' = J
  BY <1>1 DEF Collected, StackKept
<1> HIDE DEF J
<1>6. Summed'
  BY <1>4, <1>5, SummedNext DEF StackKept
<1>7. Accepted' /\ Passing'
  <2>1. Accepted'
    BY <1>1, AcceptedStays DEF PlainInv
  <2> QED BY <1>1, <2>1 DEF Passing
<1> QED BY <1>6, <1>7

\* One pass through everything starts.
LEMMA PlainPassKeeps ==
  ASSUME PlainInv, PlainPass, StackKept
  PROVE  Accepted' /\ Passing' /\ Summed'
<1>1. /\ way = "plain" /\ stage = "pass" /\ at = 0 /\ at' = Units /\ stage' = "pass" /\ seen' = seen /\ way' = "plain"
      /\ Record(1, Last(Units), trainable, Out(Units), Seed)
  BY DEF PlainPass, StackKept
<1>2. Stacked /\ Units \in Nat /\ Units >= 2
  BY UnitsAre DEF PlainInv, ReadyInv
<1>3. Accepted'
  BY <1>1 DEF Accepted
<1>4. Passing'
  <2> DEFINE l == Last(Units)
  <2>1. Region(1, l) /\ Leaves(trainable, 1)
    BY <1>2, UnitRegion, Trainables
  <2>2. Whole(<<l, "out">>) = Seed
    BY <1>2, ChainRule DEF Out
  <2>3. Record(1, l, trainable, <<l, "out">>, Whole(<<l, "out">>))
    BY <1>1, <2>2 DEF Out
  <2> DEFINE f == 1
             v == trainable
  <2>4. /\ f = (IF way = "plain" THEN 1 ELSE First(Units)) /\ l = Last(Units) /\ Units # 0 /\ at' = Units
        /\ v = (IF way = "plain" \/ Units = 1 THEN trainable ELSE trainable \cup {Input})
    BY <1>1, <1>2
  <2>5. Region(f, l) /\ Leaves(v, f) /\ Record(f, l, v, <<l, "out">>, Whole(<<l, "out">>))
    BY <2>1, <2>3
  <2> HIDE DEF l, f, v
  <2>6. /\ span' = [first |-> f, tracked |-> Tracked(f, l, v)]
        /\ Owes(f, l, Tracked(f, l, v), DOMAIN tape', grads', cells')
    BY <1>2, <2>5, FirstOwes
  <2>7. span'.first = f /\ span'.tracked = Tracked(f, l, v)
    BY <2>6
  <2> QED BY <2>4, <2>6, <2>7, PassingNext DEF StackKept
<1>5. Summed'
  <2>1. Collected = {} /\ Collected' = {}
    BY <1>1 DEF Collected
  <2>2. /\ DOMAIN seen \subseteq {0} \X trainable
        /\ \A p \in trainable : SumOver(SeenOf(<<0, p>>), Uses(p, {}))
    BY <1>1, <2>1 DEF PlainInv, Summed
  <2>3. \A p \in trainable : SumOver(HeldIn(seen', <<0, p>>), Uses(p, {}))
    BY <1>1, <2>2 DEF SeenOf, HeldIn
  <2> QED BY <1>1, <2>1, <2>2, <2>3, SummedNext DEF StackKept
<1> QED BY <1>3, <1>4, <1>5

\* It has run, or nothing was recorded.
LEMMA PlainEndKeeps ==
  ASSUME PlainInv, PlainEnd, StackKept
  PROVE  Accepted' /\ Passing' /\ Summed'
<1>1. /\ way = "plain" /\ stage = "pass" /\ Ran /\ stage' = "done" /\ way' = "plain" /\ Collect(Units)
      /\ at = 0 => NodeOf(Out(Units), 1) \notin Tracked(1, Last(Units), trainable)
  BY DEF PlainEnd, StackKept
<1>2. /\ Stacked /\ Placed /\ Called /\ Len(calls) \in Nat /\ DOMAIN calls = 1 .. Len(calls) /\ Units \in Nat /\ Units >= 2
      /\ Last(Units) = Len(calls)
  BY UnitsAre DEF PlainInv, ReadyInv
<1>3. Accepted' /\ Passing'
  BY <1>1 DEF Accepted, Passing
<1> DEFINE J == DOMAIN calls
<1>4. /\ DOMAIN seen' \subseteq {0} \X trainable
      /\ \A p \in trainable : SumOver(HeldIn(seen', <<0, p>>), Uses(p, J))
  <2>1. CASE at = Units
    <3>1. at \in 1 .. Units /\ PassFirst = 1 /\ way # "mlx" /\ Collect(at)
      BY <1>1, <1>2, <2>1 DEF PassFirst
    <3> QED BY <1>1, <1>2, <3>1, PassCollects
  <2>2. CASE at = 0
    <3>1. DOMAIN seen \subseteq {0} \X trainable /\ DOMAIN grads = {}
      BY <1>1, <2>2 DEF PlainInv, Summed, Passing
    <3>2. ASSUME NEW p \in trainable PROVE SumOver(HeldIn(seen', <<0, p>>), Uses(p, J))
      <4> DEFINE W == Uses(p, J)
      <4>1. SumOver(SeenOf(<<0, p>>), {})
        <5>1. Collected = {}
          BY <1>1 DEF Collected
        <5>2. Uses(p, Collected) = {}
          BY <5>1 DEF Uses
        <5> QED BY <1>1, <5>2 DEF PlainInv, Summed
      <4>2. \A u \in W : DOMAIN Flow(u) = {}
        <5> DEFINE T == Tracked(1, Last(Units), trainable)
        <5>1. Region(1, Last(Units)) /\ Leaves(trainable, 1)
          BY <1>2, UnitRegion, Trainables
        <5>2. NodeOf(p, 1) = p /\ p \in T
          BY <1>2, <5>1, PassIs, Trainables DEF TrackedOn
        <5> DEFINE l == Last(Units)
        <5>3. Needed({}, T, NodeOf(<<l, "out">>, 1), 1)
          BY <1>1, <2>2 DEF Needed, Out
        <5> HIDE DEF l
        <5>4. \A u \in Uses(p, 1 .. l) : Taker(u) \notin {} => DOMAIN Flow(u) = {}
          <6>1. T = Tracked(1, l, trainable) /\ Region(1, l)
            BY <5>1 DEF l
          <6> HIDE DEF T
          <6> QED BY <1>2, <5>1, <5>2, <5>3, <6>1, DeadIs
        <5>5. J = 1 .. l
          BY <1>2 DEF l
        <5> QED BY <5>4, <5>5
      <4>3. W \in SUBSET AnyUse
        <5>1. J \in SUBSET DOMAIN calls
          OBVIOUS
        <5> QED BY <1>2, <5>1, UsesAre
      <4>4. HeldIn(grads, p) = EmptyBag
        BY <3>1 DEF HeldIn
      <4> HIDE DEF W
      <4>5. SumOver(HeldIn(grads, p), W)
        BY <4>2, <4>4, SumNone
      <4> DEFINE U == {}
      <4>6. U \in SUBSET AnyUse /\ U \cap W = {} /\ SumOver(SeenOf(<<0, p>>), U) /\ U \cup W = W
        BY <4>1
      <4> HIDE DEF U
      <4>7. SumOver(HeldIn(seen', <<0, p>>), U \cup W)
        BY <1>1, <1>2, <4>2, <4>3, <4>5, <4>6, CollectAdds
      <4> QED BY <4>6, <4>7 DEF W
    <3>3. DOMAIN seen' \subseteq {0} \X trainable
      BY <1>1, <3>1, CollectKeys
    <3> QED BY <3>2, <3>3
  <2>3. at \in {0, Units}
    BY <1>1, <1>2 DEF Placed
  <2> QED BY <2>1, <2>2, <2>3
<1>5. Collected' = J
  BY <1>1 DEF Collected, StackKept
<1> HIDE DEF J
<1>6. Summed'
  BY <1>4, <1>5, SummedNext DEF StackKept
<1> QED BY <1>3, <1>6

\* Every step keeps what is owed.
LEMMA PlainStays ==
  ASSUME PlainInv, [Next \/ Ended]_vars
  PROVE  PlainInv'
<1>1. StackKept /\ Stacked
  BY KeepsStack DEF PlainInv, ReadyInv, StackKept
<1>2. ReadyInv'
  BY ReadyStays DEF PlainInv
<1>3. CASE way = "mlx"
  <2>1. way' = "mlx"
    BY <1>1, <1>3 DEF StackKept
  <2> QED BY <1>2, <2>1 DEF PlainInv, Accepted, Passing, Summed
<1>4. CASE way # "mlx" /\ UNCHANGED vars
  <2>1. /\ at' = at /\ stage' = stage /\ seen' = seen /\ way' = way /\ UNCHANGED <<span, tape, grads, cells>>
    BY <1>4 DEF vars
  <2>2. Passing'
    BY <1>1, <2>1, PassingKeeps DEF PlainInv, StackKept
  <2>3. Accepted'
    <3>1. \A i : Frozen(i)' <=> Frozen(i)
      BY <1>1, FrozenStays DEF StackKept
    <3>2. Units' = Units /\ Layers' = Layers
      BY <1>1 DEF StackKept, Units, Layers
    <3> QED BY <2>1, <3>1, <3>2 DEF PlainInv, Accepted
  <2>4. Summed'
    <3> DEFINE J == Collected
    <3>1. Collected' = J
      BY <1>1, <2>1 DEF Collected, Last, StackKept
    <3>2. /\ DOMAIN seen \subseteq {0} \X trainable
          /\ \A p \in trainable : SumOver(SeenOf(<<0, p>>), Uses(p, J))
      BY <1>4 DEF PlainInv, Summed
    <3>3. \A p \in trainable : SumOver(HeldIn(seen', <<0, p>>), Uses(p, J))
      BY <2>1, <3>2 DEF SeenOf, HeldIn
    <3>4. DOMAIN seen' \subseteq {0} \X trainable
      BY <2>1, <3>2
    <3> HIDE DEF J
    <3> QED BY <1>1, <3>1, <3>3, <3>4, SummedNext DEF StackKept
  <2> QED BY <1>2, <2>2, <2>3, <2>4 DEF PlainInv
<1>5. CASE way # "mlx" /\ Next
  <2>1. \/ ForwardLayer \/ HeadPass \/ LayerPass \/ LastPass \/ PlainPass \/ PlainEnd \/ RunNode
    BY <1>5 DEF Next, MlxForward, MlxHead, MlxTrace, MlxFail, MlxEvalFails, MlxLayer, MlxEnd
  <2>2. Accepted' /\ Passing' /\ Summed'
    BY <1>1, <2>1, ForwardKeeps, HeadKeeps, LayerKeeps, LastKeeps, PlainPassKeeps, PlainEndKeeps, RunKeeps
  <2> QED BY <1>2, <2>2 DEF PlainInv
<1> QED BY <1>3, <1>4, <1>5 DEF Ended

\* Plain autodiff and the checkpointed step give every trainable parameter the
\* sum of all its gradients and nothing else, for every stack and every choice
\* of what is trainable; a stack is refused only where a layer takes a tensor
\* that requires a gradient and is not its own (checkpoint.rs:29).
THEOREM SumsAreWhole == Spec => []SumsArePlain
<1>1. PlainInv => SumsArePlain
  <2> SUFFICES ASSUME PlainInv PROVE SumsArePlain
    OBVIOUS
  <2>1. Stacked /\ Placed /\ Accepted /\ Summed
    BY DEF PlainInv, ReadyInv
  <2>2. ASSUME way # "mlx", stage = "done"
        PROVE  DOMAIN seen \subseteq {0} \X trainable /\ \A p \in trainable : SeenOf(<<0, p>>) = Whole(p)
    <3>1. Collected = DOMAIN calls
      BY <2>2 DEF Collected
    <3>2. DOMAIN seen \subseteq {0} \X trainable
      BY <2>1, <2>2 DEF Summed
    <3>3. ASSUME NEW p \in trainable PROVE SeenOf(<<0, p>>) = Whole(p)
      <4>1. SumOver(SeenOf(<<0, p>>), Uses(p, DOMAIN calls))
        BY <2>1, <2>2, <3>1 DEF Summed
      <4>2. p # Out(Units)
        <5>1. Units \in 1 .. Units
          BY <2>1, UnitsAre
        <5> QED BY <2>1, <5>1, Trainables
      <4>3. SumOver(Whole(p), Uses(p, DOMAIN calls))
        BY <2>1, <4>2, WholeSum
      <4> QED BY <4>1, <4>3, SumUnique
    <3> QED BY <3>2, <3>3
  <2>3. ASSUME way = "burn", stage = "failed"
        PROVE  \E k \in First(at) .. Last(at) : \E s \in DOMAIN calls[k].ins :
                 calls[k].ins[s] \in trainable \ Own(at)
    <3> DEFINE f == First(at)
               l == Last(at)
               v == trainable \ Own(at)
    <3>1. at \in 1 .. Units
      BY <2>1, <2>3 DEF Placed
    <3>2. ~Frozen(at)
      BY <2>1, <2>3, <3>1 DEF Accepted
    <3>3. NodeOf(<<l, "out">>, f) \in Tracked(f, l, v) /\ v \subseteq trainable
      BY <3>2 DEF Frozen, Out
    <3>4. Region(f, l)
      BY <2>1, <3>1, UnitRegion
    <3>5. NodeOf(<<l, "out">>, f) \in NodesOf(f, l)
      <4>1. Called /\ f \in Nat \ {0} /\ l \in f .. Len(calls)
        BY <2>1, <3>1, UnitsAre
      <4> QED BY <4>1, RootNode
    <3> HIDE DEF f, l, v
    <3>6. \E k \in f .. l : \E s \in DOMAIN calls[k].ins : calls[k].ins[s] \in v
      BY <2>1, <3>3, <3>4, <3>5, LeafTaken
    <3> QED BY <3>6 DEF f, l, v
  <2> QED BY <2>2, <2>3 DEF SumsArePlain
<1> QED BY <1>1, PlainFirst, PlainStays, PTL DEF Spec
=============================================================================
