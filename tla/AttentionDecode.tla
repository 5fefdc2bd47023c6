--------------------------- MODULE AttentionDecode ---------------------------
(***************************************************************************)
(* Attention decoding (attention/kernels.rs decode_split_kernel and         *)
(* decode_merge_kernel, launched by attention/cube.rs decode): one query    *)
(* per sequence against a cache cut into splits, counted back from the      *)
(* sequence's last key; in a split's cube the slots take keys in turn, each *)
(* with a running maximum, sum and output, and are merged; a second kernel  *)
(* merges the splits.                                                       *)
(*                                                                          *)
(* Scores are small integers, so that a largest one is defined; values are  *)
(* Residues and exp is to base 2.  A log-sum-exp is kept as its maximum and *)
(* the sum beside it, <<m, t>> for m + ln t.  One column of the values      *)
(* stands for all of them.                                                  *)
(*                                                                          *)
(* A call: b sequences, s keys in the cache, hq heads over hkv, the slots   *)
(* of a cube, the cubes aimed at, how far the window reaches, the lengths   *)
(* (empty if none are given), whether the device takes the kernels.         *)
(***************************************************************************)
EXTENDS Residues, Sequences, FiniteSetsExt

NegInf == -1000
Exp(x) == IF x < -500 THEN 0 ELSE IF x >= 0 THEN Pow(2, x) ELSE Inv(Pow(2, 0 - x))
Base(m) == IF m = NegInf THEN 0 ELSE m

CeilDiv(a, b) == (a + b - 1) \div b

IsCall(c) ==
  /\ {c.b, c.s, c.hq, c.hkv, c.slots, c.cubes} \subseteq Nat \ {0} /\ c.left \in Nat
  /\ c.hq % c.hkv = 0
  /\ c.lengths = <<>> \/ (Len(c.lengths) = c.b /\ \A i \in 1..c.b : c.lengths[i] \in Int)
  /\ ~c.device => \A i \in DOMAIN c.lengths : c.lengths[i] \in 0..c.s

(* The splits: whole numbers of slots, over the keys a query sees at most.  *)
Span(c) == Max({Min({c.s, c.left + 1}), 1})
SplitLen(c) ==
  LET wanted == CeilDiv(c.cubes, c.b * c.hkv)
  IN  CeilDiv(Max({CeilDiv(Span(c), wanted), c.slots}), c.slots) * c.slots
Splits(c) == CeilDiv(Span(c), SplitLen(c))

Last(c, b) == IF c.lengths = <<>> THEN c.s ELSE Max({0, Min({c.lengths[b + 1], c.s})})

(* Mutant: counted back from the cache's last key.                          *)
ShareFromCache(c, b, split) ==
  LET first == Max({0, Last(c, b) - 1 - Min({c.left, c.s + 1})})
      end   == Max({Min({c.s - split * SplitLen(c), Last(c, b)}), 0})
      start == Max({first, c.s - (split + 1) * SplitLen(c)})
  IN  <<start, Max({end, start})>>

(* The keys of a split, first and past the last.                            *)
Share(c, b, split) ==
  LET left  == Min({c.left, c.s + 1})
      first == Max({0, Last(c, b) - 1 - left})
      end   == Max({Last(c, b) - split * SplitLen(c), 0})
      start == Max({first, end - SplitLen(c)})
  IN  <<start, Max({end, start})>>

Group(c) == c.hq \div c.hkv
Score(c, m, b, h, key) == m.q[b][h] * m.k[b][key][h \div Group(c)]

(* A slot's running maximum, sum and output after its keys.                 *)
Slot(c, m, b, h, share, slot) ==
  LET Key(step) == share[1] + (step - 1) * c.slots + slot
      run[step \in 0..CeilDiv(share[2] - share[1], c.slots)] ==
        IF step = 0 THEN [m |-> NegInf, sum |-> 0, acc |-> 0]
        ELSE LET old   == run[step - 1]
                 valid == Key(step) < share[2]
                 s     == IF valid THEN Score(c, m, b, h, Key(step)) ELSE NegInf
                 v     == IF valid THEN m.v[b][Key(step)][h \div Group(c)] ELSE 0
                 new   == Max({old.m, s})
                 alpha == Exp(old.m - Base(new))
                 p     == Exp(s - Base(new))
             IN  [m |-> new, sum |-> (old.sum * alpha + p) % P, acc |-> (old.acc * alpha + v * p) % P]
  IN  run[CeilDiv(share[2] - share[1], c.slots)]

(* A split's output and log-sum-exp, of what its slots found.               *)
MergedSlots(c, slots, top) ==
  LET w(sl) == Exp(slots[sl].m - Base(top))
      total == Total(c.slots, LAMBDA sl : slots[sl].sum * w(sl))
      out   == Total(c.slots, LAMBDA sl : slots[sl].acc * w(sl))
  IN  <<IF total = 0 THEN 0 ELSE (out * Inv(total)) % P, <<IF total = 0 THEN NegInf ELSE Base(top), total>>>>

SplitKernel(c, m, cube) ==
  LET b == cube[1]
      heads == {h \in 0..(c.hq - 1) : h \div Group(c) = cube[2]}
      OfSlots(slots) == MergedSlots(c, slots, Max({slots[sl].m : sl \in DOMAIN slots}))
      OfShare(h, share) == OfSlots([sl \in 0..(c.slots - 1) |-> Slot(c, m, b, h, share, sl)])
      Merged(h) == OfShare(h, Share(c, b, cube[3]))
      At(h) == <<b, h, cube[3]>>
  IN  [m EXCEPT
         !.parto   = [at \in DOMAIN @ |-> IF at \in {At(h) : h \in heads} THEN Merged(at[2])[1] ELSE @[at]],
         !.partlse = [at \in DOMAIN @ |-> IF at \in {At(h) : h \in heads} THEN Merged(at[2])[2] ELSE @[at]]]

(* A split's weight: exp of its log-sum-exp less the largest one's maximum. *)
MergeKernel(c, m, row) ==
  LET b == row \div c.hq
      h == row % c.hq
      lse(x) == m.partlse[<<b, h, x>>]
      top    == Max({lse(x)[1] : x \in 0..(Splits(c) - 1)})
      w(x)   == (Exp(lse(x)[1] - Base(top)) * lse(x)[2]) % P
      total  == Total(Splits(c), w)
      acc    == Total(Splits(c), LAMBDA x : w(x) * m.parto[<<b, h, x>>])
  IN  [m EXCEPT !.out[row] = IF total = 0 THEN 0 ELSE (acc * Inv(total)) % P]

(* The reference: the scores of hidden keys are -inf.                       *)
ReferenceDecode(c, m) ==
  LET Length(b) == IF c.lengths = <<>> THEN c.s ELSE c.lengths[b + 1]
      Seen(b)   == {key \in 0..(c.s - 1) :
                      key < Length(b) /\ (c.left < c.s + 1 => key >= Length(b) - 1 - c.left)}
      Row(b, h) ==
        LET z(key) == IF key \in Seen(b) THEN Score(c, m, b, h, key) ELSE NegInf
            top    == Max({z(key) : key \in 0..(c.s - 1)})
            e(key) == Exp(z(key) - Base(top))
            sum    == Total(c.s, e)
        IN  Total(c.s, LAMBDA key :
                    ((e(key) * Inv(IF sum = 0 THEN 1 ELSE sum)) % P) * m.v[b][key][h \div Group(c)])
  IN  [m EXCEPT !.out = [row \in DOMAIN @ |-> Row(row \div c.hq, row % c.hq)]]

-----------------------------------------------------------------------------
Stream(c) == IF c.device THEN <<"split", "merge">> ELSE <<"reference">>

Cubes(c, launch) ==
  CASE launch = "split" ->
         [i \in 1..(Splits(c) * c.hkv * c.b) |->
            <<(i - 1) \div (Splits(c) * c.hkv), ((i - 1) \div Splits(c)) % c.hkv, (i - 1) % Splits(c)>>]
    [] launch = "merge"     -> [i \in 1..(c.b * c.hq) |-> i - 1]
    [] launch = "reference" -> <<0>>

Effect(c, m, launch, cube) ==
  CASE launch = "split"     -> SplitKernel(c, m, cube)
    [] launch = "merge"     -> MergeKernel(c, m, cube)
    [] launch = "reference" -> ReferenceDecode(c, m)

(* Keys and values past a sequence's length are those of an earlier token.  *)
Allocated(c) ==
  LET parts == (0..(c.b - 1)) \X (0..(c.hq - 1)) \X (0..(Splits(c) - 1))
  IN  [q |-> [b \in 0..(c.b - 1) |-> [h \in 0..(c.hq - 1) |-> Arbitrary(1, 10 * b + h) % 3]],
       k |-> [b \in 0..(c.b - 1) |-> [i \in 0..(c.s - 1) |-> [h \in 0..(c.hkv - 1) |->
                Arbitrary(2, 40 * b + 4 * i + h) % 4]]],
       v |-> [b \in 0..(c.b - 1) |-> [i \in 0..(c.s - 1) |-> [h \in 0..(c.hkv - 1) |->
                Arbitrary(3, 40 * b + 4 * i + h)]]],
       parto |-> [at \in parts |-> Arbitrary(4, at[3])],
       partlse |-> [at \in parts |-> <<30, Arbitrary(5, at[3])>>],
       out |-> [row \in 0..(c.b * c.hq - 1) |-> Arbitrary(6, row)]]

(* The definition: softmax over the last left + 1 keys the sequence holds;  *)
(* a length past the cache is the cache's, one below 0 is 0.                *)
DecodeIs(c, m) ==
  \A row \in DOMAIN m.out :
    LET b    == row \div c.hq
        h    == row % c.hq
        seen == {key \in 0..(c.s - 1) : key < Last(c, b) /\ key + c.left >= Last(c, b) - 1}
        w(key) == IF key \in seen THEN Exp(Score(c, m, b, h, key)) ELSE 0
        value  == Total(c.s, LAMBDA key : w(key) * m.v[b][key][h \div Group(c)])
    IN  m.out[row] = IF seen = {} THEN 0 ELSE (value * Inv(Total(c.s, w))) % P
=============================================================================
