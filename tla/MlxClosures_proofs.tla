-------------------------- MODULE MlxClosures_proofs --------------------------
(***************************************************************************)
(* The invariants of MlxClosures, for any functions, depth and number of    *)
(* failures.                                                                *)
(***************************************************************************)
EXTENDS MlxClosures, SequenceTheorems, TLAPS

-----------------------------------------------------------------------------
(* The stack, as a sequence. *)

Statuses == {"runs", "throws", "succeeded", "failed"}

\* Calls and bodies alternate, and below the newest frame all is under way and well.
Formed(s) ==
  /\ s \in Seq(Frames)
  /\ \A i \in 1 .. Len(s) : (s[i].fn = NoFunction) = (i % 2 = 1)
  /\ \A i \in 1 .. Len(s) - 1 : s[i].status = "runs" /\ s[i].why = Nothing

AtEase(s) == s # <<>> => s[Len(s)].status = "runs" /\ s[Len(s)].why = Nothing

Bodies(s) == {s[i].fn : i \in {j \in 1 .. Len(s) : s[j].fn # NoFunction}}

Once(s) == \A i, j \in 1 .. Len(s) : s[i].fn = s[j].fn /\ s[i].fn # NoFunction => i = j

\* A frame put on a stack at ease, of the kind whose turn it is.
LEMMA Pushed ==
  ASSUME NEW s, Formed(s), AtEase(s), NEW c \in Frames, (c.fn = NoFunction) = (Len(s) % 2 = 0)
  PROVE  /\ Formed(Append(s, c)) /\ Append(s, c) # <<>>
         /\ Append(s, c)[Len(Append(s, c))] = c
         /\ c.fn = NoFunction => Bodies(Append(s, c)) = Bodies(s)
         /\ c.fn # NoFunction => Bodies(Append(s, c)) = Bodies(s) \cup {c.fn}
         /\ Once(s) /\ c.fn \notin Bodies(s) => Once(Append(s, c))
<1> DEFINE t == Append(s, c)
<1>1. /\ s \in Seq(Frames) /\ Len(s) \in Nat /\ t \in Seq(Frames) /\ Len(t) = Len(s) + 1
      /\ \A i \in 1 .. Len(s) : t[i] = s[i]
      /\ t[Len(t)] = c /\ t # <<>>
  <2>1. s \in Seq(Frames) /\ Len(s) \in Nat
    BY DEF Formed
  <2>2. t \in Seq(Frames) /\ Len(t) = Len(s) + 1
    BY <2>1
  <2>3. \A i \in 1 .. Len(s) : t[i] = s[i]
    BY <2>1
  <2>4. t[Len(s) + 1] = c
    BY <2>1
  <2> QED BY <2>1, <2>2, <2>3, <2>4
<1>2. Formed(t)
  <2>1. \A i \in 1 .. Len(t) : (t[i].fn = NoFunction) = (i % 2 = 1)
    <3>1. \A i \in 1 .. Len(s) : (t[i].fn = NoFunction) = (i % 2 = 1)
      BY <1>1 DEF Formed
    <3>2. (Len(s) % 2 = 0) = ((Len(s) + 1) % 2 = 1)
      BY <1>1
    <3>3. (t[Len(s) + 1].fn = NoFunction) = ((Len(s) + 1) % 2 = 1)
      BY <1>1, <3>2
    <3>4. \A i \in 1 .. Len(t) : i \in 1 .. Len(s) \/ i = Len(s) + 1
      BY <1>1
    <3> QED BY <3>1, <3>3, <3>4
  <2>2. \A i \in 1 .. Len(t) - 1 : t[i].status = "runs" /\ t[i].why = Nothing
    BY <1>1 DEF Formed, AtEase
  <2> QED BY <1>1, <2>1, <2>2 DEF Formed
<1>3. c.fn = NoFunction => Bodies(t) = Bodies(s)
  BY <1>1 DEF Bodies
<1>4. c.fn # NoFunction => Bodies(t) = Bodies(s) \cup {c.fn}
  BY <1>1 DEF Bodies
<1>5. Once(s) /\ c.fn \notin Bodies(s) => Once(t)
  BY <1>1 DEF Bodies, Once
<1> QED BY <1>1, <1>2, <1>3, <1>4, <1>5

\* What befalls the newest frame changes no function and no other frame.
LEMMA Befallen ==
  ASSUME NEW s, Formed(s), s # <<>>, NEW status \in Statuses, NEW why \in Causes
  PROVE  /\ Formed(CallMet(s, status, why)) /\ CallMet(s, status, why) # <<>>
         /\ LET top == CallMet(s, status, why)[Len(CallMet(s, status, why))]
            IN top.fn = s[Len(s)].fn /\ top.status = status /\ top.why = why
         /\ Bodies(CallMet(s, status, why)) = Bodies(s)
         /\ Once(CallMet(s, status, why)) = Once(s)
<1> DEFINE t == CallMet(s, status, why)
           n == Len(s)
<1>1. s \in Seq(Frames) /\ n \in Nat /\ n >= 1 /\ s[n] \in Frames
  BY DEF Formed
<1>2. t \in Seq(Frames) /\ Len(t) = n /\ t # <<>>
  BY <1>1 DEF CallMet, Frames, Statuses
<1>3. /\ \A i \in 1 .. n - 1 : t[i] = s[i]
      /\ t[n].fn = s[n].fn /\ t[n].status = status /\ t[n].why = why
  BY <1>1 DEF CallMet, Frames
<1>4. \A i \in 1 .. n : t[i].fn = s[i].fn
  BY <1>1, <1>3
<1>5. Formed(t)
  BY <1>1, <1>2, <1>3, <1>4 DEF Formed
<1>6. Bodies(t) = Bodies(s)
  BY <1>1, <1>2, <1>4 DEF Bodies
<1>7. Once(t) = Once(s)
  BY <1>1, <1>2, <1>4 DEF Once
<1> QED BY <1>2, <1>3, <1>5, <1>6, <1>7

\* Without its newest frame the stack is at ease, and its turn is that frame's.
LEMMA Popped ==
  ASSUME NEW s, Formed(s), s # <<>>
  PROVE  LET r == SubSeq(s, 1, Len(s) - 1)
         IN  /\ Formed(r) /\ AtEase(r)
             /\ s[Len(s)].fn # NoFunction => r # <<>> /\ r[Len(r)].fn = NoFunction
             /\ s[Len(s)].fn = NoFunction =>
                  /\ r # <<>> => r[Len(r)].fn # NoFunction
                  /\ Bodies(r) = Bodies(s)
             /\ Once(s) => Once(r)
             /\ Once(s) /\ s[Len(s)].fn # NoFunction => Bodies(r) = Bodies(s) \ {s[Len(s)].fn}
<1> DEFINE r == SubSeq(s, 1, Len(s) - 1)
           n == Len(s)
<1>1. s \in Seq(Frames) /\ n \in Nat /\ n >= 1 /\ s[n] \in Frames
  BY DEF Formed
<1>2. /\ r \in Seq(Frames) /\ Len(r) = n - 1 /\ \A i \in 1 .. n - 1 : r[i] = s[i]
      /\ n > 1 => r # <<>>
      /\ r # <<>> => n > 1 /\ r[Len(r)] = s[n - 1]
  <2>1. r \in Seq(Frames) /\ Len(r) = n - 1
    <3>1. \A i \in 1 .. n - 1 : s[i] \in Frames
      BY <1>1
    <3>2. r \in Seq(Frames)
      BY <1>1, <3>1
    <3>3. Len(r) = n - 1
      <4>1. PICK m \in Nat : n = m + 1
        BY <1>1
      <4>2. Len(SubSeq(s, 1, m)) = m
        BY <3>1, <4>1, <1>1
      <4>3. m = n - 1
        BY <4>1, <1>1
      <4> QED BY <4>2, <4>3
    <3> QED BY <3>2, <3>3
  <2>2. \A i \in 1 .. n - 1 : r[i] = s[i]
    BY <1>1
  <2>3. n > 1 => r # <<>>
    BY <1>1, <2>1
  <2>4. r # <<>> => n > 1
    BY <1>1, <2>1
  <2>5. n > 1 => r[n - 1] = s[n - 1]
    BY <1>1, <2>2
  <2> QED BY <2>1, <2>2, <2>3, <2>4, <2>5
<1>3. Formed(r) /\ AtEase(r)
  BY <1>1, <1>2 DEF Formed, AtEase
<1>4. s[n].fn # NoFunction => r # <<>> /\ r[Len(r)].fn = NoFunction
  <2> SUFFICES ASSUME s[n].fn # NoFunction
               PROVE  r # <<>> /\ r[Len(r)].fn = NoFunction
    OBVIOUS
  <2>1. n % 2 # 1
    BY <1>1 DEF Formed
  <2>2. n > 1 /\ (n - 1) % 2 = 1
    BY <1>1, <2>1
  <2>3. s[n - 1].fn = NoFunction
    BY <1>1, <2>2 DEF Formed
  <2> QED BY <1>2, <2>2, <2>3
<1>5. s[n].fn = NoFunction /\ r # <<>> => r[Len(r)].fn # NoFunction
  <2> SUFFICES ASSUME s[n].fn = NoFunction, r # <<>> PROVE r[Len(r)].fn # NoFunction
    OBVIOUS
  <2>1. n % 2 = 1
    BY <1>1 DEF Formed
  <2>2. n > 1
    BY <1>2
  <2>3. (n - 1) % 2 # 1
    BY <1>1, <2>1, <2>2
  <2>4. s[n - 1].fn # NoFunction
    BY <1>1, <2>2, <2>3 DEF Formed
  <2> QED BY <1>2, <2>4
<1>6. s[n].fn = NoFunction => Bodies(r) = Bodies(s)
  BY <1>1, <1>2 DEF Bodies
<1>7. Once(s) => Once(r)
  BY <1>1, <1>2 DEF Once
<1>8. Once(s) /\ s[n].fn # NoFunction => Bodies(r) = Bodies(s) \ {s[n].fn}
  BY <1>1, <1>2 DEF Bodies, Once
<1> QED BY <1>3, <1>4, <1>5, <1>6, <1>7, <1>8

-----------------------------------------------------------------------------
(* The invariant. *)

\* What waits in Rust's thread-local, by where the newest call is: nothing before
\* anything is thrown, then what was thrown, which the call keeps as its cause.
Waiting ==
  /\ failure = Nothing \/ failure.kind \in {"error", "panic"}
  /\ InRust => failure = Nothing /\ AtEase(stack)
  /\ InMlx /\ Top.status \in {"runs", "succeeded"} => failure = Nothing /\ Top.why = Nothing
  /\ InMlx /\ Top.status = "throws" => Top.why = failure
  /\ InMlx /\ Top.status = "failed" =>
       \/ failure = Nothing /\ Top.why = [kind |-> "mlx", id |-> lastError]
       \/ failure # Nothing /\ Top.why = failure

IInv == TypeOK /\ Formed(stack) /\ Waiting /\ OwnFailure /\ OneBorrow

\* No failure at all is among the causes, as an Ok.
LEMMA NothingIsACause == Nothing \in Causes /\ Nothing.kind = "ok"
BY DEF Nothing, Causes

\* The parts of TypeOK that are not about the stack's form.
LEMMA TypeFromForm ==
  ASSUME Formed(stack), lastError \in Nat, failures \in Nat,
         failure \in Causes, failure.kind # "mlx",
         borrowed \subseteq Functions, given \in Causes, met \in Causes
  PROVE  TypeOK
BY DEF Formed, TypeOK, Causes

\* Nothing runs and nothing waits at the start.
LEMMA InitOK == Init => IInv
<1> SUFFICES ASSUME Init PROVE IInv
  OBVIOUS
<1>1. stack = <<>> /\ Formed(stack)
  BY DEF Init, Formed
<1>2. TypeOK
  BY <1>1, NothingIsACause, TypeFromForm DEF Init
<1>3. Waiting
  BY <1>1 DEF Init, Waiting, InRust, InMlx, AtEase
<1>4. OneBorrow
  BY <1>1 DEF Init, OneBorrow
<1> QED BY <1>1, <1>2, <1>3, <1>4 DEF IInv, OwnFailure, Init

\* The newest frame is one, and a call where MLX is at work, a body where one runs.
LEMMA TopIsFrame ==
  ASSUME Formed(stack), stack # <<>>
  PROVE  /\ stack \in Seq(Frames) /\ Len(stack) \in Nat \ {0}
         /\ Top \in Frames /\ Top.why \in Causes
         /\ (Top.fn = NoFunction) = (Len(stack) % 2 = 1)
         /\ Top.fn # NoFunction => Top.fn \in Functions
<1>1. stack \in Seq(Frames) /\ Len(stack) \in Nat \ {0}
  BY DEF Formed
<1>2. Top \in Frames
  BY <1>1 DEF Top
<1>3. (Top.fn = NoFunction) = (Len(stack) % 2 = 1)
  BY <1>1 DEF Formed, Top
<1> QED BY <1>1, <1>2, <1>3 DEF Frames

\* A step in which something befalls the newest call.
LEMMA CallGoesOn ==
  ASSUME IInv, InMlx, NEW status \in Statuses, NEW why \in Causes,
         stack' = CallMet(stack, status, why), UNCHANGED <<borrowed, given, met>>,
         lastError' \in Nat, failures' \in Nat, failure' \in Causes
  PROVE  /\ Formed(stack') /\ InMlx' /\ Top'.status = status /\ Top'.why = why
         /\ OneBorrow' /\ OwnFailure'
         /\ failure'.kind # "mlx" => TypeOK'
<1>1. Formed(stack) /\ stack # <<>> /\ Top.fn = NoFunction
  BY DEF IInv, InMlx
<1>2. /\ Formed(stack') /\ stack' # <<>>
      /\ Top'.fn = NoFunction /\ Top'.status = status /\ Top'.why = why
      /\ Bodies(stack') = Bodies(stack) /\ Once(stack') = Once(stack)
  BY <1>1, Befallen DEF Top
<1>3. OneBorrow'
  BY <1>2 DEF IInv, OneBorrow, Bodies, Once
<1>4. OwnFailure'
  BY DEF IInv, OwnFailure
<1>5. failure'.kind # "mlx" => TypeOK'
  BY <1>2 DEF IInv, TypeOK, Formed, Causes
<1> QED BY <1>2, <1>3, <1>4, <1>5 DEF InMlx

\* A step in which a body ends, and its call goes on or throws.
LEMMA BodyEnds ==
  ASSUME IInv, InBody, NEW status \in Statuses, NEW why \in Causes, Leaves(status, why),
         UNCHANGED lastError, failures' \in Nat, failure' \in Causes
  PROVE  /\ Formed(stack') /\ InMlx' /\ Top'.status = status /\ Top'.why = why
         /\ OneBorrow' /\ OwnFailure'
         /\ failure'.kind # "mlx" => TypeOK'
<1>1. Formed(stack) /\ stack # <<>> /\ Top.fn # NoFunction
  BY DEF IInv, InBody
<1>2. Once(stack) /\ borrowed = Bodies(stack)
  BY DEF IInv, OneBorrow, Once, Bodies
<1>3. /\ Formed(Rest) /\ Rest # <<>> /\ Rest[Len(Rest)].fn = NoFunction
      /\ Once(Rest) /\ Bodies(Rest) = Bodies(stack) \ {Top.fn}
  BY <1>1, <1>2, Popped DEF Rest, Top
<1>4. /\ Formed(stack') /\ stack' # <<>>
      /\ Top'.fn = NoFunction /\ Top'.status = status /\ Top'.why = why
      /\ Bodies(stack') = Bodies(Rest) /\ Once(stack')
  BY <1>3, Befallen DEF Top, Leaves
<1>5. OneBorrow'
  BY <1>2, <1>3, <1>4 DEF Leaves, OneBorrow, Bodies, Once
<1>6. OwnFailure'
  BY DEF Leaves, OwnFailure
<1>7. failure'.kind # "mlx" => TypeOK'
  BY <1>4, NothingIsACause DEF IInv, TypeOK, Formed, Causes, Leaves
<1> QED BY <1>4, <1>5, <1>6, <1>7 DEF InMlx

\* A step in which a call is checked: its caller goes on with what the check gives.
LEMMA CallEnds ==
  ASSUME IInv, InMlx, NEW result \in Causes, Gives(result), result = Top.why,
         UNCHANGED <<borrowed, failures>>, lastError' \in Nat, failure' = Nothing
  PROVE  IInv'
<1>1. Formed(stack) /\ stack # <<>> /\ Top.fn = NoFunction
  BY DEF IInv, InMlx
<1>2. Once(stack) /\ borrowed = Bodies(stack)
  BY DEF IInv, OneBorrow, Once, Bodies
<1>3. /\ Formed(Rest) /\ AtEase(Rest)
      /\ Rest # <<>> => Rest[Len(Rest)].fn # NoFunction
      /\ Once(Rest) /\ Bodies(Rest) = Bodies(stack)
  BY <1>1, <1>2, Popped DEF Rest, Top
<1>4. stack' = Rest
  BY DEF Gives
<1>5. ~InMlx'
  BY <1>3, <1>4 DEF InMlx, Top
<1>6. Formed(stack')
  BY <1>3, <1>4
<1>7. TypeOK'
  BY <1>6, NothingIsACause DEF IInv, TypeOK, Formed, Gives, Causes
<1>8. Waiting'
  BY <1>3, <1>4, <1>5 DEF Waiting, InRust, AtEase
<1>9. OneBorrow'
  BY <1>2, <1>3, <1>4 DEF OneBorrow, Bodies, Once
<1>10. OwnFailure'
  BY DEF Gives, OwnFailure
<1> QED BY <1>6, <1>7, <1>8, <1>9, <1>10 DEF IInv, Formed

\* A frame is put on top: a call in Rust, a body in a call.
LEMMA FramePushed ==
  ASSUME IInv, AtEase(stack), NEW c \in Frames, (c.fn = NoFunction) = InRust,
         c.status = "runs", c.why = Nothing, failure = Nothing, stack' = Append(stack, c),
         UNCHANGED <<lastError, failure, failures>>
  PROVE  /\ Formed(stack') /\ Top' = c /\ stack' # <<>> /\ Waiting'
         /\ c.fn = NoFunction => Bodies(stack') = Bodies(stack)
         /\ c.fn # NoFunction => Bodies(stack') = Bodies(stack) \cup {c.fn}
         /\ c.fn \notin Bodies(stack) => Once(stack')
<1>1. Formed(stack) /\ Once(stack)
  BY DEF IInv, OneBorrow, Once
<1>2. (c.fn = NoFunction) = (Len(stack) % 2 = 0)
  <2>1. CASE stack = <<>>
    BY <2>1 DEF InRust, InMlx
  <2>2. CASE stack # <<>>
    <3>1. (Top.fn = NoFunction) = (Len(stack) % 2 = 1)
      BY <1>1, <2>2, TopIsFrame
    <3>2. (Len(stack) % 2 = 0) = ~(Len(stack) % 2 = 1)
      BY <1>1, <2>2, TopIsFrame
    <3> QED BY <2>2, <3>1, <3>2 DEF InRust, InMlx
  <2> QED BY <2>1, <2>2
<1>3. /\ Formed(stack') /\ stack' # <<>> /\ Top' = c
      /\ c.fn = NoFunction => Bodies(stack') = Bodies(stack)
      /\ c.fn # NoFunction => Bodies(stack') = Bodies(stack) \cup {c.fn}
      /\ c.fn \notin Bodies(stack) => Once(stack')
  BY <1>1, <1>2, Pushed DEF Top
<1>4. Waiting'
  BY <1>3 DEF Waiting, InRust, InMlx, AtEase, Top
<1> QED BY <1>3, <1>4

\* Rust calls MLX.
LEMMA CallOK ==
  ASSUME IInv, Call PROVE IInv'
<1>1. AtEase(stack) /\ failure = Nothing
  BY DEF IInv, Waiting, Call
<1>2. CallFrame \in Frames /\ CallFrame.fn = NoFunction
  BY NothingIsACause DEF CallFrame, Frames
<1>3. /\ Formed(stack') /\ Waiting' /\ Bodies(stack') = Bodies(stack)
      /\ CallFrame.fn \notin Bodies(stack) => Once(stack')
  BY <1>1, <1>2, FramePushed DEF Call, CallFrame
<1>4. CallFrame.fn \notin Bodies(stack)
  BY <1>2 DEF Bodies
<1>5. OneBorrow'
  BY <1>3, <1>4 DEF Call, IInv, OneBorrow, Bodies, Once
<1>6. TypeOK'
  BY <1>3 DEF Call, IInv, TypeOK, Formed
<1> QED BY <1>3, <1>5, <1>6 DEF Call, IInv, OwnFailure, Formed

\* MLX calls a closure.
LEMMA EnterOK ==
  ASSUME IInv, NEW f \in Functions, Enter(f) PROVE IInv'
<1>1. AtEase(stack) /\ failure = Nothing
  BY DEF IInv, Waiting, Enter, AtEase, Top
<1>2. Body(f) \in Frames /\ Body(f).fn = f /\ f # NoFunction
  BY NothingIsACause, BoundsAssumption DEF Body, Frames
<1>3. /\ Formed(stack') /\ Waiting' /\ Bodies(stack') = Bodies(stack) \cup {f}
      /\ f \notin Bodies(stack) => Once(stack')
  BY <1>1, <1>2, FramePushed DEF Enter, Body, InRust
<1>4. f \notin Bodies(stack)
  BY DEF Enter, IInv, OneBorrow, Bodies
<1>5. OneBorrow'
  BY <1>3, <1>4 DEF Enter, IInv, OneBorrow, Bodies, Once
<1>6. TypeOK'
  BY <1>3, NothingIsACause DEF Enter, IInv, TypeOK, Formed
<1> QED BY <1>3, <1>5, <1>6 DEF Enter, IInv, OwnFailure, Formed

\* What IInv says of failures and of what is given, cited below.
LEMMA Known ==
  ASSUME IInv
  PROVE  /\ lastError \in Nat /\ failures \in Nat /\ Fresh \in Nat \ {0}
         /\ failure \in Causes /\ given \in Causes
         /\ failure = Nothing \/ failure.kind \in {"error", "panic"}
BY DEF IInv, TypeOK, Waiting, Fresh

\* MLX throws, catches, succeeds or refuses a function in use.
LEMMA MlxOK ==
  ASSUME IInv, Throws \/ Catch \/ Succeeds \/ \E f \in Functions : Refuse(f)
  PROVE  IInv'
<1>0. Formed(stack) /\ Waiting
  BY DEF IInv
<1>1. CASE Throws
  <2>1. /\ Formed(stack') /\ InMlx' /\ Top'.status = "throws" /\ Top'.why = Nothing
        /\ OneBorrow' /\ OwnFailure' /\ TypeOK'
    BY <1>1, CallGoesOn, Known, NothingIsACause DEF Throws, Statuses
  <2>2. Waiting'
    BY <1>0, <1>1, <2>1 DEF Throws, Waiting, InRust
  <2> QED BY <2>1, <2>2 DEF IInv, Formed
<1>2. CASE Succeeds
  <2>1. /\ Formed(stack') /\ InMlx' /\ Top'.status = "succeeded" /\ Top'.why = Nothing
        /\ OneBorrow' /\ OwnFailure' /\ TypeOK'
    BY <1>2, CallGoesOn, Known, NothingIsACause DEF Succeeds, Statuses
  <2>2. Waiting'
    BY <1>0, <1>2, <2>1 DEF Succeeds, Waiting, InRust
  <2> QED BY <2>1, <2>2 DEF IInv, Formed
<1>3. CASE Catch
  <2> DEFINE why == IF Top.why = Nothing THEN [kind |-> "mlx", id |-> Fresh] ELSE Top.why
  <2>1. why \in Causes /\ Top.why = failure
    BY <1>0, <1>3, Known DEF Catch, Causes, Waiting
  <2>2. /\ Formed(stack') /\ InMlx' /\ Top'.status = "failed" /\ Top'.why = why
        /\ OneBorrow' /\ OwnFailure' /\ TypeOK'
    BY <1>3, <2>1, CallGoesOn, Known, NothingIsACause DEF Catch, Statuses
  <2>3. Waiting'
    BY <1>0, <1>3, <2>1, <2>2 DEF Catch, Waiting, InRust
  <2> QED BY <2>2, <2>3 DEF IInv, Formed
<1>4. ASSUME NEW f \in Functions, Refuse(f) PROVE IInv'
  <2>1. failure' \in Causes /\ failure'.kind = "error" /\ failures' \in Nat
    BY <1>4, Known DEF Refuse, Causes
  <2>2. /\ Formed(stack') /\ InMlx' /\ Top'.status = "throws" /\ Top'.why = failure'
        /\ OneBorrow' /\ OwnFailure' /\ TypeOK'
    BY <1>4, <2>1, CallGoesOn, Known DEF Refuse, Statuses
  <2>3. Waiting'
    BY <1>0, <2>1, <2>2 DEF Waiting, InRust
  <2> QED BY <2>2, <2>3 DEF IInv, Formed
<1> QED BY <1>1, <1>2, <1>3, <1>4

\* A closure's body returns, fails or panics.
LEMMA BodyOK ==
  ASSUME IInv, Return \/ Error \/ Panic
  PROVE  IInv'
<1>0. Waiting /\ (InBody => failure = Nothing)
  BY DEF IInv, Waiting, InRust, InBody, InMlx
<1>1. CASE Return
  <2>1. PICK status \in {"runs", "throws"} : Leaves(status, Nothing)
    BY <1>1 DEF Return
  <2>2. failure' = Nothing
    BY <1>0, <1>1 DEF Return
  <2>3. /\ Formed(stack') /\ InMlx' /\ Top'.status = status /\ Top'.why = Nothing
        /\ OneBorrow' /\ OwnFailure' /\ TypeOK'
    BY <1>1, <2>1, <2>2, BodyEnds, Known, NothingIsACause DEF Return, Statuses
  <2>4. Waiting'
    BY <2>1, <2>2, <2>3 DEF Waiting, InRust
  <2> QED BY <2>3, <2>4 DEF IInv, Formed
<1>2. CASE Error \/ Panic
  <2>1. failure' \in Causes /\ failure'.kind \in {"error", "panic"} /\ failures' \in Nat
    BY <1>2, Known DEF Error, Panic, Causes
  <2>2. InBody /\ Leaves("throws", failure') /\ UNCHANGED lastError
    BY <1>2 DEF Error, Panic
  <2>3. /\ Formed(stack') /\ InMlx' /\ Top'.status = "throws" /\ Top'.why = failure'
        /\ OneBorrow' /\ OwnFailure' /\ TypeOK'
    BY <2>1, <2>2, BodyEnds DEF Statuses
  <2>4. Waiting'
    BY <2>1, <2>3 DEF Waiting, InRust
  <2> QED BY <2>3, <2>4 DEF IInv, Formed
<1> QED BY <1>1, <1>2

\* Rust checks what the call returned.
LEMMA CheckOK ==
  ASSUME IInv, Resume \/ Ok \/ Err
  PROVE  IInv'
<1>0. Waiting
  BY DEF IInv
<1>1. CASE Resume
  <2>1. failure = Top.why
    BY <1>0, <1>1, NothingIsACause DEF Resume, Over, Waiting
  <2> QED BY <1>1, <2>1, CallEnds, Known DEF Resume, Over
<1>2. CASE Ok
  <2>1. failure = Nothing /\ Top.why = Nothing
    BY <1>0, <1>2 DEF Ok, Over, Waiting
  <2> QED BY <1>2, <2>1, CallEnds, Known, NothingIsACause DEF Ok, Over
<1>3. CASE Err
  <2> DEFINE result == IF failure.kind = "error" THEN failure ELSE [kind |-> "mlx", id |-> lastError]
  <2>1. result = Top.why
    BY <1>0, <1>3, Known, NothingIsACause DEF Err, Over, Waiting
  <2>2. result \in Causes
    BY Known DEF Causes
  <2> QED BY <1>3, <2>1, <2>2, CallEnds DEF Err, Over
<1> QED BY <1>1, <1>2, <1>3

\* Steps no call sees: an error left unread, a panic caught, a closure freed.
LEMMA ElsewhereOK ==
  ASSUME IInv, Unread \/ CatchUnwind \/ \E f \in Functions : Free(f)
  PROVE  IInv'
<1>1. UNCHANGED <<stack, failure, borrowed>> /\ failures' \in Nat /\ lastError' \in Nat
  BY Known DEF Unread, CatchUnwind, Free
<1>2. given' \in Causes /\ met' \in Causes /\ given' = met'
  BY NothingIsACause DEF Unread, CatchUnwind, Free, IInv, TypeOK, OwnFailure
<1>3. Waiting'
  <2>1. lastError' = lastError \/ ~Over
    BY DEF Unread, CatchUnwind, Free
  <2> QED BY <1>1, <2>1 DEF IInv, Waiting, InRust, InMlx, AtEase, Top, Over
<1>4. TypeOK' /\ OneBorrow'
  BY <1>1, <1>2 DEF IInv, TypeOK, OneBorrow
<1> QED BY <1>1, <1>2, <1>3, <1>4 DEF IInv, Formed, OwnFailure

\* Each action keeps the invariant.
LEMMA StepOK == IInv /\ [Next]_vars => IInv'
<1> SUFFICES ASSUME IInv, [Next]_vars PROVE IInv'
  OBVIOUS
<1>1. CASE Next
  BY <1>1, CallOK, EnterOK, MlxOK, BodyOK, CheckOK, ElsewhereOK DEF Next
<1>2. CASE UNCHANGED vars
  BY <1>2 DEF vars, IInv, TypeOK, Formed, Waiting, InRust, InMlx, AtEase, Top, OwnFailure, OneBorrow
<1> QED BY <1>1, <1>2

\* IInv holds throughout.
THEOREM Inductive == Spec => []IInv
BY InitOK, StepOK, PTL DEF Spec

-----------------------------------------------------------------------------
(* What the module promises. *)

\* The variables keep their types, and calls and bodies alternate.
THEOREM TypeCorrect == Spec => []TypeOK
<1>1. IInv => TypeOK
  BY DEF IInv
<1> QED BY <1>1, Inductive, PTL

\* Whatever check gives a caller is what befell that caller's own call: a function's
\* error or panic, MLX's own message, or nothing.
THEOREM FailuresReachTheirCaller == Spec => []OwnFailure
<1>1. IInv => OwnFailure
  BY DEF IInv
<1> QED BY <1>1, Inductive, PTL

\* While Rust code runs nothing waits in CLOSURE_FAILURE for a later call to answer with.
THEOREM NothingLeftWaiting == Spec => []NothingWaits
<1>1. IInv => NothingWaits
  BY DEF IInv, Waiting, NothingWaits
<1> QED BY <1>1, Inductive, PTL

\* A payload's cell is borrowed exactly while its function runs, which it does once at a time.
THEOREM BorrowedOnce == Spec => []OneBorrow
<1>1. IInv => OneBorrow
  BY DEF IInv
<1> QED BY <1>1, Inductive, PTL
===============================================================================
