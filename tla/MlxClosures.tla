----------------------------- MODULE MlxClosures -----------------------------
(***************************************************************************)
(* Rust functions called back by MLX (dash-mlx mlx/transforms.rs and        *)
(* mlx/error.rs), on one thread.  A call of mlx-c runs Rust functions,      *)
(* which call mlx-c again; a function's error or panic cannot go through    *)
(* C++, so it waits in a thread-local until the call it happened in is back *)
(* in Rust, where check turns it into an error or goes on unwinding.        *)
(*                                                                         *)
(* The stack holds the calls in progress and the bodies of the functions    *)
(* they run; where it is empty the program itself runs.  A destructor makes *)
(* no call of its own that is checked.                                      *)
(***************************************************************************)
EXTENDS Naturals, Sequences, FiniteSets

CONSTANTS Functions,    \* the payloads given to MLX
          MaxDepth,     \* frames on the stack, at most
          MaxFailures,  \* failures of every kind, all told
          NoFunction    \* the function of a call, which runs none itself

ASSUME BoundsAssumption == MaxDepth \in Nat /\ MaxFailures \in Nat /\ NoFunction \notin Functions

VARIABLES stack,      \* calls and bodies, the newest last
          lastError,  \* LAST_ERROR: the number of MLX's message, 0 for none
          failure,    \* CLOSURE_FAILURE
          borrowed,   \* the payloads whose cell is borrowed
          given,      \* what the newest Rust frame had from its last call
          met,        \* what that call met, as it happened (history)
          failures    \* failures so far

vars == <<stack, lastError, failure, borrowed, given, met, failures>>

Nothing == [kind |-> "ok", id |-> 0]
Fresh == failures + 1

\* A frame: a call of mlx-c, of no function, or the body of a function; what the call
\* met so far is its status and why.
CallFrame == [fn |-> NoFunction, status |-> "runs", why |-> Nothing]
Body(f) == [fn |-> f, status |-> "runs", why |-> Nothing]

Top == stack[Len(stack)]
Rest == SubSeq(stack, 1, Len(stack) - 1)
InBody == stack # <<>> /\ Top.fn # NoFunction
InMlx == stack # <<>> /\ Top.fn = NoFunction
InRust == ~InMlx
Over == InMlx /\ Top.status \in {"succeeded", "failed"}

\* The call on top, or below the body on top, with what befell it.
CallMet(at, status, why) == [at EXCEPT ![Len(at)].status = status, ![Len(at)].why = why]

Init ==
  /\ stack = <<>> /\ lastError = 0 /\ failure = Nothing /\ borrowed = {}
  /\ given = Nothing /\ met = Nothing /\ failures = 0

-----------------------------------------------------------------------------
(* MLX at work in the newest call. *)

\* Rust code calls mlx-c.
Call ==
  /\ InRust /\ given.kind # "panic" /\ Len(stack) < MaxDepth
  /\ stack' = Append(stack, CallFrame)
  /\ UNCHANGED <<lastError, failure, borrowed, given, met, failures>>

\* Mutant: the function is handed out although it is running.
EnterAgain(f) ==
  /\ InMlx /\ Top.status = "runs" /\ Len(stack) < MaxDepth
  /\ stack' = Append(stack, Body(f))
  /\ borrowed' = borrowed \cup {f}
  /\ given' = Nothing /\ met' = Nothing
  /\ UNCHANGED <<lastError, failure, failures>>

\* A trampoline borrows its payload and runs it.
Enter(f) ==
  /\ InMlx /\ Top.status = "runs" /\ Len(stack) < MaxDepth
  /\ f \notin borrowed
  /\ stack' = Append(stack, Body(f))
  /\ borrowed' = borrowed \cup {f}
  /\ given' = Nothing /\ met' = Nothing
  /\ UNCHANGED <<lastError, failure, failures>>

\* "a function given to MLX called itself"
Refuse(f) ==
  /\ InMlx /\ Top.status = "runs" /\ failures < MaxFailures
  /\ f \in borrowed
  /\ failure' = [kind |-> "error", id |-> Fresh]
  /\ failures' = Fresh
  /\ stack' = CallMet(stack, "throws", failure')
  /\ UNCHANGED <<lastError, borrowed, given, met>>

\* MLX's work goes wrong in C++.
Throws ==
  /\ InMlx /\ Top.status = "runs"
  /\ stack' = CallMet(stack, "throws", Nothing)
  /\ UNCHANGED <<lastError, failure, borrowed, given, met, failures>>

\* mlx-c catches what was thrown, the handler keeps its message and the call has
\* status 1: the cause is this message where no function of the call failed.
Catch ==
  /\ InMlx /\ Top.status = "throws" /\ failures < MaxFailures
  /\ lastError' = Fresh /\ failures' = Fresh
  /\ stack' = CallMet(stack, "failed",
                      IF Top.why = Nothing THEN [kind |-> "mlx", id |-> Fresh] ELSE Top.why)
  /\ UNCHANGED <<failure, borrowed, given, met>>

Succeeds ==
  /\ InMlx /\ Top.status = "runs"
  /\ stack' = CallMet(stack, "succeeded", Nothing)
  /\ UNCHANGED <<lastError, failure, borrowed, given, met, failures>>

\* A call whose status nobody reads (a handle freed, a tape dropped) leaves its
\* message, anywhere but between a checked call and its check.
Unread ==
  /\ ~Over /\ failures < MaxFailures
  /\ lastError' = Fresh /\ failures' = Fresh
  /\ UNCHANGED <<stack, failure, borrowed, given, met>>

\* A payload that is not running is freed, wherever that is, and its destructor
\* panics: the panic stops in drop_payload.
Free(f) ==
  /\ f \notin borrowed /\ failures < MaxFailures
  /\ failures' = Fresh
  /\ UNCHANGED <<stack, lastError, failure, borrowed, given, met>>

-----------------------------------------------------------------------------
(* A body ends: its borrow goes with it, by unwinding too, and guarded makes  *)
(* a status of how it ended.                                                 *)

Leaves(status, why) ==
  /\ stack' = CallMet(Rest, status, why)
  /\ borrowed' = borrowed \ {Top.fn}
  /\ given' = Nothing /\ met' = Nothing

\* It returns its outputs; a result MLX cannot take is thrown on by mlx-c.
Return ==
  /\ InBody /\ given.kind # "panic"
  /\ \E status \in {"runs", "throws"} : Leaves(status, Nothing)
  /\ UNCHANGED <<lastError, failure, failures>>

\* It returns an error, its own or the one its last call gave it.
Error ==
  /\ InBody /\ given.kind # "panic"
  /\ \/ failures < MaxFailures /\ failures' = Fresh /\ failure' = [kind |-> "error", id |-> Fresh]
     \/ given # Nothing /\ failure' = [kind |-> "error", id |-> given.id] /\ UNCHANGED failures
  /\ Leaves("throws", failure')
  /\ UNCHANGED lastError

\* It panics, or goes on unwinding with the panic its last call gave it.
Panic ==
  /\ InBody
  /\ \/ given.kind # "panic" /\ failures < MaxFailures
        /\ failures' = Fresh /\ failure' = [kind |-> "panic", id |-> Fresh]
     \/ given.kind = "panic" /\ failure' = given /\ UNCHANGED failures
  /\ Leaves("throws", failure')
  /\ UNCHANGED lastError

\* Rust code catches the panic and goes on.
CatchUnwind ==
  /\ InRust /\ given.kind = "panic"
  /\ given' = Nothing /\ met' = Nothing
  /\ UNCHANGED <<stack, lastError, failure, borrowed, failures>>

-----------------------------------------------------------------------------
(* check, back in Rust with the status of a call. *)

Gives(result) ==
  /\ stack' = Rest
  /\ given' = result /\ met' = Top.why

\* Mutant: the panic is read and left where it is.
ResumeKeeping ==
  /\ Over /\ failure.kind = "panic"
  /\ lastError' = 0
  /\ Gives(failure)
  /\ UNCHANGED <<failure, borrowed, failures>>

\* resume_closure_panic: the panic unwinds on, MLX's message of it is dropped.
Resume ==
  /\ Over /\ failure.kind = "panic"
  /\ failure' = Nothing /\ lastError' = 0
  /\ Gives(failure)
  /\ UNCHANGED <<borrowed, failures>>

Ok ==
  /\ Over /\ failure.kind # "panic" /\ Top.status = "succeeded"
  /\ Gives(Nothing)
  /\ UNCHANGED <<lastError, failure, borrowed, failures>>

\* Mutant: MLX's message goes before the function's own error.
ErrMlxFirst ==
  /\ Over /\ failure.kind # "panic" /\ Top.status = "failed"
  /\ lastError' = 0 /\ failure' = Nothing
  /\ Gives(IF lastError # 0 THEN [kind |-> "mlx", id |-> lastError] ELSE failure)
  /\ UNCHANGED <<borrowed, failures>>

\* The function's error if one failed, or MLX's.
Err ==
  /\ Over /\ failure.kind # "panic" /\ Top.status = "failed"
  /\ lastError' = 0 /\ failure' = Nothing
  /\ Gives(IF failure.kind = "error" THEN failure ELSE [kind |-> "mlx", id |-> lastError])
  /\ UNCHANGED <<borrowed, failures>>

Next ==
  \/ Call \/ Throws \/ Catch \/ Succeeds \/ Unread
  \/ \E f \in Functions : Enter(f) \/ Refuse(f) \/ Free(f)
  \/ Return \/ Error \/ Panic \/ CatchUnwind
  \/ Resume \/ Ok \/ Err

Spec == Init /\ [][Next]_vars

-----------------------------------------------------------------------------

Causes == [kind : {"ok", "error", "panic", "mlx"}, id : Nat]
Frames ==
  [fn : Functions \cup {NoFunction},
   status : {"runs", "throws", "succeeded", "failed"}, why : Causes]

\* Each variable has its values; calls and bodies alternate, a call first, and only
\* the newest frame can be other than running.
TypeOK ==
  /\ stack \in Seq(Frames)
  /\ \A i \in 1 .. Len(stack) : (stack[i].fn = NoFunction) = (i % 2 = 1)
  /\ \A i \in 1 .. Len(stack) - 1 : stack[i].status = "runs"
  /\ lastError \in Nat /\ failures \in Nat
  /\ failure \in Causes \ [kind : {"mlx"}, id : Nat]
  /\ borrowed \subseteq Functions
  /\ given \in Causes /\ met \in Causes

\* What a call gives its caller is what the call met: the error or panic of a
\* function it ran, else MLX's own message, never another call's, and nothing if
\* all went well ("An error or a panic in `f` reaches the caller").
OwnFailure == given = met

\* No failure waits while Rust code runs: the next call would answer with it.
NothingWaits == InRust => failure = Nothing

\* A payload is borrowed exactly while a body of it runs, and no two do: "gets an
\* error, not a second `&mut`".
OneBorrow ==
  /\ borrowed = {stack[i].fn : i \in {j \in 1 .. Len(stack) : stack[j].fn # NoFunction}}
  /\ \A i, j \in 1 .. Len(stack) : stack[i].fn = stack[j].fn /\ stack[i].fn # NoFunction => i = j
==============================================================================
