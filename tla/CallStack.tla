------------------------------ MODULE CallStack ------------------------------
(***************************************************************************)
(* What the interpreter sees of its call frames: a stack of functions, each *)
(* with the place in its code where it goes on.                            *)
(***************************************************************************)
EXTENDS Naturals, Sequences

CONSTANTS
  Function,
  Offset,     \* the places in the code of a function
  FRAMES_MAX

VARIABLE calls

Init == calls = <<>>

Enter(f) ==
  /\ Len(calls) < FRAMES_MAX
  /\ calls' = Append(calls, [f |-> f, pc |-> 0])

\* Execution goes on in the function called last.
Proceed(n) ==
  /\ calls # <<>>
  /\ calls' = [calls EXCEPT ![Len(calls)].pc = n]

Return ==
  /\ calls # <<>>
  /\ calls' = SubSeq(calls, 1, Len(calls) - 1)

\* A runtime error ends all calls.
Reset == calls # <<>> /\ calls' = <<>>

Next ==
  \/ \E f \in Function : Enter(f)
  \/ \E n \in Offset : Proceed(n)
  \/ Return
  \/ Reset

Spec == Init /\ [][Next]_calls
=============================================================================
