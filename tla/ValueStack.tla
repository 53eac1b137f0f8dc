------------------------------ MODULE ValueStack ------------------------------
(***************************************************************************)
(* The value stack of a Lox program: one sequence, the slots of the        *)
(* current frame at its end.  TriStack implements this specification with  *)
(* three arrays, two of which a collection is copying meanwhile.           *)
(***************************************************************************)
EXTENDS Naturals, Sequences

CONSTANTS
  Value,
  None       \* no value

VARIABLES
  stack,
  frames,    \* for every active call, the stack index of its slot 0
  result     \* the value being returned, None when no return is under way

vars == <<stack, frames, result>>

Depth == Len(stack)

Truncated(n) == SubSeq(stack, 1, n)

Init ==
  /\ stack = <<>>
  /\ frames = <<>>
  /\ result = None

Push(v) ==
  /\ result = None
  /\ stack' = Append(stack, v)
  /\ UNCHANGED <<frames, result>>

Discard(n) ==
  /\ result = None
  /\ n <= Depth
  /\ stack' = Truncated(Depth - n)
  /\ UNCHANGED <<frames, result>>

\* Assignment of the topmost value to a local variable, through its frame or
\* through an upvalue.
Set(i) ==
  /\ i \in 1..Depth
  /\ stack' = [stack EXCEPT ![i] = stack[Depth]]
  /\ UNCHANGED <<frames, result>>

Call(n) ==
  /\ result = None
  /\ n < Depth
  /\ frames' = Append(frames, Depth - n - 1)
  /\ UNCHANGED <<stack, result>>

EnterScript(v) ==
  /\ frames = <<>>
  /\ stack' = Append(stack, v)
  /\ frames' = <<Depth>>
  /\ UNCHANGED result

\* Take the value returned off the stack.
BeginReturn ==
  /\ frames # <<>>
  /\ Depth > 0
  /\ result = None
  /\ result' = stack[Depth]
  /\ stack' = Truncated(Depth - 1)
  /\ UNCHANGED frames

\* Drop the frame's slots and leave the value in their place for the caller.
Return ==
  /\ result # None
  /\ LET base == frames[Len(frames)]
     IN stack' = IF Len(frames) = 1
                   THEN Truncated(Depth - 1)
                   ELSE Append(Truncated(base), result)
  /\ frames' = SubSeq(frames, 1, Len(frames) - 1)
  /\ result' = None

Reset ==
  /\ stack' = <<>>
  /\ frames' = <<>>
  /\ UNCHANGED result

Next ==
  \/ \E v \in Value : Push(v) \/ EnterScript(v)
  \/ \E n \in 1..Depth : Discard(n) \/ Call(n - 1)
  \/ \E i \in 1..Depth : Set(i)
  \/ BeginReturn
  \/ Return
  \/ Reset

Spec == Init /\ [][Next]_vars
=============================================================================
