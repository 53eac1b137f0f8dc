------------------------------- MODULE TriStack -------------------------------
(***************************************************************************)
(* The value stack laid over the three regions (struct TriStack): array A  *)
(* holds the indices from abi up, B those from bbi to abi, C those below   *)
(* bbi.  A collection freezes A, the GC thread copies C and B into one new *)
(* array while the interpreter pushes, pops, calls and returns, and        *)
(* integration puts that array in B's place.  src/c/vm.h, src/c/vm.cpp,    *)
(* src/c/memory.cpp, src/c/cb_integration.cpp.                             *)
(*                                                                         *)
(* Only slotsIndex and the cached pointer slots are kept of a CallFrame;   *)
(* the frames' own three arrays are not modelled here.                     *)
(***************************************************************************)
EXTENDS Integers, Sequences

CONSTANTS
  Value,
  None,                 \* no value
  MaxDepth,             \* bound on stackDepth, for TLC
  MaxFrames,            \* FRAMES_MAX
  FrozenUpvalues        \* are upvalues assigned while open in B or C, also when
                        \* a collection is condensing those?

ASSUME TriStackAssumption ==
  /\ None \notin Value
  /\ MaxDepth \in Nat \ {0}
  /\ MaxFrames \in Nat
  /\ FrozenUpvalues \in BOOLEAN

VARIABLES
  a, b, c,              \* the arrays at abo, bbo and cbo, as far as filled
  abi, bbi, cbi,        \* the stack index each array starts at
  stackDepth,
  frames,               \* slotsIndex of every active frame
  slots,                \* the current frame's cached slots, as an index into a
  result,               \* OP_RETURN's local of that name
  req_abi, req_bbi, req_stackDepth,   \* the request's copies
  gcpc,
  new_b                 \* the condensed array, as far as it is written

stack_vars == <<a, b, c, abi, bbi, cbi, stackDepth>>
frame_vars == <<frames, slots, result>>
req_vars == <<req_abi, req_bbi, req_stackDepth>>
vars == <<stack_vars, frame_vars, req_vars, gcpc, new_b>>
-----------------------------------------------------------------------------
Smaller(m, n) == IF m < n THEN m ELSE n

\* The three arrays and where they start.  What lies in B above abi is never
\* read again once a collection has frozen or integrated B, and is left out.
Regions == [a |-> a, abi |-> abi, b |-> b, bbi |-> bbi, c |-> c, cbi |-> cbi]

\* tristack_at(): the value at a stack index.
ValueAt(r, i) ==
  IF i >= r.abi THEN r.a[i - r.abi + 1]
  ELSE IF i >= r.bbi THEN r.b[i - r.bbi + 1]
  ELSE r.c[i - r.cbi + 1]

\* The values at the stack indices from m up to n - 1, bottom first.
Slice(r, m, n) == [j \in 1..(n - m) |-> ValueAt(r, m + j - 1)]

At(i) == ValueAt(Regions, i)

\* The end of triframes_ensureCurrentFrameIsMutable(): the slots from base to
\* the top are copied into A, from the top down, unless they are there already.
MutableFrom(r, base) ==
  IF base < r.abi
    THEN [a |-> Slice(r, base, stackDepth), abi |-> base,
          b |-> r.b, bbi |-> r.bbi, c |-> r.c, cbi |-> r.cbi]
    ELSE r

Assign(r) ==
  /\ a' = r.a /\ abi' = r.abi
  /\ b' = r.b /\ bbi' = r.bbi
  /\ c' = r.c /\ cbi' = r.cbi

\* slotsIndex of the current frame.
SlotsIndex == frames[Len(frames)]

\* tristack_peek(ts, 0).
Top == At(stackDepth - 1)

Init ==
  /\ a = <<>> /\ b = <<>> /\ c = <<>>
  /\ abi = 0 /\ bbi = 0 /\ cbi = 0
  /\ stackDepth = 0
  /\ frames = <<>>
  /\ slots = 0
  /\ result = None
  /\ req_abi = 0 /\ req_bbi = 0 /\ req_stackDepth = 0
  /\ gcpc = "idle"
  /\ new_b = <<>>
-----------------------------------------------------------------------------
(***************************************************************************)
(* The interpreter.                                                        *)
(***************************************************************************)

\* tristack_push(): always into A.
Push(v) ==
  /\ result = None
  /\ stackDepth < MaxDepth
  /\ a' = Append(a, v)
  /\ stackDepth' = stackDepth + 1
  /\ UNCHANGED <<b, c, abi, bbi, cbi, frame_vars, req_vars, gcpc, new_b>>

\* Bug form of DiscardN: an index off by one.
DiscardNAndOne(n) ==
  /\ stackDepth' = stackDepth - n - 1
  /\ abi' = Smaller(abi, stackDepth')
  /\ a' = SubSeq(a, 1, stackDepth' - abi')
  /\ UNCHANGED <<b, c, bbi, cbi>>

\* Bug form of DiscardN: A is not adjusted when the stack is popped below it.
DiscardNKeepingAbi(n) ==
  /\ stackDepth' = stackDepth - n
  /\ a' = SubSeq(a, 1, stackDepth' - abi)
  /\ UNCHANGED <<b, c, abi, bbi, cbi>>

\* What tristack_discardn() does to the stack.
DiscardN(n) ==
  /\ stackDepth' = stackDepth - n
  /\ abi' = Smaller(abi, stackDepth')
  /\ a' = SubSeq(a, 1, stackDepth' - abi')
  /\ UNCHANGED <<b, c, bbi, cbi>>

\* tristack_pop() and tristack_discardn(): compiled code leaves slot 0 of its
\* frame alone.
Discard(n) ==
  /\ result = None
  /\ n <= stackDepth
  /\ frames # <<>> => SlotsIndex < stackDepth - n
  /\ DiscardN(n)
  /\ UNCHANGED <<frame_vars, req_vars, gcpc, new_b>>

\* OP_SET_LOCAL: through the cached pointer slots.
SetLocal(k) ==
  /\ result = None
  /\ frames # <<>>
  /\ SlotsIndex + k < stackDepth
  /\ a' = [a EXCEPT ![slots + k + 1] = Top]
  /\ UNCHANGED <<b, c, abi, bbi, cbi, stackDepth, frame_vars, req_vars, gcpc,
                 new_b>>

\* OP_SET_UPVALUE on an upvalue open at stack index i: through tristack_at(),
\* whichever array that lands in.
SetUpvalue(i) ==
  /\ result = None
  /\ frames # <<>>
  /\ i < stackDepth
  /\ i >= abi \/ gcpc = "idle" \/ FrozenUpvalues
  /\ \/ /\ i >= abi
        /\ a' = [a EXCEPT ![i - abi + 1] = Top]
        /\ UNCHANGED <<b, c>>
     \/ /\ bbi <= i /\ i < abi
        /\ b' = [b EXCEPT ![i - bbi + 1] = Top]
        /\ UNCHANGED <<a, c>>
     \/ /\ i < bbi /\ i < abi
        /\ c' = [c EXCEPT ![i - cbi + 1] = Top]
        /\ UNCHANGED <<a, b>>
  /\ UNCHANGED <<abi, bbi, cbi, stackDepth, frame_vars, req_vars, gcpc, new_b>>

\* call() with n arguments, the callee (or receiver) below them.
Call(n) ==
  /\ result = None
  /\ frames # <<>>
  /\ Len(frames) < MaxFrames
  /\ SlotsIndex + n + 1 < stackDepth
  /\ frames' = Append(frames, stackDepth - n - 1)
  /\ slots' = stackDepth - n - 1 - abi
  /\ UNCHANGED <<stack_vars, result, req_vars, gcpc, new_b>>

\* interpret(): push the script's closure and call it.
EnterScript(v) ==
  /\ frames = <<>>
  /\ stackDepth = 0
  /\ MaxFrames > 0
  /\ a' = Append(a, v)
  /\ stackDepth' = 1
  /\ frames' = <<0>>
  /\ slots' = 0 - abi
  /\ UNCHANGED <<b, c, abi, bbi, cbi, result, req_vars, gcpc, new_b>>

\* OP_RETURN up to closeUpvalues(), which allocates: the frame's own slots are
\* still there, the returned value is in a local only.  A script returns with
\* nothing but its closure left below the value.
BeginReturn ==
  /\ result = None
  /\ frames # <<>>
  /\ SlotsIndex + 1 < stackDepth
  /\ Len(frames) = 1 => stackDepth = SlotsIndex + 2
  /\ result' = Top
  /\ DiscardN(1)
  /\ UNCHANGED <<frames, slots, req_vars, gcpc, new_b>>

\* Bug form of Return: the callee's slots are not cut off.
ReturnKeepingSlots ==
  /\ result # None
  /\ Len(frames) > 1
  /\ LET base == frames[Len(frames) - 1]
         r == MutableFrom(Regions, base)
     IN /\ Assign([r EXCEPT !.a = Append(@, result)])
        /\ slots' = base - r.abi
  /\ stackDepth' = stackDepth + 1
  /\ frames' = SubSeq(frames, 1, Len(frames) - 1)
  /\ result' = None
  /\ UNCHANGED <<req_vars, gcpc, new_b>>

\* Bug form of Return: the current frame is made mutable before it is left.
ReturnToFrozenFrame ==
  /\ result # None
  /\ Len(frames) > 1
  /\ LET r == MutableFrom(Regions, SlotsIndex)
     IN /\ Assign([r EXCEPT
                     !.a = Append(SubSeq(@, 1, SlotsIndex - r.abi), result)])
        /\ slots' = SlotsIndex - r.abi
  /\ stackDepth' = SlotsIndex + 1
  /\ frames' = SubSeq(frames, 1, Len(frames) - 1)
  /\ result' = None
  /\ UNCHANGED <<req_vars, gcpc, new_b>>

\* The rest of OP_RETURN out of a function: triframes_leaveFrame() and with it
\* triframes_ensureCurrentFrameIsMutable() copy the caller's slots into A if
\* they are not there, then the stack is cut back and the result pushed.
Return ==
  /\ result # None
  /\ Len(frames) > 1
  /\ LET base == frames[Len(frames) - 1]
         r == MutableFrom(Regions, base)
     IN /\ Assign([r EXCEPT
                     !.a = Append(SubSeq(@, 1, SlotsIndex - r.abi), result)])
        /\ slots' = base - r.abi
  /\ stackDepth' = SlotsIndex + 1
  /\ frames' = SubSeq(frames, 1, Len(frames) - 1)
  /\ result' = None
  /\ UNCHANGED <<req_vars, gcpc, new_b>>

\* The rest of OP_RETURN out of the script: no frame is left, slot 0 is popped.
ReturnFromScript ==
  /\ result # None
  /\ Len(frames) = 1
  /\ DiscardN(1)
  /\ frames' = <<>>
  /\ result' = None
  /\ UNCHANGED <<slots, req_vars, gcpc, new_b>>

\* runtimeError(), resetStack(): a new array A and empty frames.  The arrays at
\* the old bbo and cbo stay where they are for the GC thread.
Reset ==
  /\ result = None
  /\ frames # <<>>
  /\ a' = <<>>
  /\ abi' = 0 /\ bbi' = 0 /\ cbi' = 0
  /\ stackDepth' = 0
  /\ frames' = <<>>
  /\ UNCHANGED <<b, c, slots, result, req_vars, gcpc, new_b>>

\* Bug form of CollectGarbage: the request's bbi is the one before the shift.
CollectWithOldBbi ==
  /\ gcpc = "idle"
  /\ LET frozen == [a |-> <<>>, abi |-> stackDepth,
                    b |-> a, bbi |-> abi,
                    c |-> SubSeq(b, 1, abi - bbi), cbi |-> bbi]
     IN \/ /\ frames # <<>>
           /\ Assign(MutableFrom(frozen, SlotsIndex))
           /\ slots' = SlotsIndex - abi'
        \/ /\ frames = <<>>
           /\ Assign(frozen)
           /\ UNCHANGED slots
  /\ req_abi' = stackDepth
  /\ req_bbi' = bbi
  /\ req_stackDepth' = stackDepth
  /\ gcpc' = "copy_c"
  /\ new_b' = <<>>
  /\ UNCHANGED <<stackDepth, frames, result>>

\* collectGarbage(): freezeARegions() shifts the arrays and opens an empty A at
\* the top of the stack, the request takes its copies, and then
\* triframes_ensureCurrentFrameIsMutable() moves the current frame's slots from
\* the frozen array back into A.
CollectGarbage ==
  /\ gcpc = "idle"
  /\ LET frozen == [a |-> <<>>, abi |-> stackDepth,
                    b |-> a, bbi |-> abi,
                    c |-> SubSeq(b, 1, abi - bbi), cbi |-> bbi]
     IN \/ /\ frames # <<>>
           /\ Assign(MutableFrom(frozen, SlotsIndex))
           /\ slots' = SlotsIndex - abi'
        \/ /\ frames = <<>>
           /\ Assign(frozen)
           /\ UNCHANGED slots
  /\ req_abi' = stackDepth
  /\ req_bbi' = abi
  /\ req_stackDepth' = stackDepth
  /\ gcpc' = "copy_c"
  /\ new_b' = <<>>
  /\ UNCHANGED <<stackDepth, frames, result>>

\* integrateGCResponse(), at an instruction that looks for a response: the
\* condensed array becomes B, and the current frame is made mutable again.
\* Request and response are dead from here on and forgotten.
IntegrateGCResponse ==
  /\ gcpc = "done"
  /\ result = None
  /\ frames # <<>>
  /\ Assign(MutableFrom([a |-> a, abi |-> abi, b |-> SubSeq(new_b, 1, abi), bbi |-> 0,
                         c |-> <<>>, cbi |-> 0],
                        SlotsIndex))
  /\ slots' = SlotsIndex - abi'
  /\ gcpc' = "idle"
  /\ new_b' = <<>>
  /\ req_abi' = 0 /\ req_bbi' = 0 /\ req_stackDepth' = 0
  /\ UNCHANGED <<stackDepth, frames, result>>
-----------------------------------------------------------------------------
(***************************************************************************)
(* The GC thread: the part of gc_perform() that condenses the stack, one   *)
(* value at a time.                                                        *)
(***************************************************************************)
CopyC ==
  /\ gcpc = "copy_c"
  /\ IF Len(new_b) < Smaller(req_stackDepth, req_bbi)
       THEN new_b' = Append(new_b, c[Len(new_b) + 1]) /\ UNCHANGED gcpc
       ELSE gcpc' = "copy_b" /\ UNCHANGED new_b
  /\ UNCHANGED <<stack_vars, frame_vars, req_vars>>

\* Bug form of CopyB: stops one short.
CopyBShort ==
  /\ gcpc = "copy_b"
  /\ IF Len(new_b) < Smaller(req_stackDepth, req_abi) - 1
       THEN /\ new_b' = Append(new_b, b[Len(new_b) - req_bbi + 1])
            /\ UNCHANGED gcpc
       ELSE gcpc' = "done" /\ UNCHANGED new_b
  /\ UNCHANGED <<stack_vars, frame_vars, req_vars>>

CopyB ==
  /\ gcpc = "copy_b"
  /\ IF Len(new_b) < Smaller(req_stackDepth, req_abi)
       THEN /\ new_b' = Append(new_b, b[Len(new_b) - req_bbi + 1])
            /\ UNCHANGED gcpc
       ELSE gcpc' = "done" /\ UNCHANGED new_b
  /\ UNCHANGED <<stack_vars, frame_vars, req_vars>>

GcNext == CopyC \/ CopyB

MainNext ==
  \/ \E v \in Value : Push(v) \/ EnterScript(v)
  \/ \E n \in 1..MaxDepth : Discard(n)
  \/ \E k \in 0..MaxDepth : SetLocal(k) \/ SetUpvalue(k) \/ Call(k)
  \/ BeginReturn
  \/ Return
  \/ ReturnFromScript
  \/ Reset
  \/ CollectGarbage
  \/ IntegrateGCResponse

Next == MainNext \/ GcNext

Spec == Init /\ [][Next]_vars
-----------------------------------------------------------------------------
(***************************************************************************)
(* Properties.                                                             *)
(***************************************************************************)

\* Every variable has its type; cbi is "always 0, really".
TypeOK ==
  /\ {a, b, c, new_b} \subseteq Seq(Value)
  /\ {abi, bbi, req_abi, req_bbi, req_stackDepth} \subseteq 0..MaxDepth
  /\ stackDepth \in 0..MaxDepth
  /\ frames \in Seq(0..MaxDepth)
  /\ slots \in 0..MaxDepth
  /\ result \in Value \cup {None}
  /\ gcpc \in {"idle", "copy_c", "copy_b", "done"}

\* Every index below the top lies inside the array that tristack_at() reads it
\* from, and A ends at the top: the "FIXME - add a way to check maximum index
\* of B subsection" of tristack_at_bc().  cbi is "always 0, really".
StackWellFormed ==
  /\ cbi = 0
  /\ Len(a) = stackDepth - abi
  /\ bbi < abi => abi <= bbi + Len(b)
  /\ Smaller(abi, bbi) <= Len(c)

\* The current frame's slots are in A, contiguous to the top, and the cached
\* pointer is where tristack_at() finds slot 0, whatever was frozen, popped or
\* integrated since it was taken (the asserts at the end of OP_RETURN).
SlotsAreCurrent ==
  frames # <<>> =>
    /\ abi <= SlotsIndex
    /\ SlotsIndex = abi + slots

\* While the GC thread condenses, and until its array is integrated, what it
\* has written is what the program still reads below A: regions B and C "are
\* read-only, and mutation of structures only occurs in region A" (README.md),
\* so the copy cannot go stale.
CondensedIsCurrent ==
  gcpc # "idle" =>
    \A i \in 0..(Smaller(Len(new_b), abi) - 1) : new_b[i + 1] = At(i)

\* The whole stack below A is there when it is integrated.
CondensedIsComplete == gcpc = "done" => abi <= Len(new_b)

\* The regions are invisible: to the program this is one stack, where freezing,
\* condensing, integrating and moving a frame's slots back into A are stutters.
Plain == INSTANCE ValueStack WITH stack <- Slice(Regions, 0, stackDepth)

StackSpec == Plain!Spec
=============================================================================
