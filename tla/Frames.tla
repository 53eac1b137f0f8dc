------------------------------- MODULE Frames -------------------------------
(***************************************************************************)
(* The call frames of the interpreter (TriFrames) and the raw pointers they *)
(* hold into the ring, with collections that move what they point to and    *)
(* resizes of the ring that move everything.  src/c/vm.cpp, freezing and    *)
(* integration in src/c/memory.cpp, gc_perform() and the resize hooks in    *)
(* src/c/cb_integration.cpp, for KLOX_SYNC_GC=0.                            *)
(*                                                                         *)
(* A place in memory is a ring and an address; resizing changes the ring    *)
(* and keeps the addresses.  The code of the functions moves only when a    *)
(* collection is integrated, so its address is the number of collections    *)
(* integrated so far.  functionP, constantsValuesP and ip_root are always   *)
(* derived together and are one pointer here, root.                         *)
(***************************************************************************)
EXTENDS Integers, Sequences

CONSTANTS
  Function,
  Offset,          \* the places in the code of a function
  FRAMES_MAX,
  MaxEpoch,        \* bound on collections, for TLC
  MaxRing,         \* bound on resizes, for TLC
  None,
  Wild,            \* a frame pointer computed from index -1
  ResizesWhileCondensing  \* may the ring be resized while frames are condensed?

ASSUME FramesAssumption ==
  /\ FRAMES_MAX \in Nat \ {0}
  /\ {MaxEpoch, MaxRing} \subseteq Nat
  /\ 0 \in Offset /\ Offset \subseteq Nat
  /\ ResizesWhileCondensing \in BOOLEAN
  /\ None \notin [ring : Nat, at : Nat, index : Nat]     \* a pointer is not null

VARIABLES
  ring,            \* thread_cb
  gc_integration_epoch,
  frameCount,
  a, b, c,         \* [at |-> abo, from |-> abi], and so on
  mem,             \* the frames in the arrays, as they are in the present ring
  tf_current,      \* triframes.currentFrame
  vm_current,      \* vm.currentFrame
  gcpc,
  req,             \* what the GC thread works on, in the ring of the request
  new_b            \* the frames it has condensed

tf == <<frameCount, a, b, c, mem, tf_current, vm_current>>
vars == <<ring, gc_integration_epoch, tf, gcpc, req, new_b>>

Array == 1..5      \* A, B, C, the array being condensed, and a new A

NoArray == [at |-> 0, from |-> 0]

NoRequest == [ring |-> 0, abi |-> 0, bbi |-> 0,
              b |-> <<>>, c |-> <<>>, dest |-> 0]

\* Bug form of Fresh: an array in use is taken again.
FirstArray(used) == 1

\* cb_memalign(): an array not in use; dest is set aside for the response.
Fresh(used) == CHOOSE x \in Array : x \notin used

Init ==
  /\ ring = 0
  /\ gc_integration_epoch = 0
  /\ frameCount = 0
  /\ a = [at |-> 1, from |-> 0]
  /\ b = NoArray
  /\ c = NoArray
  /\ mem = [x \in Array |-> <<>>]
  /\ tf_current = None
  /\ vm_current = None
  /\ gcpc = "idle"
  /\ req = NoRequest
  /\ new_b = <<>>
-----------------------------------------------------------------------------
(***************************************************************************)
(* Frames.                                                                 *)
(***************************************************************************)

\* Where the code of a function is when clip() resolves it.
Place(r, e) == [ring |-> r, addr |-> e]
Here == Place(ring, gc_integration_epoch)

\* has_ip_offset: the union of ip and ip_offset holds an offset.
Held == Place(-1, -1)

Junk == -1

\* ip - ip_root.  It is junk if ip is no pointer, or one into other code.
IpOffset(fr) == IF fr.ip.at = fr.root THEN fr.ip.off ELSE Junk

HoldOffset(fr) ==
  [f |-> fr.f, root |-> fr.root, ip |-> [at |-> Held, off |-> IpOffset(fr)],
   epoch |-> fr.epoch]

\* The pointers again, for an ip that is off into the code at place p.
PointTo(fr, p, off) ==
  [f |-> fr.f, root |-> p, ip |-> [at |-> p, off |-> off], epoch |-> fr.epoch]

\* ip moved to an offset in the code it is in.
Jump(fr, off) ==
  [f |-> fr.f, root |-> fr.root, ip |-> [at |-> fr.ip.at, off |-> off], epoch |-> fr.epoch]

NewFrame(f) ==
  [f |-> f, root |-> Here, ip |-> [at |-> Here, off |-> 0], epoch |-> gc_integration_epoch]

\* Which of the three arrays holds frame i.
ArrayOf(i, ta, tb, tc) == IF i >= ta.from THEN ta ELSE IF i >= tb.from THEN tb ELSE tc

\* triframes_at().
FrameIn(i, arr, m) == m[arr.at][i - arr.from + 1]
FrameAt(i) == FrameIn(i, ArrayOf(i, a, b, c), mem)

Pointer(r, i, arr) == [ring |-> r, at |-> arr.at, index |-> i - arr.from]

\* A frame read or written through a pointer.
Deref(p, m) == m[p.at][p.index + 1]
Written(p, m, fr) == [m EXCEPT ![p.at] = [m[p.at] EXCEPT ![p.index + 1] = fr]]

\* triframes_recache(): with no frame the index is -1.
Recached(r, ta, tb, tc) ==
  IF frameCount = 0 THEN Wild
  ELSE Pointer(r, frameCount - 1, ArrayOf(frameCount - 1, ta, tb, tc))

\* Bug form of Rederived: the pointers of a frame returned to are used as they are.
NotRederived(fr, p) == fr

\* fixup_slots in triframes_ensureCurrentFrameIsMutable().
Rederived(fr, p) ==
  IF fr.epoch # gc_integration_epoch
    THEN [f |-> fr.f, root |-> p, ip |-> [at |-> p, off |-> IpOffset(fr)],
          epoch |-> gc_integration_epoch]
    ELSE fr

\* triframes_ensureCurrentFrameIsMutable() with n frames: the last is copied to
\* the start of A unless it is in A.  p is where the code is by then.
Ensured(n, ta, tb, tc, m, p) ==
  IF n = 0
    THEN [a |-> ta, mem |-> [m EXCEPT ![ta.at] = <<>>], tf |-> tf_current, vm |-> vm_current]
    ELSE LET from == IF n - 1 >= ta.from THEN ta.from ELSE n - 1
             below == SubSeq(m[ta.at], 1, n - 1 - from)
             fr == FrameIn(n - 1, ArrayOf(n - 1, ta, tb, tc), m)
             arr == [at |-> ta.at, from |-> from]
             pointer == Pointer(ring, n - 1, arr)
         IN [a |-> arr,
             mem |-> [m EXCEPT ![ta.at] = Append(below, Rederived(fr, p))],
             tf |-> pointer, vm |-> pointer]

\* The frames of array arr below index i; above, they are not read any more.
Below(i, arr) == IF arr.at = 0 THEN <<>> ELSE SubSeq(mem[arr.at], 1, i - arr.from)
-----------------------------------------------------------------------------
(***************************************************************************)
(* The interpreter.                                                        *)
(***************************************************************************)

\* call(), from interpret() or an instruction, and the assignment to
\* vm.currentFrame after it.
Call(f) ==
  /\ frameCount < FRAMES_MAX
  /\ mem' = [mem EXCEPT ![a.at] = Append(SubSeq(@, 1, frameCount - a.from), NewFrame(f))]
  /\ frameCount' = frameCount + 1
  /\ tf_current' = Pointer(ring, frameCount, a)
  /\ vm_current' = tf_current'
  /\ UNCHANGED <<ring, gc_integration_epoch, a, b, c, gcpc, req, new_b>>

\* Instructions are read, and jumped over, through vm.currentFrame.
Proceed(n) ==
  /\ frameCount > 0
  /\ mem' = Written(vm_current, mem, Jump(Deref(vm_current, mem), n))
  /\ UNCHANGED <<ring, gc_integration_epoch, frameCount, a, b, c, tf_current, vm_current,
                 gcpc, req, new_b>>

\* Bug form of Return: the frame returned to is used where it is.
ReturnInPlace ==
  /\ frameCount > 0
  /\ frameCount' = frameCount - 1
  /\ tf_current' = IF frameCount = 1 THEN tf_current
                   ELSE Pointer(ring, frameCount - 2, ArrayOf(frameCount - 2, a, b, c))
  /\ vm_current' = tf_current'
  /\ UNCHANGED <<ring, gc_integration_epoch, a, b, c, mem, gcpc, req, new_b>>

\* OP_RETURN: triframes_leaveFrame().
Return ==
  /\ frameCount > 0
  /\ frameCount' = frameCount - 1
  /\ LET s == Ensured(frameCount - 1, a, b, c, mem, Here)
     IN a' = s.a /\ mem' = s.mem /\ tf_current' = s.tf /\ vm_current' = s.vm
  /\ UNCHANGED <<ring, gc_integration_epoch, b, c, gcpc, req, new_b>>

\* runtimeError() and resetStack(): vm.currentFrame keeps its value.
RuntimeError ==
  /\ frameCount > 0
  /\ frameCount' = 0
  /\ a' = [at |-> Fresh({a.at, b.at, c.at, req.dest}), from |-> 0]
  /\ b' = NoArray
  /\ c' = NoArray
  /\ mem' = [x \in Array |-> <<>>]
  /\ tf_current' = None
  /\ UNCHANGED <<ring, gc_integration_epoch, vm_current, gcpc, req, new_b>>

\* freezeARegions() and the rest of collectGarbage(), which ends with the
\* current frame back in A.
CollectGarbage ==
  /\ gcpc = "idle"
  /\ gc_integration_epoch < MaxEpoch
  /\ LET abo == Fresh({a.at, b.at, c.at})
         m == [x \in Array |-> IF x = a.at THEN Below(frameCount, a)
                               ELSE IF x = b.at THEN Below(a.from, b) ELSE <<>>]
         recached == [a |-> [at |-> abo, from |-> 0], mem |-> m, tf |-> Wild, vm |-> Wild]
         s == IF frameCount = 0 THEN recached
              ELSE Ensured(frameCount, [at |-> abo, from |-> frameCount], a, b, m, Here)
     IN /\ b' = a
        /\ c' = b
        /\ a' = s.a /\ mem' = s.mem /\ tf_current' = s.tf /\ vm_current' = s.vm
        /\ req' = [ring |-> ring, abi |-> frameCount, bbi |-> a.from,
                   b |-> m[a.at], c |-> Below(a.from, b),
                   dest |-> Fresh({a.at, b.at, c.at, abo})]
  /\ gcpc' = "condensing"
  /\ new_b' = <<>>
  /\ UNCHANGED <<ring, gc_integration_epoch, frameCount>>

\* Bug form of IntegrateGCResponse: the current frame is left to its epoch.
IntegrateByEpoch ==
  /\ gcpc = "done"
  /\ frameCount > 0
  /\ LET p == Place(ring, gc_integration_epoch + 1)
         tb == [at |-> req.dest, from |-> 0]
         m == [x \in Array |-> IF x = tb.at THEN new_b ELSE IF x = a.at THEN mem[x] ELSE <<>>]
         s == Ensured(frameCount, a, tb, NoArray, m, p)
     IN /\ a' = s.a /\ mem' = s.mem /\ tf_current' = s.tf /\ vm_current' = s.vm
        /\ b' = tb
        /\ c' = NoArray
  /\ gc_integration_epoch' = gc_integration_epoch + 1
  /\ gcpc' = "idle"
  /\ req' = NoRequest
  /\ new_b' = <<>>
  /\ UNCHANGED <<ring, frameCount>>

\* integrateGCResponse(), called by run() only.  The condensed array is copied
\* into the present ring; the pointers of the current frame, and only those, are
\* derived from the condensed objects; the epoch counts up at the end.
IntegrateGCResponse ==
  /\ gcpc = "done"
  /\ frameCount > 0
  /\ LET p == Place(ring, gc_integration_epoch + 1)
         tb == [at |-> req.dest, from |-> 0]
         off == IpOffset(Deref(tf_current, mem))
         m == [x \in Array |-> IF x = tb.at THEN SubSeq(new_b, 1, a.from)
                               ELSE IF x = a.at THEN mem[x] ELSE <<>>]
         s == Ensured(frameCount, a, tb, NoArray, m, p)
     IN /\ a' = s.a /\ tf_current' = s.tf /\ vm_current' = s.vm
        /\ mem' = Written(s.tf, s.mem, PointTo(Deref(s.tf, s.mem), p, off))
        /\ b' = tb
        /\ c' = NoArray
  /\ gc_integration_epoch' = gc_integration_epoch + 1
  /\ gcpc' = "idle"
  /\ req' = NoRequest
  /\ new_b' = <<>>
  /\ UNCHANGED <<ring, frameCount>>

\* The frames of arr at which triframes_at_alt() finds one of the live frames.
LiveIn(arr, frames) ==
  {k \in DOMAIN frames :
     LET i == arr.from + k - 1
     IN i < frameCount /\ ArrayOf(i, a, b, c) = arr}

\* klox_on_cb_preresize().
Preresized(arr, frames) ==
  [k \in DOMAIN frames |->
     IF k \in LiveIn(arr, frames) THEN HoldOffset(frames[k]) ELSE frames[k]]

\* klox_on_cb_resize().
Resized(arr, frames) ==
  [k \in DOMAIN frames |->
     IF k \in LiveIn(arr, frames)
       THEN PointTo(frames[k], Place(ring + 1, gc_integration_epoch), IpOffset(frames[k]))
       ELSE frames[k]]

\* klox_on_cb_preresize() and klox_on_cb_resize(), from any allocation.  The old
\* ring is copied when its frames hold offsets, and keeps them.
Resize ==
  /\ ring < MaxRing
  /\ vm_current # None => frameCount > 0
  /\ gcpc = "condensing" => ResizesWhileCondensing
  /\ mem' = [x \in Array |->
               IF x \in {a.at, b.at, c.at}
                 THEN Resized(CHOOSE arr \in {a, b, c} : arr.at = x, mem[x])
                 ELSE mem[x]]
  /\ req' = IF gcpc = "condensing" /\ req.ring = ring
              THEN [ring |-> req.ring, abi |-> req.abi, bbi |-> req.bbi,
                    b |-> Preresized(b, req.b), c |-> Preresized(c, req.c),
                    dest |-> req.dest]
              ELSE req
  /\ tf_current' = Recached(ring + 1, a, b, c)
  /\ vm_current' = IF vm_current = None THEN None ELSE tf_current'
  /\ ring' = ring + 1
  /\ UNCHANGED <<gc_integration_epoch, frameCount, a, b, c, gcpc, new_b>>
-----------------------------------------------------------------------------
(***************************************************************************)
(* The GC thread, in the ring of the request.                              *)
(***************************************************************************)

\* The frame of C or B to be copied next.
Source ==
  IF Len(new_b) < req.bbi THEN req.c[Len(new_b) + 1] ELSE req.b[Len(new_b) - req.bbi + 1]

\* Bug form of Condense: the offset of ip is taken after ip_root was replaced.
CondenseFromStart ==
  /\ gcpc = "condensing"
  /\ Len(new_b) < req.abi
  /\ new_b' = Append(new_b, PointTo(Source, Place(req.ring, gc_integration_epoch + 1), 0))
  /\ UNCHANGED <<ring, gc_integration_epoch, tf, gcpc, req>>

\* gc_perform(): one frame is copied and pointed to the condensed objects.
Condense ==
  /\ gcpc = "condensing"
  /\ Len(new_b) < req.abi
  /\ LET p == Place(req.ring, gc_integration_epoch + 1)
     IN new_b' = Append(new_b, PointTo(Source, p, IpOffset(Source)))
  /\ UNCHANGED <<ring, gc_integration_epoch, tf, gcpc, req>>

Respond ==
  /\ gcpc = "condensing"
  /\ Len(new_b) = req.abi
  /\ gcpc' = "done"
  /\ UNCHANGED <<ring, gc_integration_epoch, tf, req, new_b>>
-----------------------------------------------------------------------------
MainNext ==
  \/ \E f \in Function : Call(f)
  \/ \E n \in Offset : Proceed(n)
  \/ Return
  \/ RuntimeError
  \/ CollectGarbage
  \/ IntegrateGCResponse
  \/ Resize

Next == MainNext \/ Condense \/ Respond

Spec == Init /\ [][Next]_vars
-----------------------------------------------------------------------------
(***************************************************************************)
(* Properties.                                                             *)
(***************************************************************************)
Places == [ring : 0..MaxRing, addr : 0..MaxEpoch]

Frame == [f : Function, root : Places,
          ip : [at : Places \cup {Held}, off : Offset \cup {Junk}], epoch : 0..MaxEpoch]

Region == [at : Array \cup {0}, from : 0..FRAMES_MAX]

FramePointer == {None, Wild} \cup [ring : 0..MaxRing, at : Array, index : 0..FRAMES_MAX]

\* Every variable has its type, and no array is used twice.
TypeOK ==
  /\ ring \in 0..MaxRing
  /\ gc_integration_epoch \in 0..MaxEpoch
  /\ frameCount \in 0..FRAMES_MAX
  /\ {a, b, c} \subseteq Region
  /\ mem \in [Array -> Seq(Frame)]
  /\ {tf_current, vm_current} \subseteq FramePointer
  /\ gcpc \in {"idle", "condensing", "done"}
  /\ req \in [ring : 0..MaxRing, abi : 0..FRAMES_MAX, bbi : 0..FRAMES_MAX,
              b : Seq(Frame), c : Seq(Frame), dest : Array \cup {0}]
  /\ new_b \in Seq(Frame)
  /\ a.at \notin {0, b.at, c.at, req.dest}
  /\ b.at = c.at => b.at = 0

\* While a script runs, vm.currentFrame and triframes.currentFrame are the last
\* frame, in array A, which alone may be written, and in the present ring.
CurrentFrameIsMutable ==
  frameCount > 0 =>
    /\ frameCount > a.from
    /\ vm_current = Pointer(ring, frameCount - 1, a)
    /\ tf_current = vm_current

\* The pointers instructions and constants are read through are those of the
\* current frame's function where it is now: neither in a ring resized meanwhile
\* nor below the bound that a collection has let go of.
CurrentPointersAreFresh ==
  frameCount > 0 =>
    LET fr == FrameAt(frameCount - 1)
    IN fr.root = Here /\ fr.ip.at = Here

\* "CallFrames during consolidation are expected to NOT be using the ip_offset
\* member of the union" (gc_perform()).
CondensedFramesHoldPointers ==
  gcpc = "condensing" /\ Len(new_b) < req.abi => Source.ip.at # Held

\* Whatever is copied, moved or resized, the interpreter has the frames of a
\* stack of calls: none is lost, and each goes on where it was left.
Calls ==
  INSTANCE CallStack WITH
    calls <- [i \in 1..frameCount |-> [f |-> FrameAt(i - 1).f, pc |-> IpOffset(FrameAt(i - 1))]]

CallStackSpec == Calls!Spec
=============================================================================
