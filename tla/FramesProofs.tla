---------------------------- MODULE FramesProofs ----------------------------
(***************************************************************************)
(* That the current frame is writable and its pointers current, in every   *)
(* state of Frames and for every value of its constants; and that Frames   *)
(* implements CallStack, if the ring is not resized while frames are       *)
(* condensed.                                                              *)
(***************************************************************************)
EXTENDS Frames, TLAPS, SequenceTheorems

\* Frames made or derived again no later than in epoch k, and those of them
\* whose ip points into the code the frame's other pointers point into.
FrameTo(k) == {fr \in Frame : fr.epoch <= k}
KeptTo(k) == {fr \in FrameTo(k) : fr.ip.at = fr.root}

\* Only the frames that the GC thread reads may hold an offset instead of ip.
ValuesInv ==
  /\ ring \in 0..MaxRing
  /\ gc_integration_epoch \in 0..MaxEpoch
  /\ frameCount \in 0..FRAMES_MAX
  /\ a \in Region /\ b \in Region /\ c \in Region
  /\ mem \in [Array -> Seq(KeptTo(gc_integration_epoch))]
  /\ tf_current \in FramePointer /\ vm_current \in FramePointer
  /\ gcpc \in {"idle", "condensing", "done"}
  /\ req \in [ring : 0..MaxRing, abi : 0..FRAMES_MAX, bbi : 0..FRAMES_MAX,
              b : Seq(FrameTo(gc_integration_epoch)), c : Seq(FrameTo(gc_integration_epoch)),
              dest : Array \cup {0}]
  /\ new_b \in Seq(KeptTo(gc_integration_epoch))

\* The three arrays hold all frames, and each frame read is in the array read.
ArraysInv ==
  /\ a.at \in Array
  /\ a.at # b.at /\ a.at # c.at /\ a.at # req.dest
  /\ b.at = c.at => b.at = 0
  /\ a.from <= frameCount
  /\ frameCount > 0 => a.from < frameCount
  /\ Len(mem[a.at]) = frameCount - a.from
  /\ b.from < a.from => b.at \in Array /\ a.from <= b.from + Len(mem[b.at])
  /\ c.from = 0
  /\ a.from > 0 /\ b.from > 0 =>
       c.at \in Array /\ (a.from <= Len(mem[c.at]) \/ b.from <= Len(mem[c.at]))
  /\ gcpc = "idle" => b.from = 0

\* The pointers to the last frame, and those it holds.  A frame below has them
\* from the epoch it says; in the present epoch they are right.
CurrentInv ==
  /\ frameCount > 0 => vm_current = Pointer(ring, frameCount - 1, a)
  /\ frameCount > 0 => tf_current = Pointer(ring, frameCount - 1, a)
  /\ frameCount > 0 => FrameAt(frameCount - 1).root = Here
  /\ \A i \in 0..(frameCount - 1) :
       FrameAt(i).epoch = gc_integration_epoch => FrameAt(i).root = Here

\* What the GC thread was asked for is there, and reaches up to A.
CopyInv ==
  gcpc # "idle" =>
    /\ gc_integration_epoch < MaxEpoch
    /\ req.dest \in Array
    /\ a.from <= req.abi
    /\ req.bbi <= req.abi
    /\ req.bbi <= Len(req.c)
    /\ req.abi <= req.bbi + Len(req.b)
    /\ Len(new_b) <= req.abi
    /\ gcpc = "done" => Len(new_b) = req.abi

Inv == ValuesInv /\ ArraysInv /\ CurrentInv /\ CopyInv
-----------------------------------------------------------------------------
(***************************************************************************)
(* Frames and sequences of frames.                                         *)
(***************************************************************************)

\* An offset is a place in the code or junk, whatever the frame points to.
LEMMA OffsetsAreOffsets ==
  ASSUME NEW k \in Int, NEW fr \in FrameTo(k)
  PROVE  IpOffset(fr) \in Offset \cup {Junk} /\ fr \in Frame
BY DEF FrameTo, Frame, IpOffset

\* A frame pointed again points into one code; it stays in its epoch.
LEMMA PointToKeeps ==
  ASSUME NEW k \in Int, NEW fr \in FrameTo(k), NEW p \in Places,
         NEW off \in Offset \cup {Junk}
  PROVE  /\ PointTo(fr, p, off) \in KeptTo(k)
         /\ PointTo(fr, p, off).root = p
         /\ PointTo(fr, p, off).epoch = fr.epoch
         /\ PointTo(fr, p, off).f = fr.f
         /\ IpOffset(PointTo(fr, p, off)) = off
<1>1. PointTo(fr, p, off) \in Frame
  BY DEF PointTo, FrameTo, Frame
<1> QED
  BY <1>1 DEF PointTo, FrameTo, KeptTo, IpOffset

\* A jump changes the offset and nothing else.
LEMMA JumpKeeps ==
  ASSUME NEW k \in Int, NEW fr \in KeptTo(k), NEW off \in Offset
  PROVE  /\ Jump(fr, off) \in KeptTo(k)
         /\ Jump(fr, off).root = fr.root
         /\ Jump(fr, off).epoch = fr.epoch
         /\ Jump(fr, off).f = fr.f
         /\ IpOffset(Jump(fr, off)) = off
<1>1. Jump(fr, off) \in Frame
  BY DEF Jump, FrameTo, KeptTo, Frame
<1> QED
  BY <1>1 DEF Jump, FrameTo, KeptTo, IpOffset

\* A frame that holds its offset is a frame.
LEMMA HoldKeeps ==
  ASSUME NEW k \in Int, NEW fr \in FrameTo(k)
  PROVE  HoldOffset(fr) \in FrameTo(k)
<1>1. IpOffset(fr) \in Offset \cup {Junk} /\ fr \in Frame
  BY OffsetsAreOffsets
<1>2. HoldOffset(fr) \in Frame
  BY <1>1 DEF HoldOffset, Frame
<1> QED
  BY <1>2 DEF HoldOffset, FrameTo

\* A frame of an older epoch is pointed again and is of the present one.
LEMMA RederivedKeeps ==
  ASSUME gc_integration_epoch \in 0..MaxEpoch,
         NEW fr \in KeptTo(gc_integration_epoch), NEW p \in Places
  PROVE  /\ Rederived(fr, p) \in KeptTo(gc_integration_epoch)
         /\ Rederived(fr, p).epoch = gc_integration_epoch
         /\ fr.epoch = gc_integration_epoch => Rederived(fr, p) = fr
         /\ fr.epoch # gc_integration_epoch => Rederived(fr, p).root = p
         /\ Rederived(fr, p).f = fr.f
         /\ IpOffset(Rederived(fr, p)) = IpOffset(fr)
<1>0. gc_integration_epoch \in Int /\ gc_integration_epoch <= gc_integration_epoch
  BY FramesAssumption
<1>1. fr \in FrameTo(gc_integration_epoch) /\ fr.ip.at = fr.root
  BY DEF KeptTo
<1>2. IpOffset(fr) \in Offset \cup {Junk} /\ fr \in Frame
  BY <1>0, <1>1, OffsetsAreOffsets
<1>3. CASE fr.epoch = gc_integration_epoch
  BY <1>3 DEF Rederived
<1>4. CASE fr.epoch # gc_integration_epoch
  <2> DEFINE r == [f |-> fr.f, root |-> p, ip |-> [at |-> p, off |-> IpOffset(fr)],
                   epoch |-> gc_integration_epoch]
  <2>1. Rederived(fr, p) = r
    BY <1>4 DEF Rederived
  <2>2. r \in Frame
    BY <1>2 DEF Frame
  <2>3. r.ip.at = r.root /\ r.epoch <= gc_integration_epoch
    BY <1>0
  <2>4. r \in KeptTo(gc_integration_epoch)
    BY <2>2, <2>3 DEF KeptTo, FrameTo
  <2>5. IpOffset(r) = IpOffset(fr) /\ r.f = fr.f /\ r.root = p /\ r.epoch = gc_integration_epoch
    BY DEF IpOffset
  <2> QED
    BY <1>4, <2>1, <2>4, <2>5
<1> QED
  BY <1>3, <1>4

\* The first frames of an array.
LEMMA Prefix ==
  ASSUME NEW S, NEW s \in Seq(S), NEW k \in Nat, k <= Len(s)
  PROVE  /\ SubSeq(s, 1, k) \in Seq(S)
         /\ Len(SubSeq(s, 1, k)) = k
         /\ \A i \in 1..k : SubSeq(s, 1, k)[i] = s[i]
<1>1. k \in 0..Len(s) /\ 1 \in 1..(Len(s) + 1) /\ k + 1 - 1 = k
  BY LenProperties
<1> QED
  BY <1>1, SubSeqProperties, ElementOfSeq, LenProperties

\* A frame put after the first frames of an array.
LEMMA PrefixAnd ==
  ASSUME NEW S, NEW s \in Seq(S), NEW k \in Nat, k <= Len(s), NEW x \in S
  PROVE  /\ Append(SubSeq(s, 1, k), x) \in Seq(S)
         /\ Len(Append(SubSeq(s, 1, k), x)) = k + 1
         /\ \A i \in 1..k : Append(SubSeq(s, 1, k), x)[i] = s[i]
         /\ Append(SubSeq(s, 1, k), x)[k + 1] = x
<1>1. /\ SubSeq(s, 1, k) \in Seq(S)
      /\ Len(SubSeq(s, 1, k)) = k
      /\ \A i \in 1..k : SubSeq(s, 1, k)[i] = s[i]
  BY Prefix
<1> QED
  BY <1>1, AppendProperties

\* A sequence of members of a set is one of members of a larger set.
LEMMA SeqGrows ==
  ASSUME NEW S, NEW T, S \subseteq T, NEW s \in Seq(S)
  PROVE  s \in Seq(T)
<1>1. Len(s) \in Nat /\ DOMAIN s = 1..Len(s) /\ \A i \in 1..Len(s) : s[i] \in S
  BY LenProperties, ElementOfSeq
<1>2. s = [i \in 1..Len(s) |-> s[i]]
  BY <1>1, LenProperties
<1>3. \A i \in 1..Len(s) : s[i] \in T
  BY <1>1
<1> QED
  BY <1>1, <1>2, <1>3
-----------------------------------------------------------------------------
(***************************************************************************)
(* Where the frames are.                                                   *)
(***************************************************************************)

\* The parts of the invariant that the steps are proved from.
LEMMA InvFacts ==
  ASSUME Inv
  PROVE  /\ FRAMES_MAX \in Nat /\ MaxEpoch \in Nat /\ MaxRing \in Nat
         /\ ValuesInv /\ ArraysInv /\ CurrentInv /\ CopyInv
         /\ ring \in 0..MaxRing /\ ring \in Nat
         /\ gc_integration_epoch \in 0..MaxEpoch /\ gc_integration_epoch \in Nat
         /\ frameCount \in 0..FRAMES_MAX /\ frameCount \in Nat
         /\ a.at \in Array /\ a.from \in 0..FRAMES_MAX /\ a.from \in Nat
         /\ b.at \in Array \cup {0} /\ b.from \in 0..FRAMES_MAX /\ b.from \in Nat
         /\ c.at \in Array \cup {0} /\ c.from = 0
         /\ req.dest \in Array \cup {0}
         /\ Here \in Places
BY FramesAssumption DEF Inv, ValuesInv, ArraysInv, Region, Here, Place, Places

\* triframes_at() reads a frame that is in the array it is taken from.
LEMMA FramesAreThere ==
  ASSUME Inv, NEW i \in 0..(frameCount - 1)
  PROVE  /\ i >= a.from => /\ FrameAt(i) = mem[a.at][i - a.from + 1]
                           /\ i - a.from + 1 \in 1..Len(mem[a.at])
         /\ i < a.from /\ i >= b.from => /\ FrameAt(i) = mem[b.at][i - b.from + 1]
                                         /\ i - b.from + 1 \in 1..Len(mem[b.at])
                                         /\ b.at \in Array
         /\ i < a.from /\ i < b.from => /\ FrameAt(i) = mem[c.at][i + 1]
                                        /\ i + 1 \in 1..Len(mem[c.at])
                                        /\ c.at \in Array
         /\ FrameAt(i) \in KeptTo(gc_integration_epoch)
<1>0. /\ frameCount \in Nat /\ a.from \in Nat /\ b.from \in Nat /\ c.from = 0
      /\ i \in Nat /\ i < frameCount /\ a.at \in Array
      /\ ArraysInv
      /\ mem \in [Array -> Seq(KeptTo(gc_integration_epoch))]
  <2>1. /\ frameCount \in Nat /\ a.from \in Nat /\ b.from \in Nat /\ c.from = 0
        /\ a.at \in Array /\ ArraysInv /\ ValuesInv
    BY InvFacts
  <2>2. i \in Nat /\ i < frameCount
    BY <2>1
  <2> QED
    BY <2>1, <2>2 DEF ValuesInv
<1>1. CASE i >= a.from
  <2>1. FrameAt(i) = mem[a.at][i - a.from + 1]
    BY <1>1 DEF FrameAt, FrameIn, ArrayOf
  <2>2. i - a.from + 1 \in 1..(frameCount - a.from) /\ Len(mem[a.at]) = frameCount - a.from
    BY <1>0, <1>1 DEF ArraysInv
  <2>3. FrameAt(i) \in KeptTo(gc_integration_epoch)
    BY <1>0, <2>1, <2>2, ElementOfSeq
  <2> QED
    BY <1>0, <1>1, <2>1, <2>2, <2>3
<1>2. CASE i < a.from /\ i >= b.from
  <2>1. FrameAt(i) = mem[b.at][i - b.from + 1]
    BY <1>0, <1>2 DEF FrameAt, FrameIn, ArrayOf
  <2>2. b.at \in Array /\ a.from <= b.from + Len(mem[b.at])
    BY <1>0, <1>2 DEF ArraysInv
  <2>3. mem[b.at] \in Seq(KeptTo(gc_integration_epoch)) /\ Len(mem[b.at]) \in Nat
    BY <1>0, <2>2, LenProperties
  <2> DEFINE l == Len(mem[b.at])
             j == b.from
             k == a.from
  <2>4. l \in Nat /\ j \in Nat /\ k \in Nat /\ k <= j + l /\ i < k /\ i >= j
    BY <1>0, <1>2, <2>2, <2>3
  <2> HIDE DEF l, j, k
  <2>5. i - j + 1 \in 1..l
    BY <1>0, <2>4
  <2>6. i - b.from + 1 \in 1..Len(mem[b.at])
    BY <2>5 DEF l, j
  <2>7. FrameAt(i) \in KeptTo(gc_integration_epoch)
    BY <2>1, <2>3, <2>6, ElementOfSeq
  <2> QED
    BY <1>0, <1>2, <2>1, <2>2, <2>6, <2>7
<1>3. CASE i < a.from /\ i < b.from
  <2>1. FrameAt(i) = mem[c.at][i + 1]
    BY <1>0, <1>3 DEF FrameAt, FrameIn, ArrayOf
  <2>2. c.at \in Array /\ (a.from <= Len(mem[c.at]) \/ b.from <= Len(mem[c.at]))
    BY <1>0, <1>3 DEF ArraysInv
  <2>3. mem[c.at] \in Seq(KeptTo(gc_integration_epoch)) /\ Len(mem[c.at]) \in Nat
    BY <1>0, <2>2, LenProperties
  <2>4. i + 1 \in 1..Len(mem[c.at])
    BY <1>0, <1>3, <2>2, <2>3
  <2>5. FrameAt(i) \in KeptTo(gc_integration_epoch)
    BY <2>1, <2>3, <2>4, ElementOfSeq
  <2> QED
    BY <1>0, <1>3, <2>1, <2>2, <2>4, <2>5
<1> QED
  BY <1>0, <1>1, <1>2, <1>3

\* The last frame is in A.
LEMMA LastIsInA ==
  ASSUME Inv, frameCount > 0
  PROVE  /\ a.from <= frameCount - 1
         /\ frameCount - 1 \in 0..(frameCount - 1)
         /\ frameCount - a.from \in 1..Len(mem[a.at]) /\ Len(mem[a.at]) = frameCount - a.from
         /\ FrameAt(frameCount - 1) = mem[a.at][frameCount - a.from]
         /\ FrameAt(frameCount - 1) \in KeptTo(gc_integration_epoch)
         /\ Deref(vm_current, mem) = FrameAt(frameCount - 1)
         /\ Deref(tf_current, mem) = FrameAt(frameCount - 1)
<1>1. /\ frameCount \in Nat /\ a.from \in Nat /\ a.from < frameCount
      /\ Len(mem[a.at]) = frameCount - a.from
  BY InvFacts DEF ArraysInv
<1>2. frameCount - 1 - a.from + 1 = frameCount - a.from
  BY <1>1
<1>3. /\ FrameAt(frameCount - 1) = mem[a.at][frameCount - a.from]
      /\ FrameAt(frameCount - 1) \in KeptTo(gc_integration_epoch)
  BY <1>1, <1>2, FramesAreThere, SMTT(20)
<1>4. /\ vm_current = Pointer(ring, frameCount - 1, a)
      /\ tf_current = Pointer(ring, frameCount - 1, a)
  BY InvFacts DEF CurrentInv
<1>5. /\ Deref(vm_current, mem) = mem[a.at][frameCount - a.from]
      /\ Deref(tf_current, mem) = mem[a.at][frameCount - a.from]
  BY <1>2, <1>4 DEF Deref, Pointer
<1> QED
  BY <1>1, <1>3, <1>5

\* Four arrays leave one of five.
LEMMA FreshIsFresh ==
  ASSUME NEW p, NEW q, NEW r, NEW s
  PROVE  Fresh({p, q, r, s}) \in Array /\ Fresh({p, q, r, s}) \notin {p, q, r, s}
<1>1. \E x \in Array : x \notin {p, q, r, s}
  BY DEF Array
<1> QED
  BY <1>1 DEF Fresh

\* Nor do three.
LEMMA FreshOfThree ==
  ASSUME NEW p, NEW q, NEW r
  PROVE  Fresh({p, q, r}) \in Array /\ Fresh({p, q, r}) \notin {p, q, r}
<1>1. {p, q, r, r} = {p, q, r}
  OBVIOUS
<1> QED
  BY <1>1, FreshIsFresh

\* A pointer into A is one a frame pointer can be.
LEMMA PointersIntoA ==
  ASSUME FRAMES_MAX \in Nat, NEW r \in 0..MaxRing, NEW i \in 0..(FRAMES_MAX - 1),
         NEW arr, arr.at \in Array, arr.from \in Nat, arr.from <= i
  PROVE  Pointer(r, i, arr) \in FramePointer
BY DEF Pointer, FramePointer

\* A frame that a step neither writes nor moves.
LEMMA FrameStays ==
  ASSUME Inv, NEW i \in 0..(frameCount - 1),
         a'.at = a.at, i >= a'.from <=> i >= a.from, i >= a.from => a'.from = a.from,
         b' = b, c' = c,
         \A x \in Array : x # a.at => mem'[x] = mem[x],
         i >= a.from => mem'[a.at][i - a.from + 1] = mem[a.at][i - a.from + 1]
  PROVE  FrameAt(i)' = FrameAt(i)
<1>1. FrameAt(i)' = FrameIn(i, ArrayOf(i, a', b', c'), mem')
  BY DEF FrameAt
<1>2. b.at # a.at /\ c.at # a.at /\ c.from = 0
  BY InvFacts DEF ArraysInv
<1>3. CASE i >= a.from
  BY <1>1, <1>3, FramesAreThere DEF ArrayOf, FrameIn
<1>4. CASE i < a.from /\ i >= b.from
  <2>1. ~(i >= a'.from)
    BY <1>4, InvFacts
  <2>2. FrameAt(i)' = mem'[b.at][i - b.from + 1]
    BY <1>1, <1>4, <2>1 DEF ArrayOf, FrameIn
  <2> QED
    BY <1>2, <1>4, <2>2, FramesAreThere
<1>5. CASE i < a.from /\ i < b.from
  <2>1. ~(i >= a'.from) /\ ~(i >= b.from)
    BY <1>5, InvFacts
  <2>2. FrameAt(i)' = mem'[c.at][i - c.from + 1] /\ i - c.from + 1 = i + 1
    BY <1>1, <1>2, <2>1 DEF ArrayOf, FrameIn
  <2> QED
    BY <1>2, <1>5, <2>2, FramesAreThere
<1> QED
  BY <1>3, <1>4, <1>5, InvFacts
-----------------------------------------------------------------------------
(***************************************************************************)
(* The steps of the interpreter.                                           *)
(***************************************************************************)

\* The interpreter starts without frames.
LEMMA InitIsInv == Init => Inv
<1> SUFFICES ASSUME Init PROVE Inv
  OBVIOUS
<1>1. ValuesInv
  BY FramesAssumption DEF Init, ValuesInv, Region, FramePointer, NoArray, NoRequest, Array
<1>2. ArraysInv
  <2>1. mem[a.at] = <<>> /\ Len(<<>>) = 0
    BY DEF Init, Array
  <2> QED
    BY <2>1 DEF Init, ArraysInv, NoArray, NoRequest, Array
<1>3. CurrentInv
  BY DEF Init, CurrentInv
<1>4. CopyInv
  BY DEF Init, CopyInv
<1> QED
  BY <1>1, <1>2, <1>3, <1>4 DEF Inv

\* What a call does to the frames: one more, and the others stay.
LEMMA CallEffect ==
  ASSUME Inv, NEW f \in Function, Call(f)
  PROVE  /\ frameCount' = frameCount + 1
         /\ \A i \in 0..(frameCount - 1) : FrameAt(i)' = FrameAt(i)
         /\ \A i \in {frameCount} : FrameAt(i)' = NewFrame(f)
         /\ mem' \in [Array -> Seq(KeptTo(gc_integration_epoch))]
         /\ \A x \in Array : x # a.at => mem'[x] = mem[x]
         /\ Len(mem'[a.at]) = frameCount + 1 - a.from
         /\ NewFrame(f) \in KeptTo(gc_integration_epoch)
         /\ NewFrame(f).root = Here
<1> DEFINE k == frameCount - a.from
           s == mem[a.at]
           K == KeptTo(gc_integration_epoch)
           t == Append(SubSeq(s, 1, k), NewFrame(f))
<1>1. /\ mem \in [Array -> Seq(K)]
      /\ frameCount \in Nat /\ a.from \in Nat /\ b.from \in Nat /\ c.from = 0
      /\ a.at \in Array
      /\ k \in Nat /\ Len(s) = k
  <2>1. mem \in [Array -> Seq(K)]
    BY InvFacts DEF ValuesInv
  <2>2. a.from <= frameCount /\ Len(s) = k
    BY InvFacts DEF ArraysInv
  <2> QED
    BY <2>1, <2>2, InvFacts, SMTT(20)
<1>2. NewFrame(f) \in K /\ NewFrame(f).root = Here
  <2>1. Here \in Places /\ gc_integration_epoch \in 0..MaxEpoch /\ gc_integration_epoch \in Nat
        /\ 0 \in Offset
    BY InvFacts, FramesAssumption
  <2>2. NewFrame(f) \in Frame
    BY <2>1 DEF NewFrame, Frame
  <2> QED
    BY <2>1, <2>2 DEF NewFrame, KeptTo, FrameTo
<1>3. mem' = [mem EXCEPT ![a.at] = t]
  BY DEF Call
<1> HIDE DEF K
<1>4. s \in Seq(K)
  BY <1>1
<1>5. /\ t \in Seq(K) /\ Len(t) = k + 1 /\ t[k + 1] = NewFrame(f)
      /\ \A i \in 1..k : t[i] = s[i]
  <2> HIDE DEF k, s
  <2> QED
    BY <1>1, <1>2, <1>4, PrefixAnd
<1> HIDE DEF t
<1>6. mem' \in [Array -> Seq(K)] /\ mem'[a.at] = t /\ \A x \in Array : x # a.at => mem'[x] = mem[x]
  BY <1>1, <1>3, <1>5
<1>7. a' = a /\ b' = b /\ c' = c /\ frameCount' = frameCount + 1
  BY DEF Call
<1>8. ASSUME NEW i \in 0..(frameCount - 1)
      PROVE  FrameAt(i)' = FrameAt(i)
  <2>1. i >= a.from => i - a.from + 1 \in 1..k
    BY <1>1
  <2>2. i >= a.from => mem'[a.at][i - a.from + 1] = mem[a.at][i - a.from + 1]
    BY <1>5, <1>6, <2>1
  <2> QED
    BY <1>6, <1>7, <2>2, FrameStays
<1>9. ASSUME NEW i \in {frameCount}
      PROVE  FrameAt(i)' = NewFrame(f)
  <2>1. FrameAt(i)' = FrameIn(i, ArrayOf(i, a, b, c), mem')
    BY <1>7 DEF FrameAt
  <2>2. i >= a.from /\ i - a.from + 1 = k + 1
    BY <1>1
  <2>3. ArrayOf(i, a, b, c) = a
    BY <2>2 DEF ArrayOf
  <2>4. FrameIn(i, a, mem') = t[k + 1]
    BY <1>6, <2>2 DEF FrameIn
  <2> QED
    BY <1>5, <2>1, <2>3, <2>4
<1> QED
  BY <1>1, <1>2, <1>5, <1>6, <1>7, <1>8, <1>9 DEF K

\* A call keeps the invariant.
LEMMA CallKeepsInv ==
  ASSUME Inv, NEW f \in Function, Call(f)
  PROVE  Inv'
<1>1. /\ frameCount' = frameCount + 1
      /\ \A i \in 0..(frameCount - 1) : FrameAt(i)' = FrameAt(i)
      /\ \A i \in {frameCount} : FrameAt(i)' = NewFrame(f)
      /\ mem' \in [Array -> Seq(KeptTo(gc_integration_epoch))]
      /\ \A x \in Array : x # a.at => mem'[x] = mem[x]
      /\ Len(mem'[a.at]) = frameCount + 1 - a.from
      /\ NewFrame(f).root = Here
  BY CallEffect
<1>2. /\ UNCHANGED <<ring, gc_integration_epoch, a, b, c, gcpc, req, new_b>>
      /\ frameCount < FRAMES_MAX
      /\ tf_current' = Pointer(ring, frameCount, a)
      /\ vm_current' = Pointer(ring, frameCount, a)
  BY DEF Call
<1>3. /\ FRAMES_MAX \in Nat /\ frameCount \in Nat /\ a.from \in Nat /\ a.at \in Array
      /\ a.from <= frameCount /\ ring \in 0..MaxRing /\ ValuesInv /\ ArraysInv
  BY InvFacts DEF ArraysInv
<1>4. ValuesInv'
  <2>1. Pointer(ring, frameCount, a) \in FramePointer
    <3>1. frameCount \in 0..(FRAMES_MAX - 1)
      BY <1>2, <1>3
    <3> QED
      BY <1>3, <3>1, PointersIntoA
  <2>2. frameCount' \in 0..FRAMES_MAX
    BY <1>1, <1>2, <1>3
  <2> QED
    BY <1>1, <1>2, <1>3, <2>1, <2>2 DEF ValuesInv
<1>5. ArraysInv'
  <2>1. b.at \in Array => mem'[b.at] = mem[b.at]
    BY <1>1, <1>3 DEF ArraysInv
  <2>2. c.at \in Array => mem'[c.at] = mem[c.at]
    BY <1>1, <1>3 DEF ArraysInv
  <2>3. a.from <= frameCount' /\ a.from < frameCount'
    BY <1>1, <1>3
  <2> QED
    BY <1>1, <1>2, <1>3, <2>1, <2>2, <2>3, SMTT(20) DEF ArraysInv
<1>6. CurrentInv'
  <2>1. frameCount' - 1 = frameCount /\ 0..(frameCount' - 1) = 0..(frameCount - 1) \cup {frameCount}
    BY <1>1, <1>3
  <2>2. Here' = Here
    BY <1>2 DEF Here
  <2>3. ASSUME NEW i \in 0..(frameCount' - 1), FrameAt(i)'.epoch = gc_integration_epoch
        PROVE  FrameAt(i)'.root = Here
    BY <1>1, <2>1, <2>3, InvFacts DEF CurrentInv
  <2>4. ASSUME NEW i, i = frameCount
        PROVE  FrameAt(i)'.root = Here
    BY <1>1, <2>4
  <2>5. FrameAt(frameCount - 1)'.root = Here
    <3> DEFINE d == frameCount
    <3>1. ASSUME NEW i, i = frameCount' - 1
          PROVE  FrameAt(i)'.root = Here
      BY <2>1, <2>4, <3>1
    <3> QED
      BY <3>1 DEF FrameAt
  <2> QED
    BY <1>2, <2>1, <2>2, <2>3, <2>5 DEF CurrentInv
<1>7. CopyInv'
  BY <1>2, InvFacts DEF CopyInv
<1> QED
  BY <1>4, <1>5, <1>6, <1>7 DEF Inv

\* What an instruction does to the frames: the last goes on elsewhere.
LEMMA ProceedEffect ==
  ASSUME Inv, NEW n \in Offset, Proceed(n)
  PROVE  /\ \A i \in 0..(frameCount - 1) :
              FrameAt(i)' = IF i = frameCount - 1 THEN Jump(FrameAt(i), n) ELSE FrameAt(i)
         /\ mem' \in [Array -> Seq(KeptTo(gc_integration_epoch))]
         /\ \A x \in Array : x # a.at => mem'[x] = mem[x]
         /\ Len(mem'[a.at]) = Len(mem[a.at])
<1> DEFINE k == frameCount - a.from
           K == KeptTo(gc_integration_epoch)
           cur == FrameAt(frameCount - 1)
           ptr == Pointer(ring, frameCount - 1, a)
<1>1. /\ frameCount > 0 /\ mem' = Written(vm_current, mem, Jump(Deref(vm_current, mem), n))
      /\ a' = a /\ b' = b /\ c' = c /\ frameCount' = frameCount
  BY DEF Proceed
<1>2. /\ k \in 1..Len(mem[a.at]) /\ cur = mem[a.at][k] /\ cur \in K
      /\ Deref(vm_current, mem) = cur
      /\ a.from <= frameCount - 1
  BY <1>1, LastIsInA
<1>3. vm_current = ptr
  BY <1>1, InvFacts DEF CurrentInv
<1>4. /\ mem \in [Array -> Seq(K)] /\ a.at \in Array
      /\ frameCount \in Nat /\ a.from \in Nat /\ gc_integration_epoch \in Int
  BY InvFacts DEF ValuesInv
<1>5. mem' = Written(ptr, mem, Jump(cur, n)) /\ Jump(cur, n) \in K
  BY <1>1, <1>2, <1>3, <1>4, JumpKeeps
<1>6. /\ mem' \in [Array -> Seq(K)]
      /\ \A x \in Array : x # a.at => mem'[x] = mem[x]
      /\ Len(mem'[a.at]) = Len(mem[a.at])
      /\ mem'[a.at][k] = Jump(cur, n)
      /\ \A j \in 1..Len(mem[a.at]) : j # k => mem'[a.at][j] = mem[a.at][j]
  <2> DEFINE moved == Jump(cur, n)
  <2>1. ptr.at = a.at /\ ptr.index + 1 = k
    BY <1>4 DEF Pointer
  <2>2. k \in 1..Len(mem[a.at]) /\ moved \in K /\ mem' = Written(ptr, mem, moved)
    BY <1>2, <1>5
  <2> DEFINE s == mem[a.at]
             t == [s EXCEPT ![k] = moved]
  <2>3. mem' = [mem EXCEPT ![a.at] = t]
    BY <2>1, <2>2 DEF Written
  <2>4. s \in Seq(K)
    BY <1>4
  <2>5. /\ t \in Seq(K) /\ Len(t) = Len(s) /\ t[k] = moved
        /\ \A j \in 1..Len(s) : j # k => t[j] = s[j]
    <3> HIDE DEF s, k, moved, K
    <3> QED
      BY <2>2, <2>4, ExceptSeq, LenProperties DEF s
  <2> HIDE DEF t, k, moved, K
  <2>6. /\ mem' \in [Array -> Seq(K)] /\ mem'[a.at] = t
        /\ \A x \in Array : x # a.at => mem'[x] = mem[x]
    BY <1>4, <2>3, <2>5
  <2> QED
    BY <2>5, <2>6 DEF moved
<1>7. ASSUME NEW i \in 0..(frameCount - 1)
      PROVE  FrameAt(i)' = IF i = frameCount - 1 THEN Jump(FrameAt(i), n) ELSE FrameAt(i)
  <2>1. CASE i = frameCount - 1
    <3>1. FrameAt(i)' = FrameIn(i, ArrayOf(i, a, b, c), mem')
      BY <1>1 DEF FrameAt
    <3>2. i >= a.from /\ i - a.from + 1 = k
      BY <1>2, <1>4, <2>1
    <3>3. ArrayOf(i, a, b, c) = a
      BY <3>2 DEF ArrayOf
    <3>4. FrameIn(i, a, mem') = Jump(cur, n)
      BY <1>6, <3>2 DEF FrameIn
    <3> QED
      BY <2>1, <3>1, <3>3, <3>4
  <2>2. CASE i # frameCount - 1
    <3>1. i >= a.from => i - a.from + 1 \in 1..Len(mem[a.at]) /\ i - a.from + 1 # k
      BY <1>4, <2>2, FramesAreThere
    <3>2. i >= a.from => mem'[a.at][i - a.from + 1] = mem[a.at][i - a.from + 1]
      BY <1>6, <3>1
    <3> QED
      BY <1>1, <1>6, <2>2, <3>2, FrameStays
  <2> QED
    BY <2>1, <2>2
<1> QED
  BY <1>6, <1>7

\* An instruction keeps the invariant.
LEMMA ProceedKeepsInv ==
  ASSUME Inv, NEW n \in Offset, Proceed(n)
  PROVE  Inv'
<1>1. /\ \A i \in 0..(frameCount - 1) :
           FrameAt(i)' = IF i = frameCount - 1 THEN Jump(FrameAt(i), n) ELSE FrameAt(i)
      /\ mem' \in [Array -> Seq(KeptTo(gc_integration_epoch))]
      /\ \A x \in Array : x # a.at => mem'[x] = mem[x]
      /\ Len(mem'[a.at]) = Len(mem[a.at])
  BY ProceedEffect
<1>2. /\ UNCHANGED <<ring, gc_integration_epoch, frameCount, a, b, c, tf_current, vm_current,
                     gcpc, req, new_b>>
      /\ frameCount > 0
  BY DEF Proceed
<1>3. a.at \in Array /\ ValuesInv /\ ArraysInv /\ CurrentInv /\ gc_integration_epoch \in Int
  BY InvFacts
<1>4. ValuesInv'
  BY <1>1, <1>2, <1>3 DEF ValuesInv
<1>5. ArraysInv'
  <2>1. b.at \in Array => mem'[b.at] = mem[b.at]
    BY <1>1, <1>3 DEF ArraysInv
  <2>2. c.at \in Array => mem'[c.at] = mem[c.at]
    BY <1>1, <1>3 DEF ArraysInv
  <2> QED
    BY <1>1, <1>2, <1>3, <2>1, <2>2 DEF ArraysInv
<1>6. CurrentInv'
  <2>1. ASSUME NEW i \in 0..(frameCount - 1)
        PROVE  FrameAt(i)'.root = FrameAt(i).root /\ FrameAt(i)'.epoch = FrameAt(i).epoch
    <3>1. FrameAt(i) \in KeptTo(gc_integration_epoch)
      BY FramesAreThere
    <3> QED
      BY <1>1, <1>3, <3>1, JumpKeeps
  <2>2. Here' = Here
    BY <1>2 DEF Here
  <2>3. \A i \in 0..(frameCount - 1) : FrameAt(i)'.epoch = gc_integration_epoch => FrameAt(i)'.root = Here
    BY <1>3, <2>1 DEF CurrentInv
  <2>4. FrameAt(frameCount - 1)'.root = Here
    <3>1. FrameAt(frameCount - 1).root = Here /\ frameCount - 1 \in 0..(frameCount - 1)
      BY <1>2, <1>3, LastIsInA DEF CurrentInv
    <3>2. ASSUME NEW i \in 0..(frameCount - 1), i = frameCount' - 1
          PROVE  FrameAt(i)'.root = Here
      BY <1>2, <2>1, <3>1, <3>2
    <3> QED
      BY <1>2, <3>1, <3>2 DEF FrameAt
  <2> QED
    BY <1>2, <1>3, <2>2, <2>3, <2>4 DEF CurrentInv
<1>7. CopyInv'
  BY <1>2, InvFacts DEF CopyInv
<1> QED
  BY <1>4, <1>5, <1>6, <1>7 DEF Inv

\* What a return does to the frames: the last is gone, and the one below is
\* pointed again if it was not in this epoch.
LEMMA ReturnEffect ==
  ASSUME Inv, Return
  PROVE  /\ frameCount' = frameCount - 1
         /\ \A i \in 0..(frameCount - 2) :
              FrameAt(i)' = IF i = frameCount - 2 THEN Rederived(FrameAt(i), Here) ELSE FrameAt(i)
         /\ mem' \in [Array -> Seq(KeptTo(gc_integration_epoch))]
         /\ \A x \in Array : x # a.at => mem'[x] = mem[x]
         /\ a'.at = a.at /\ a' \in Region
         /\ a'.from <= a.from
         /\ frameCount' = 0 => a'.from = 0
         /\ frameCount' > 0 => a'.from < frameCount'
         /\ Len(mem'[a.at]) = frameCount' - a'.from
         /\ frameCount' > 0 => /\ vm_current' = Pointer(ring, frameCount' - 1, a')
                               /\ tf_current' = Pointer(ring, frameCount' - 1, a')
         /\ vm_current' \in FramePointer /\ tf_current' \in FramePointer
<1> DEFINE K == KeptTo(gc_integration_epoch)
<1>0. /\ frameCount > 0 /\ frameCount' = frameCount - 1 /\ b' = b /\ c' = c
      /\ frameCount \in 0..FRAMES_MAX /\ frameCount \in Nat /\ FRAMES_MAX \in Nat
      /\ a.from \in Nat /\ a.at \in Array /\ a \in Region
      /\ a.from < frameCount /\ Len(mem[a.at]) = frameCount - a.from
      /\ mem \in [Array -> Seq(K)] /\ ring \in 0..MaxRing
      /\ vm_current \in FramePointer /\ tf_current \in FramePointer
  <2>1. frameCount > 0 /\ frameCount' = frameCount - 1 /\ b' = b /\ c' = c
    BY DEF Return
  <2>2. a.from < frameCount /\ Len(mem[a.at]) = frameCount - a.from
    BY <2>1, InvFacts DEF ArraysInv
  <2> QED
    BY <2>1, <2>2, InvFacts DEF ValuesInv
<1>1. CASE frameCount = 1
  <2>1. /\ a' = a /\ mem' = [mem EXCEPT ![a.at] = <<>>]
        /\ tf_current' = tf_current /\ vm_current' = vm_current
    BY <1>0, <1>1 DEF Return, Ensured
  <2>2. <<>> \in Seq(K) /\ Len(<<>>) = 0
    OBVIOUS
  <2> HIDE DEF K
  <2>3. mem' \in [Array -> Seq(K)] /\ Len(mem'[a.at]) = 0 /\ \A x \in Array : x # a.at => mem'[x] = mem[x]
    BY <1>0, <2>1, <2>2
  <2>4. a.from = 0 /\ frameCount' = 0 /\ 0..(frameCount - 2) = {}
    BY <1>0, <1>1
  <2> QED
    BY <1>0, <1>1, <2>1, <2>3, <2>4 DEF K
<1>2. CASE frameCount > 1
  <2> DEFINE k == frameCount - 1
             from == IF k - 1 >= a.from THEN a.from ELSE k - 1
             fr == FrameAt(k - 1)
             t == Append(SubSeq(mem[a.at], 1, k - 1 - from), Rederived(fr, Here))
  <2>1. k \in Nat /\ k > 0 /\ k - 1 \in 0..(frameCount - 1) /\ k - 1 \in 0..(FRAMES_MAX - 1)
    BY <1>0, <1>2
  <2>2. from \in Nat /\ from <= a.from /\ from <= k - 1 /\ from \in 0..FRAMES_MAX
    BY <1>0, <2>1
  <2>3. fr \in K /\ fr = FrameIn(k - 1, ArrayOf(k - 1, a, b, c), mem)
    BY <2>1, FramesAreThere DEF FrameAt
  <2>4. /\ a' = [at |-> a.at, from |-> from]
        /\ mem' = [mem EXCEPT ![a.at] = t]
        /\ tf_current' = Pointer(ring, k - 1, a') /\ vm_current' = Pointer(ring, k - 1, a')
    <3> DEFINE s == Ensured(k, a, b, c, mem, Here)
    <3>1. a' = s.a /\ mem' = s.mem /\ tf_current' = s.tf /\ vm_current' = s.vm
      BY DEF Return
    <3>2. /\ s.a = [at |-> a.at, from |-> from] /\ s.mem = [mem EXCEPT ![a.at] = t]
          /\ s.tf = Pointer(ring, k - 1, s.a) /\ s.vm = Pointer(ring, k - 1, s.a)
      <4> HIDE DEF k, fr, from
      <4>1. from = IF k - 1 >= a.from THEN a.from ELSE k - 1
        BY DEF from
      <4> QED
        BY <2>1, <2>3, <4>1 DEF Ensured
    <3> HIDE DEF s
    <3> QED
      BY <3>1, <3>2
  <2>5. Rederived(fr, Here) \in K
    BY <2>3, RederivedKeeps, InvFacts
  <2>6. /\ t \in Seq(K) /\ Len(t) = k - from
        /\ \A j \in 1..(k - 1 - from) : t[j] = mem[a.at][j]
        /\ t[k - from] = Rederived(fr, Here)
    <3> DEFINE d == k - 1 - from
    <3>1. d \in Nat /\ d <= Len(mem[a.at]) /\ d + 1 = k - from
      BY <1>0, <2>1, <2>2
    <3>2. mem[a.at] \in Seq(K)
      BY <1>0
    <3> HIDE DEF d, K
    <3>3. /\ Append(SubSeq(mem[a.at], 1, d), Rederived(fr, Here)) \in Seq(K)
          /\ Len(Append(SubSeq(mem[a.at], 1, d), Rederived(fr, Here))) = d + 1
          /\ \A i \in 1..d : Append(SubSeq(mem[a.at], 1, d), Rederived(fr, Here))[i] = mem[a.at][i]
          /\ Append(SubSeq(mem[a.at], 1, d), Rederived(fr, Here))[d + 1] = Rederived(fr, Here)
      BY <2>5, <3>1, <3>2, PrefixAnd
    <3>4. t = Append(SubSeq(mem[a.at], 1, d), Rederived(fr, Here))
      BY DEF d
    <3>5. k - 1 - from = d
      BY DEF d
    <3> QED
      BY <3>1, <3>3, <3>4, <3>5
  <2> HIDE DEF t, K, from
  <2>7. mem' \in [Array -> Seq(K)] /\ mem'[a.at] = t /\ \A x \in Array : x # a.at => mem'[x] = mem[x]
    BY <1>0, <2>4, <2>6
  <2>8. ASSUME NEW i \in 0..(frameCount - 2)
        PROVE  FrameAt(i)' = IF i = frameCount - 2 THEN Rederived(FrameAt(i), Here) ELSE FrameAt(i)
    <3>1. CASE i = frameCount - 2
      <4>1. FrameAt(i)' = FrameIn(i, ArrayOf(i, a', b, c), mem') /\ i = k - 1
        BY <1>0, <3>1 DEF FrameAt
      <4>2. i >= a'.from /\ i - a'.from + 1 = k - from
        BY <2>2, <2>4, <4>1, <1>0
      <4>3. ArrayOf(i, a', b, c) = a'
        BY <4>2 DEF ArrayOf
      <4>4. FrameIn(i, a', mem') = Rederived(fr, Here)
        BY <2>4, <2>6, <2>7, <4>2 DEF FrameIn
      <4> QED
        BY <3>1, <4>1, <4>3, <4>4
    <3>2. CASE i # frameCount - 2
      <4>1. i \in 0..(frameCount - 1) /\ i < k - 1
        BY <1>0, <3>2
      <4>2. a'.at = a.at /\ a'.from = from
        BY <2>4
      <4>3. (i >= from <=> i >= a.from) /\ (i >= a.from => from = a.from)
        BY <1>0, <2>1, <4>1 DEF from
      <4>4. i >= a.from => i - a.from + 1 \in 1..(k - 1 - from)
        BY <1>0, <2>1, <2>2, <4>1, <4>3
      <4>5. i >= a.from => mem'[a.at][i - a.from + 1] = mem[a.at][i - a.from + 1]
        BY <2>6, <2>7, <4>4
      <4> QED
        BY <1>0, <2>7, <3>2, <4>1, <4>2, <4>3, <4>5, FrameStays
    <3> QED
      BY <3>1, <3>2
  <2>9. a' \in Region /\ a'.at = a.at /\ a'.from = from
    BY <1>0, <2>2, <2>4 DEF Region
  <2>10. Pointer(ring, k - 1, a') \in FramePointer
    BY <1>0, <2>1, <2>2, <2>9, PointersIntoA
  <2> QED
    BY <1>0, <1>2, <2>1, <2>2, <2>4, <2>6, <2>7, <2>8, <2>9, <2>10, SMTT(20) DEF K
<1> QED
  BY <1>0, <1>1, <1>2

\* A return keeps the invariant.
LEMMA ReturnKeepsInv ==
  ASSUME Inv, Return
  PROVE  Inv'
<1>1. /\ frameCount' = frameCount - 1
      /\ \A i \in 0..(frameCount - 2) :
           FrameAt(i)' = IF i = frameCount - 2 THEN Rederived(FrameAt(i), Here) ELSE FrameAt(i)
      /\ mem' \in [Array -> Seq(KeptTo(gc_integration_epoch))]
      /\ \A x \in Array : x # a.at => mem'[x] = mem[x]
      /\ a'.at = a.at /\ a' \in Region
      /\ a'.from <= a.from
      /\ frameCount' = 0 => a'.from = 0
      /\ frameCount' > 0 => a'.from < frameCount'
      /\ Len(mem'[a.at]) = frameCount' - a'.from
      /\ frameCount' > 0 => /\ vm_current' = Pointer(ring, frameCount' - 1, a')
                            /\ tf_current' = Pointer(ring, frameCount' - 1, a')
      /\ vm_current' \in FramePointer /\ tf_current' \in FramePointer
  BY ReturnEffect
<1>2. /\ UNCHANGED <<ring, gc_integration_epoch, b, c, gcpc, req, new_b>>
      /\ frameCount > 0
  BY DEF Return
<1>3. /\ ValuesInv /\ ArraysInv /\ CurrentInv /\ CopyInv
      /\ a.at \in Array /\ a.from \in Nat /\ b.from \in Nat
      /\ frameCount \in Nat /\ frameCount \in 0..FRAMES_MAX /\ FRAMES_MAX \in Nat
      /\ gc_integration_epoch \in 0..MaxEpoch /\ Here \in Places
  BY InvFacts
<1>4. a'.from \in Nat /\ frameCount' \in 0..FRAMES_MAX
  BY <1>1, <1>2, <1>3 DEF Region
<1>5. ValuesInv'
  BY <1>1, <1>2, <1>3, <1>4 DEF ValuesInv
<1>6. ArraysInv'
  <2>1. b.at \in Array => mem'[b.at] = mem[b.at]
    BY <1>1, <1>3 DEF ArraysInv
  <2>2. c.at \in Array => mem'[c.at] = mem[c.at]
    BY <1>1, <1>3 DEF ArraysInv
  <2>3. /\ a'.at = a.at /\ a'.at \in Array
        /\ a'.at # b'.at /\ a'.at # c'.at /\ a'.at # req'.dest
        /\ (b'.at = c'.at => b'.at = 0) /\ c'.from = 0 /\ (gcpc' = "idle" => b'.from = 0)
    BY <1>1, <1>2, <1>3 DEF ArraysInv
  <2>4. a'.from <= frameCount' /\ Len(mem'[a'.at]) = frameCount' - a'.from
    BY <1>1, <1>3, <1>4
  <2>5. b.from < a'.from => b.at \in Array /\ a'.from <= b.from + Len(mem'[b.at])
    <3>1. ASSUME b.from < a'.from
          PROVE  b.at \in Array /\ a'.from <= b.from + Len(mem'[b.at])
      <4>1. b.from < a.from
        BY <1>1, <1>3, <1>4, <3>1
      <4>2. b.at \in Array /\ a.from <= b.from + Len(mem[b.at])
        BY <1>3, <4>1 DEF ArraysInv
      <4>3. Len(mem'[b.at]) = Len(mem[b.at]) /\ Len(mem[b.at]) \in Nat
        <5>1. mem[b.at] \in Seq(KeptTo(gc_integration_epoch))
          BY <1>3, <4>2 DEF ValuesInv
        <5> QED
          BY <2>1, <4>2, <5>1, LenProperties
      <4> QED
        BY <1>1, <1>3, <1>4, <4>2, <4>3
    <3> QED
      BY <3>1
  <2>6. a'.from > 0 /\ b.from > 0 =>
          c.at \in Array /\ (a'.from <= Len(mem'[c.at]) \/ b.from <= Len(mem'[c.at]))
    <3>1. ASSUME a'.from > 0, b.from > 0
          PROVE  c.at \in Array /\ (a'.from <= Len(mem'[c.at]) \/ b.from <= Len(mem'[c.at]))
      <4>1. a.from > 0
        BY <1>1, <1>3, <1>4, <3>1
      <4>2. c.at \in Array /\ (a.from <= Len(mem[c.at]) \/ b.from <= Len(mem[c.at]))
        BY <1>3, <3>1, <4>1 DEF ArraysInv
      <4>3. Len(mem'[c.at]) = Len(mem[c.at]) /\ Len(mem[c.at]) \in Nat
        <5>1. mem[c.at] \in Seq(KeptTo(gc_integration_epoch))
          BY <1>3, <4>2 DEF ValuesInv
        <5> QED
          BY <2>2, <4>2, <5>1, LenProperties
      <4> QED
        BY <1>1, <1>3, <1>4, <4>2, <4>3
    <3> QED
      BY <3>1
  <2> QED
    BY <1>1, <1>2, <2>3, <2>4, <2>5, <2>6 DEF ArraysInv
<1>7. CurrentInv'
  <2>1. Here' = Here
    BY <1>2 DEF Here
  <2>2. ASSUME NEW i \in 0..(frameCount - 2)
        PROVE  /\ FrameAt(i)'.epoch = gc_integration_epoch => FrameAt(i)'.root = Here
               /\ i = frameCount - 2 => FrameAt(i)'.root = Here
    <3>1. i \in 0..(frameCount - 1)
      BY <1>3
    <3>2. /\ FrameAt(i) \in KeptTo(gc_integration_epoch)
          /\ FrameAt(i).epoch = gc_integration_epoch => FrameAt(i).root = Here
      BY <1>3, <3>1, FramesAreThere DEF CurrentInv
    <3>3. CASE i = frameCount - 2
      <4>1. FrameAt(i)' = Rederived(FrameAt(i), Here)
        BY <1>1, <3>3
      <4>2. Rederived(FrameAt(i), Here).root = Here
        BY <1>3, <3>2, RederivedKeeps
      <4> QED
        BY <4>1, <4>2
    <3>4. CASE i # frameCount - 2
      BY <1>1, <3>2, <3>4
    <3> QED
      BY <3>3, <3>4
  <2>3. frameCount' - 1 = frameCount - 2
    BY <1>1, <1>3
  <2>4. frameCount' > 0 => FrameAt(frameCount - 1)'.root = Here
    <3>1. ASSUME NEW i \in 0..(frameCount - 2), i = frameCount' - 1
          PROVE  FrameAt(i)'.root = Here
      BY <2>2, <2>3, <3>1
    <3>2. frameCount' > 0 => frameCount' - 1 \in 0..(frameCount - 2)
      BY <1>1, <1>3
    <3> QED
      BY <3>1, <3>2 DEF FrameAt
  <2> QED
    BY <1>1, <1>2, <2>1, <2>2, <2>3, <2>4 DEF CurrentInv
<1>8. CopyInv'
  <2>1. ASSUME gcpc # "idle" PROVE a'.from <= req.abi
    <3>1. a.from <= req.abi /\ req.abi \in Nat
      BY <1>3, <2>1 DEF CopyInv, ValuesInv
    <3> QED
      BY <1>1, <1>3, <1>4, <3>1
  <2> QED
    BY <1>2, <1>3, <2>1 DEF CopyInv
<1> QED
  BY <1>5, <1>6, <1>7, <1>8 DEF Inv

\* Forgetting all frames keeps the invariant.
LEMMA RuntimeErrorKeepsInv ==
  ASSUME Inv, RuntimeError
  PROVE  Inv'
<1> DEFINE x == Fresh({a.at, b.at, c.at, req.dest})
<1>1. x \in Array /\ x # req.dest /\ x # 0
  <2>1. x \in Array /\ x \notin {a.at, b.at, c.at, req.dest}
    BY FreshIsFresh
  <2> QED
    BY <2>1 DEF Array
<1>2. /\ a' = [at |-> x, from |-> 0] /\ b' = NoArray /\ c' = NoArray
      /\ mem' = [y \in Array |-> <<>>] /\ frameCount' = 0 /\ tf_current' = None
      /\ UNCHANGED <<ring, gc_integration_epoch, vm_current, gcpc, req, new_b>>
  BY DEF RuntimeError
<1> HIDE DEF x
<1>3. ValuesInv /\ CopyInv /\ FRAMES_MAX \in Nat
  BY InvFacts
<1>4. ValuesInv'
  <2>1. a' \in Region /\ b' \in Region /\ c' \in Region /\ frameCount' \in 0..FRAMES_MAX
    BY <1>1, <1>2, <1>3 DEF Region, NoArray
  <2>2. mem' \in [Array -> Seq(KeptTo(gc_integration_epoch))]
    BY <1>2
  <2>3. tf_current' \in FramePointer
    BY <1>2 DEF FramePointer
  <2> QED
    BY <1>2, <1>3, <2>1, <2>2, <2>3 DEF ValuesInv
<1>5. ArraysInv'
  <2>1. mem'[a'.at] = <<>> /\ Len(<<>>) = 0
    BY <1>1, <1>2
  <2> QED
    BY <1>1, <1>2, <2>1 DEF ArraysInv, NoArray
<1>6. CurrentInv'
  BY <1>2 DEF CurrentInv
<1>7. CopyInv'
  <2>1. gcpc # "idle" => req.abi \in Nat
    BY <1>3 DEF ValuesInv
  <2>2. gcpc # "idle" => 0 <= req.abi
    BY <2>1
  <2> QED
    BY <1>2, <1>3, <2>2 DEF CopyInv
<1> QED
  BY <1>4, <1>5, <1>6, <1>7 DEF Inv

\* What is kept of A and of B when they are frozen: all frames that are read.
LEMMA FrozenArrays ==
  ASSUME Inv, gcpc = "idle"
  PROVE  /\ Below(frameCount, a) \in Seq(KeptTo(gc_integration_epoch))
         /\ Len(Below(frameCount, a)) = frameCount - a.from
         /\ \A j \in 1..(frameCount - a.from) : Below(frameCount, a)[j] = mem[a.at][j]
         /\ Below(a.from, b) \in Seq(KeptTo(gc_integration_epoch))
         /\ Len(Below(a.from, b)) = a.from
         /\ \A j \in 1..a.from : Below(a.from, b)[j] = mem[b.at][j]
         /\ a.from > 0 => b.at \in Array
         /\ b.from = 0
<1> DEFINE K == KeptTo(gc_integration_epoch)
<1>1. /\ ArraysInv /\ mem \in [Array -> Seq(K)] /\ a.at \in Array /\ a.from \in Nat
      /\ b.at \in Array \cup {0} /\ frameCount \in Nat /\ a.from <= frameCount
      /\ Len(mem[a.at]) = frameCount - a.from /\ b.from = 0
  BY InvFacts DEF ValuesInv, ArraysInv
<1>2. a.at # 0 /\ (b.at \in Array => b.at # 0)
  BY <1>1, SMTT(20) DEF Array
<1>3. /\ Below(frameCount, a) \in Seq(K)
      /\ Len(Below(frameCount, a)) = frameCount - a.from
      /\ \A j \in 1..(frameCount - a.from) : Below(frameCount, a)[j] = mem[a.at][j]
  <2> DEFINE k == frameCount - a.from
             s == mem[a.at]
  <2>1. Below(frameCount, a) = SubSeq(s, 1, k)
    BY <1>2 DEF Below
  <2>2. k \in Nat /\ k <= Len(s) /\ s \in Seq(K)
    BY <1>1
  <2> HIDE DEF k, s, K
  <2>3. /\ SubSeq(s, 1, k) \in Seq(K) /\ Len(SubSeq(s, 1, k)) = k
        /\ \A i \in 1..k : SubSeq(s, 1, k)[i] = s[i]
    BY <2>2, Prefix
  <2>4. /\ Below(frameCount, a) \in Seq(K) /\ Len(Below(frameCount, a)) = k
        /\ \A i \in 1..k : Below(frameCount, a)[i] = s[i]
    BY <2>1, <2>3
  <2> QED
    BY <2>4 DEF k, s
<1>4. a.from > 0 => b.at \in Array /\ a.from <= Len(mem[b.at])
  <2>1. ASSUME a.from > 0
        PROVE  b.at \in Array /\ a.from <= Len(mem[b.at])
    <3>1. b.at \in Array /\ a.from <= b.from + Len(mem[b.at])
      BY <1>1, <2>1 DEF ArraysInv
    <3>2. Len(mem[b.at]) \in Nat
      BY <1>1, <3>1, LenProperties
    <3> QED
      BY <1>1, <3>1, <3>2
  <2> QED
    BY <2>1
<1>5. CASE b.at = 0
  <2>1. a.from = 0 /\ Below(a.from, b) = <<>>
    BY <1>1, <1>2, <1>4, <1>5 DEF Below
  <2> HIDE DEF K
  <2>2. <<>> \in Seq(K) /\ Len(<<>>) = 0
    OBVIOUS
  <2>3. Below(a.from, b) \in Seq(K) /\ Len(Below(a.from, b)) = a.from
    BY <2>1, <2>2
  <2>4. 1..a.from = {}
    BY <2>1
  <2> QED
    BY <1>1, <1>3, <2>1, <2>3, <2>4 DEF K
<1>6. CASE b.at \in Array
  <2> DEFINE k == a.from
             s == mem[b.at]
  <2>1. Below(a.from, b) = SubSeq(s, 1, k)
    <3>1. k - b.from = k
      BY <1>1
    <3> QED
      BY <1>2, <1>6, <3>1 DEF Below
  <2>2. k \in Nat /\ k <= Len(s) /\ s \in Seq(K)
    <3>1. s \in Seq(K) /\ Len(s) \in Nat
      BY <1>1, <1>6, LenProperties
    <3> QED
      BY <1>1, <1>4, <3>1
  <2> HIDE DEF k, s, K
  <2>3. /\ SubSeq(s, 1, k) \in Seq(K) /\ Len(SubSeq(s, 1, k)) = k
        /\ \A i \in 1..k : SubSeq(s, 1, k)[i] = s[i]
    BY <2>2, Prefix
  <2>4. /\ Below(a.from, b) \in Seq(K) /\ Len(Below(a.from, b)) = k
        /\ \A i \in 1..k : Below(a.from, b)[i] = s[i]
    BY <2>1, <2>3
  <2> QED
    BY <1>1, <1>3, <1>4, <2>4 DEF k, s, K
<1> QED
  BY <1>1, <1>5, <1>6

\* What freezing does to the frames: the last is copied to the new A, and
\* pointed again if it was not in this epoch; the others stay where they are.
LEMMA CollectEffect ==
  ASSUME Inv, CollectGarbage
  PROVE  /\ \A i \in 0..(frameCount - 1) :
              FrameAt(i)' = IF i = frameCount - 1 THEN Rederived(FrameAt(i), Here) ELSE FrameAt(i)
         /\ mem' \in [Array -> Seq(KeptTo(gc_integration_epoch))]
         /\ mem'[a.at] = Below(frameCount, a)
         /\ b.at \in Array => mem'[b.at] = Below(a.from, b)
         /\ a' \in Region /\ b' = a /\ c' = b
         /\ a'.at \in Array /\ a'.at # a.at /\ a'.at # b.at /\ a'.at # req'.dest
         /\ req' = [ring |-> ring, abi |-> frameCount, bbi |-> a.from,
                    b |-> Below(frameCount, a), c |-> Below(a.from, b), dest |-> req'.dest]
         /\ req'.dest \in Array
         /\ frameCount = 0 => a'.from = 0
         /\ frameCount > 0 => a'.from = frameCount - 1
         /\ Len(mem'[a'.at]) = frameCount - a'.from
         /\ frameCount > 0 => /\ vm_current' = Pointer(ring, frameCount - 1, a')
                              /\ tf_current' = Pointer(ring, frameCount - 1, a')
         /\ vm_current' \in FramePointer /\ tf_current' \in FramePointer
<1> DEFINE K == KeptTo(gc_integration_epoch)
           abo == Fresh({a.at, b.at, c.at})
           dest == Fresh({a.at, b.at, c.at, abo})
           sa == Below(frameCount, a)
           sb == Below(a.from, b)
           m == [x \in Array |-> IF x = a.at THEN sa ELSE IF x = b.at THEN sb ELSE <<>>]
           ta == [at |-> abo, from |-> frameCount]
<1>0. /\ gcpc = "idle" /\ b' = a /\ c' = b /\ frameCount' = frameCount
      /\ frameCount \in 0..FRAMES_MAX /\ frameCount \in Nat /\ FRAMES_MAX \in Nat
      /\ a.from \in Nat /\ a.at \in Array /\ a.from <= frameCount
      /\ frameCount > 0 => a.from < frameCount
      /\ b.at # a.at /\ ring \in 0..MaxRing
  BY InvFacts DEF CollectGarbage, ArraysInv
<1>1. /\ abo \in Array /\ abo # a.at /\ abo # b.at /\ abo # c.at
      /\ dest \in Array /\ dest # abo
  BY FreshIsFresh, FreshOfThree
<1>2. /\ sa \in Seq(K) /\ Len(sa) = frameCount - a.from
      /\ \A j \in 1..(frameCount - a.from) : sa[j] = mem[a.at][j]
      /\ sb \in Seq(K) /\ Len(sb) = a.from
      /\ \A j \in 1..a.from : sb[j] = mem[b.at][j]
      /\ a.from > 0 => b.at \in Array
      /\ b.from = 0
  BY <1>0, FrozenArrays
<1>3. req' = [ring |-> ring, abi |-> frameCount, bbi |-> a.from, b |-> sa, c |-> sb, dest |-> dest]
  <2>1. m[a.at] = sa
    BY <1>0
  <2>2. req' = [ring |-> ring, abi |-> frameCount, bbi |-> a.from, b |-> m[a.at], c |-> sb, dest |-> dest]
    BY DEF CollectGarbage
  <2> QED
    BY <2>1, <2>2
<1>4. /\ m \in [Array -> Seq(K)] /\ m[abo] = <<>> /\ m[a.at] = sa
      /\ b.at \in Array => m[b.at] = sb
  <2> HIDE DEF K, sa, sb, abo
  <2>1. <<>> \in Seq(K)
    OBVIOUS
  <2> QED
    BY <1>0, <1>1, <1>2, <2>1
<1>5. req'.dest = dest
  BY <1>3
<1>6. CASE frameCount = 0
  <2>1. /\ a' = [at |-> abo, from |-> 0] /\ mem' = m /\ tf_current' = Wild /\ vm_current' = Wild
    BY <1>6 DEF CollectGarbage
  <2>2. 0..(frameCount - 1) = {}
    BY <1>6
  <2>3. Wild \in FramePointer /\ a' \in Region
    BY <1>0, <1>1, <2>1 DEF FramePointer, Region
  <2>4. Len(mem'[a'.at]) = frameCount - a'.from
    <3>1. mem'[a'.at] = <<>> /\ a'.from = 0
      BY <1>4, <2>1
    <3> QED
      BY <1>6, <3>1
  <2> HIDE DEF m, sa, sb, abo, dest
  <2>5. a'.at = abo /\ a'.from = 0
    BY <2>1
  <2>6. mem' \in [Array -> Seq(K)] /\ mem'[a.at] = sa /\ (b.at \in Array => mem'[b.at] = sb)
    BY <1>4, <2>1
  <2> QED
    BY <1>0, <1>1, <1>3, <1>5, <1>6, <2>1, <2>2, <2>3, <2>4, <2>5, <2>6 DEF sa, sb
<1>7. CASE frameCount > 0
  <2> DEFINE k == frameCount
             fr == FrameAt(k - 1)
             t == Append(SubSeq(<<>>, 1, 0), Rederived(fr, Here))
  <2>1. k - 1 \in 0..(frameCount - 1) /\ ~(k - 1 >= ta.from) /\ k - 1 - (k - 1) = 0
        /\ k - 1 >= a.from /\ k - 1 - a.from + 1 \in 1..(frameCount - a.from)
        /\ k # 0 /\ k - 1 \in 0..(FRAMES_MAX - 1)
    BY <1>0, <1>7
  <2>2. fr \in K /\ fr = mem[a.at][k - 1 - a.from + 1]
    BY <2>1, FramesAreThere
  <2>3. FrameIn(k - 1, ArrayOf(k - 1, ta, a, b), m) = fr
    <3>1. ArrayOf(k - 1, ta, a, b) = a
      BY <2>1 DEF ArrayOf
    <3>2. FrameIn(k - 1, a, m) = sa[k - 1 - a.from + 1]
      BY <1>4 DEF FrameIn
    <3> QED
      BY <1>2, <2>1, <2>2, <3>1, <3>2
  <2>4. /\ a' = [at |-> abo, from |-> k - 1]
        /\ mem' = [m EXCEPT ![abo] = t]
        /\ tf_current' = Pointer(ring, k - 1, a') /\ vm_current' = Pointer(ring, k - 1, a')
    <3> DEFINE s == Ensured(k, ta, a, b, m, Here)
    <3>1. a' = s.a /\ mem' = s.mem /\ tf_current' = s.tf /\ vm_current' = s.vm
      BY <1>7, <2>1 DEF CollectGarbage
    <3>2. /\ s.a = [at |-> abo, from |-> k - 1] /\ s.mem = [m EXCEPT ![abo] = t]
          /\ s.tf = Pointer(ring, k - 1, s.a) /\ s.vm = Pointer(ring, k - 1, s.a)
      <4>1. ta.at = abo
        OBVIOUS
      <4> HIDE DEF k, fr, m, ta, abo
      <4> QED
        BY <1>4, <2>1, <2>3, <4>1 DEF Ensured
    <3> HIDE DEF s
    <3> QED
      BY <3>1, <3>2
  <2>5. Rederived(fr, Here) \in K
    BY <2>2, RederivedKeeps, InvFacts
  <2>6. t \in Seq(K) /\ Len(t) = 1 /\ t[1] = Rederived(fr, Here)
    <3> HIDE DEF K, fr
    <3>1. <<>> \in Seq(K) /\ 0 \in Nat /\ 0 <= Len(<<>>)
      OBVIOUS
    <3>2. SubSeq(<<>>, 1, 0) \in Seq(K) /\ Len(SubSeq(<<>>, 1, 0)) = 0
      BY <3>1, Prefix
    <3> QED
      BY <2>5, <3>2, AppendProperties
  <2> HIDE DEF t, K, m, sa, sb, abo, dest
  <2>7. /\ mem' \in [Array -> Seq(K)] /\ mem'[abo] = t /\ mem'[a.at] = sa
        /\ b.at \in Array => mem'[b.at] = sb
    BY <1>0, <1>1, <1>4, <2>4, <2>6
  <2>8. a'.at = abo /\ a'.from = frameCount - 1 /\ a' \in Region
    <3>1. frameCount - 1 \in 0..FRAMES_MAX
      BY <1>0, <1>7
    <3> QED
      BY <1>1, <2>4, <3>1 DEF Region
  <2>9. ASSUME NEW i \in 0..(frameCount - 1)
        PROVE  FrameAt(i)' = IF i = frameCount - 1 THEN Rederived(FrameAt(i), Here) ELSE FrameAt(i)
    <3>0. FrameAt(i)' = FrameIn(i, ArrayOf(i, a', a, b), mem')
      BY <1>0 DEF FrameAt
    <3>1. CASE i = frameCount - 1
      <4>1. i >= a'.from /\ i - a'.from + 1 = 1
        BY <1>0, <2>8, <3>1
      <4>2. ArrayOf(i, a', a, b) = a'
        BY <4>1 DEF ArrayOf
      <4>3. FrameIn(i, a', mem') = Rederived(fr, Here)
        BY <2>6, <2>7, <2>8, <4>1 DEF FrameIn
      <4> QED
        BY <3>0, <3>1, <4>2, <4>3
    <3>2. CASE i # frameCount - 1 /\ i >= a.from
      <4>1. ~(i >= a'.from) /\ i - a.from + 1 \in 1..(frameCount - a.from)
        BY <1>0, <2>8, <3>2
      <4>2. ArrayOf(i, a', a, b) = a
        BY <3>2, <4>1 DEF ArrayOf
      <4>3. FrameIn(i, a, mem') = mem[a.at][i - a.from + 1]
        BY <1>2, <2>7, <4>1 DEF FrameIn
      <4> QED
        BY <3>0, <3>2, <4>2, <4>3, FramesAreThere
    <3>3. CASE i # frameCount - 1 /\ i < a.from
      <4>1. ~(i >= a'.from) /\ ~(i >= a.from) /\ i >= b.from
        BY <1>0, <1>2, <2>8, <3>3
      <4>2. ArrayOf(i, a', a, b) = b
        BY <4>1 DEF ArrayOf
      <4>3. i - b.from + 1 \in 1..a.from /\ b.at \in Array
        BY <1>0, <1>2, <3>3
      <4>4. FrameIn(i, b, mem') = mem[b.at][i - b.from + 1]
        BY <1>2, <2>7, <4>3 DEF FrameIn
      <4> QED
        BY <3>0, <3>3, <4>1, <4>2, <4>4, FramesAreThere
    <3> QED
      BY <1>0, <3>1, <3>2, <3>3
  <2>10. Pointer(ring, k - 1, a') \in FramePointer
    <3>1. a'.at \in Array /\ a'.from \in Nat /\ a'.from <= k - 1
      BY <1>0, <1>1, <2>1, <2>8
    <3> QED
      BY <1>0, <2>1, <3>1, PointersIntoA
  <2>11. Len(mem'[a'.at]) = frameCount - a'.from
    BY <1>0, <2>6, <2>7, <2>8
  <2> QED
    BY <1>0, <1>1, <1>3, <1>5, <1>7, <2>4, <2>7, <2>8, <2>9, <2>10, <2>11 DEF sa, sb, K
<1> QED
  BY <1>0, <1>6, <1>7

\* Freezing keeps the invariant, and asks for what is there.
LEMMA CollectKeepsInv ==
  ASSUME Inv, CollectGarbage
  PROVE  Inv'
<1> DEFINE K == KeptTo(gc_integration_epoch)
           F == FrameTo(gc_integration_epoch)
           sa == Below(frameCount, a)
           sb == Below(a.from, b)
<1>1. /\ \A i \in 0..(frameCount - 1) :
           FrameAt(i)' = IF i = frameCount - 1 THEN Rederived(FrameAt(i), Here) ELSE FrameAt(i)
      /\ mem' \in [Array -> Seq(K)]
      /\ mem'[a.at] = sa
      /\ b.at \in Array => mem'[b.at] = sb
      /\ a' \in Region /\ b' = a /\ c' = b
      /\ a'.at \in Array /\ a'.at # a.at /\ a'.at # b.at /\ a'.at # req'.dest
      /\ req' = [ring |-> ring, abi |-> frameCount, bbi |-> a.from,
                 b |-> sa, c |-> sb, dest |-> req'.dest]
      /\ req'.dest \in Array
      /\ frameCount = 0 => a'.from = 0
      /\ frameCount > 0 => a'.from = frameCount - 1
      /\ Len(mem'[a'.at]) = frameCount - a'.from
      /\ frameCount > 0 => /\ vm_current' = Pointer(ring, frameCount - 1, a')
                           /\ tf_current' = Pointer(ring, frameCount - 1, a')
      /\ vm_current' \in FramePointer /\ tf_current' \in FramePointer
  BY CollectEffect
<1>2. /\ UNCHANGED <<ring, gc_integration_epoch, frameCount>>
      /\ gcpc = "idle" /\ gcpc' = "condensing" /\ new_b' = <<>>
      /\ gc_integration_epoch < MaxEpoch
  BY DEF CollectGarbage
<1>3. /\ ValuesInv /\ ArraysInv /\ CurrentInv
      /\ a.at \in Array /\ a.from \in Nat /\ a.from \in 0..FRAMES_MAX
      /\ frameCount \in Nat /\ frameCount \in 0..FRAMES_MAX /\ FRAMES_MAX \in Nat
      /\ ring \in 0..MaxRing
      /\ gc_integration_epoch \in 0..MaxEpoch /\ Here \in Places
      /\ a \in Region /\ b \in Region
  BY InvFacts DEF ValuesInv
<1>4. /\ sa \in Seq(K) /\ Len(sa) = frameCount - a.from
      /\ sb \in Seq(K) /\ Len(sb) = a.from
      /\ a.from > 0 => b.at \in Array
      /\ b.from = 0
  BY <1>2, FrozenArrays
<1>5. a.from <= frameCount /\ b.at # a.at
  BY <1>3 DEF ArraysInv
<1>6. sa \in Seq(F) /\ sb \in Seq(F)
  <2>1. K \subseteq F
    BY DEF KeptTo
  <2> HIDE DEF K, F, sa, sb
  <2> QED
    BY <1>4, <2>1, SeqGrows
<1> HIDE DEF sa, sb
<1>7. ValuesInv'
  <2>1. req' \in [ring : 0..MaxRing, abi : 0..FRAMES_MAX, bbi : 0..FRAMES_MAX,
                  b : Seq(F), c : Seq(F), dest : Array \cup {0}]
    <3> HIDE DEF F
    <3> QED
      BY <1>1, <1>3, <1>6
  <2>2. new_b' \in Seq(K)
    BY <1>2
  <2> QED
    BY <1>1, <1>2, <1>3, <2>1, <2>2 DEF ValuesInv
<1> HIDE DEF K, F
<1>8. a'.from \in Nat /\ a'.from <= frameCount
  BY <1>1, <1>3
<1>9. ArraysInv'
  <2>1. b'.at = a.at /\ b'.from = a.from /\ c'.at = b.at /\ c'.from = 0
    BY <1>1, <1>4
  <2>2. /\ a'.at \in Array /\ a'.at # b'.at /\ a'.at # c'.at /\ a'.at # req'.dest
        /\ b'.at # c'.at
    BY <1>1, <1>5, <2>1
  <2>3. /\ a'.from <= frameCount' /\ (frameCount' > 0 => a'.from < frameCount')
        /\ Len(mem'[a'.at]) = frameCount' - a'.from
    BY <1>1, <1>2, <1>3, <1>8
  <2>4. b'.at \in Array /\ a'.from <= b'.from + Len(mem'[b'.at])
    BY <1>1, <1>3, <1>4, <1>5, <1>8, <2>1
  <2>5. b'.from > 0 => c'.at \in Array /\ b'.from <= Len(mem'[c'.at])
    BY <1>1, <1>3, <1>4, <2>1
  <2> QED
    BY <1>2, <2>1, <2>2, <2>3, <2>4, <2>5 DEF ArraysInv
<1>10. CurrentInv'
  <2>1. Here' = Here
    BY <1>2 DEF Here
  <2>2. ASSUME NEW i \in 0..(frameCount - 1)
        PROVE  /\ FrameAt(i)'.epoch = gc_integration_epoch => FrameAt(i)'.root = Here
               /\ i = frameCount - 1 => FrameAt(i)'.root = Here
    <3>1. /\ FrameAt(i) \in KeptTo(gc_integration_epoch)
          /\ FrameAt(i).epoch = gc_integration_epoch => FrameAt(i).root = Here
      BY <1>3, FramesAreThere DEF CurrentInv
    <3>2. CASE i = frameCount - 1
      <4>1. FrameAt(i)' = Rederived(FrameAt(i), Here)
        BY <1>1, <3>2
      <4>2. Rederived(FrameAt(i), Here).root = Here
        BY <1>3, <3>1, RederivedKeeps
      <4> QED
        BY <4>1, <4>2
    <3>3. CASE i # frameCount - 1
      BY <1>1, <3>1, <3>3
    <3> QED
      BY <3>2, <3>3
  <2>3. frameCount' > 0 => FrameAt(frameCount - 1)'.root = Here
    <3>1. ASSUME NEW i \in 0..(frameCount - 1), i = frameCount' - 1
          PROVE  FrameAt(i)'.root = Here
      BY <1>2, <2>2, <3>1
    <3>2. frameCount' > 0 => frameCount' - 1 \in 0..(frameCount - 1)
      BY <1>2, <1>3
    <3> QED
      BY <3>1, <3>2 DEF FrameAt
  <2> QED
    BY <1>1, <1>2, <2>1, <2>2, <2>3 DEF CurrentInv
<1>11. CopyInv'
  <2>1. /\ req'.abi = frameCount /\ req'.bbi = a.from /\ req'.b = sa /\ req'.c = sb
        /\ req'.dest \in Array
    BY <1>1
  <2>2. /\ a'.from <= req'.abi /\ req'.bbi <= req'.abi /\ req'.bbi <= Len(req'.c)
        /\ req'.abi <= req'.bbi + Len(req'.b)
    BY <1>3, <1>4, <1>5, <1>8, <2>1
  <2>3. Len(new_b') = 0 /\ 0 <= req'.abi
    BY <1>2, <1>3, <2>1
  <2> QED
    BY <1>2, <2>1, <2>2, <2>3 DEF CopyInv
<1> QED
  BY <1>7, <1>9, <1>10, <1>11 DEF Inv

\* Where the code will be when the response is integrated.
LEMMA NextPlace ==
  ASSUME Inv, gcpc # "idle"
  PROVE  /\ Place(ring, gc_integration_epoch + 1) \in Places
         /\ Place(req.ring, gc_integration_epoch + 1) \in Places
         /\ gc_integration_epoch + 1 \in 0..MaxEpoch
<1>1. gc_integration_epoch < MaxEpoch /\ gc_integration_epoch \in Nat /\ MaxEpoch \in Nat
  BY InvFacts DEF CopyInv
<1>2. ring \in 0..MaxRing /\ req.ring \in 0..MaxRing
  BY InvFacts DEF ValuesInv
<1>3. gc_integration_epoch + 1 \in 0..MaxEpoch
  BY <1>1
<1> QED
  BY <1>2, <1>3 DEF Place, Places

\* What integration does to the frames: those that were frozen are the condensed
\* ones, those entered since stay, and the last is pointed to the new place.
LEMMA IntegrateEffect ==
  ASSUME Inv, IntegrateGCResponse,
         NEW p, p = Place(ring, gc_integration_epoch + 1)
  PROVE  /\ \A i \in 0..(frameCount - 1) :
              FrameAt(i)' = IF i = frameCount - 1
                              THEN PointTo(Rederived(FrameAt(i), p), p, IpOffset(FrameAt(i)))
                              ELSE IF i >= a.from THEN FrameAt(i) ELSE new_b[i + 1]
         /\ \A i \in 0..(frameCount - 1) : FrameAt(i)' \in KeptTo(gc_integration_epoch)
         /\ \A i \in 0..(frameCount - 1) : i < a.from => i + 1 \in 1..Len(new_b)
         /\ mem' \in [Array -> Seq(KeptTo(gc_integration_epoch))]
         /\ Len(mem'[a.at]) = frameCount - a.from
         /\ Len(mem'[req.dest]) = a.from
         /\ a' = a /\ b' = [at |-> req.dest, from |-> 0] /\ c' = NoArray
         /\ vm_current' = Pointer(ring, frameCount - 1, a)
         /\ tf_current' = Pointer(ring, frameCount - 1, a)
<1> DEFINE K == KeptTo(gc_integration_epoch)
           cur == FrameAt(frameCount - 1)
           off == IpOffset(cur)
           tb == [at |-> req.dest, from |-> 0]
           sb == SubSeq(new_b, 1, a.from)
           m == [x \in Array |-> IF x = tb.at THEN sb ELSE IF x = a.at THEN mem[x] ELSE <<>>]
           k == frameCount - 1 - a.from
           ptr == Pointer(ring, frameCount - 1, a)
           t == Append(SubSeq(mem[a.at], 1, k), Rederived(cur, p))
           m2 == [m EXCEPT ![a.at] = t]
           moved == PointTo(Rederived(cur, p), p, off)
           u == [t EXCEPT ![k + 1] = moved]
<1>0. /\ gcpc = "done" /\ frameCount > 0
      /\ frameCount \in 0..FRAMES_MAX /\ frameCount \in Nat
      /\ a.from \in Nat /\ a.at \in Array /\ a.from <= frameCount - 1
      /\ req.dest \in Array /\ req.dest # a.at
      /\ mem \in [Array -> Seq(K)] /\ new_b \in Seq(K)
      /\ Len(mem[a.at]) = frameCount - a.from
      /\ gc_integration_epoch \in 0..MaxEpoch /\ gc_integration_epoch \in Int
      /\ a \in Region /\ p \in Places
  <2>1. gcpc = "done" /\ frameCount > 0 /\ gcpc # "idle"
    BY DEF IntegrateGCResponse
  <2>2. /\ a.from <= frameCount - 1 /\ Len(mem[a.at]) = frameCount - a.from
        /\ req.dest \in Array /\ req.dest # a.at
    BY <2>1, InvFacts, LastIsInA DEF CopyInv, ArraysInv
  <2>3. p \in Places
    BY <2>1, NextPlace
  <2> QED
    BY <2>1, <2>2, <2>3, InvFacts DEF ValuesInv
<1>1. sb \in Seq(K) /\ Len(sb) = a.from /\ \A j \in 1..a.from : sb[j] = new_b[j]
  <2>1. a.from <= Len(new_b)
    BY <1>0, InvFacts DEF CopyInv
  <2> HIDE DEF K
  <2> QED
    BY <1>0, <2>1, Prefix
<1>2. a.from <= Len(new_b) /\ Len(new_b) \in Nat
  BY <1>0, InvFacts, LenProperties DEF CopyInv
<1>3. /\ k \in Nat /\ k + 1 = frameCount - a.from /\ k <= Len(mem[a.at])
      /\ cur \in K /\ cur = mem[a.at][k + 1]
      /\ Deref(tf_current, mem) = cur
  <2>1. k \in Nat /\ k + 1 = frameCount - a.from /\ k <= Len(mem[a.at])
    BY <1>0
  <2> QED
    BY <1>0, <2>1, LastIsInA
<1>4. Rederived(cur, p) \in K
  BY <1>0, <1>3, RederivedKeeps
<1>5. moved \in K
  <2>1. Rederived(cur, p) \in FrameTo(gc_integration_epoch) /\ cur \in FrameTo(gc_integration_epoch)
    BY <1>3, <1>4 DEF KeptTo
  <2>2. off \in Offset \cup {Junk}
    BY <1>0, <2>1, OffsetsAreOffsets
  <2> HIDE DEF off, K
  <2> QED
    BY <1>0, <2>1, <2>2, PointToKeeps DEF K
<1>6. /\ m \in [Array -> Seq(K)] /\ m[a.at] = mem[a.at] /\ m[req.dest] = sb
  <2> HIDE DEF K, sb
  <2>1. <<>> \in Seq(K)
    OBVIOUS
  <2> QED
    BY <1>0, <1>1, <2>1
<1>7. /\ t \in Seq(K) /\ Len(t) = k + 1 /\ t[k + 1] = Rederived(cur, p)
      /\ \A j \in 1..k : t[j] = mem[a.at][j]
  <2> DEFINE s == mem[a.at]
             x == Rederived(cur, p)
  <2>1. s \in Seq(K) /\ k <= Len(s) /\ k \in Nat /\ x \in K
    BY <1>0, <1>3, <1>4
  <2> HIDE DEF s, x, k, K
  <2>2. /\ Append(SubSeq(s, 1, k), x) \in Seq(K)
        /\ Len(Append(SubSeq(s, 1, k), x)) = k + 1
        /\ \A i \in 1..k : Append(SubSeq(s, 1, k), x)[i] = s[i]
        /\ Append(SubSeq(s, 1, k), x)[k + 1] = x
    BY <2>1, PrefixAnd
  <2>3. t = Append(SubSeq(s, 1, k), x)
    BY DEF s, x
  <2> HIDE DEF t
  <2> QED
    BY <2>2, <2>3 DEF s, x
<1>8. /\ u \in Seq(K) /\ Len(u) = k + 1 /\ u[k + 1] = moved
      /\ \A j \in 1..k : u[j] = mem[a.at][j]
  <2>1. k + 1 \in 1..Len(t) /\ \A j \in 1..k : j \in 1..Len(t) /\ j # k + 1
    <3> HIDE DEF k, t
    <3> QED
      BY <1>3, <1>7
  <2> HIDE DEF t, k, moved, K
  <2> QED
    BY <1>3, <1>5, <1>7, <2>1, ExceptSeq, LenProperties
<1>9. a' = a /\ tf_current' = ptr /\ vm_current' = ptr /\ b' = tb /\ c' = NoArray
      /\ mem' = Written(ptr, m2, PointTo(Deref(ptr, m2), p, off))
  <2> DEFINE s == Ensured(frameCount, a, tb, NoArray, m, p)
  <2>1. /\ frameCount # 0 /\ frameCount - 1 >= a.from
        /\ frameCount - 1 - a.from + 1 = k + 1
        /\ [at |-> a.at, from |-> a.from] = a
    BY <1>0 DEF Region
  <2>2. FrameIn(frameCount - 1, ArrayOf(frameCount - 1, a, tb, NoArray), m) = cur
    <3>1. ArrayOf(frameCount - 1, a, tb, NoArray) = a
      BY <2>1 DEF ArrayOf
    <3> HIDE DEF cur, m, k
    <3> QED
      BY <1>3, <1>6, <2>1, <3>1 DEF FrameIn
  <2>3. s.a = a /\ s.mem = m2 /\ s.tf = ptr /\ s.vm = ptr
    <3> HIDE DEF cur, m, tb
    <3> QED
      BY <1>6, <2>1, <2>2 DEF Ensured
  <2>4. /\ a' = s.a /\ tf_current' = s.tf /\ vm_current' = s.vm /\ b' = tb /\ c' = NoArray
        /\ mem' = Written(s.tf, s.mem, PointTo(Deref(s.tf, s.mem), p, IpOffset(Deref(tf_current, mem))))
    BY DEF IntegrateGCResponse
  <2>5. IpOffset(Deref(tf_current, mem)) = off
    BY <1>3
  <2> HIDE DEF s, m2, off, ptr, tb
  <2> QED
    BY <2>3, <2>4, <2>5
<1>10. mem' = [m2 EXCEPT ![a.at] = u]
  <2>1. ptr.at = a.at /\ ptr.index + 1 = k + 1
    BY DEF Pointer
  <2>2. m2[a.at] = t
    <3> HIDE DEF t, m, K
    <3> QED
      BY <1>0, <1>6
  <2>3. Deref(ptr, m2) = Rederived(cur, p)
    <3> HIDE DEF ptr, m2, t, k, cur
    <3> QED
      BY <1>7, <2>1, <2>2 DEF Deref
  <2>4. mem' = Written(ptr, m2, moved)
    <3> HIDE DEF ptr, m2, cur, off
    <3> QED
      BY <1>9, <2>3
  <2> HIDE DEF ptr, m2, t, k, moved
  <2> QED
    BY <2>1, <2>2, <2>4 DEF Written
<1>11. /\ mem' \in [Array -> Seq(K)] /\ mem'[a.at] = u /\ mem'[req.dest] = sb
  <2>1. m2 \in [Array -> Seq(K)] /\ m2[req.dest] = sb
    <3> HIDE DEF t, m, K, sb
    <3> QED
      BY <1>0, <1>6, <1>7
  <2> HIDE DEF m2, u, K, sb
  <2> QED
    BY <1>0, <1>8, <1>10, <2>1
<1> HIDE DEF u, t, m, m2, moved, ptr
<1>12. ASSUME NEW i \in 0..(frameCount - 1)
       PROVE  /\ FrameAt(i)' = IF i = frameCount - 1
                                 THEN PointTo(Rederived(FrameAt(i), p), p, IpOffset(FrameAt(i)))
                                 ELSE IF i >= a.from THEN FrameAt(i) ELSE new_b[i + 1]
              /\ FrameAt(i)' \in K
              /\ i < a.from => i + 1 \in 1..Len(new_b)
  <2>1. FrameAt(i)' = FrameIn(i, ArrayOf(i, a, tb, NoArray), mem')
    BY <1>9 DEF FrameAt
  <2>2. CASE i = frameCount - 1
    <3>1. i >= a.from /\ i - a.from + 1 = k + 1 /\ ~(i < a.from)
      BY <1>0, <2>2
    <3>2. ArrayOf(i, a, tb, NoArray) = a
      BY <3>1 DEF ArrayOf
    <3>3. FrameAt(i)' = moved
      BY <1>8, <1>11, <2>1, <3>1, <3>2 DEF FrameIn
    <3>4. moved = PointTo(Rederived(FrameAt(i), p), p, IpOffset(FrameAt(i)))
      BY <2>2 DEF moved
    <3> QED
      BY <1>5, <2>2, <3>1, <3>3, <3>4
  <2>3. CASE i # frameCount - 1 /\ i >= a.from
    <3>1. i - a.from + 1 \in 1..k /\ ~(i < a.from)
      BY <1>0, <2>3, SMTT(20)
    <3>2. ArrayOf(i, a, tb, NoArray) = a
      BY <2>3 DEF ArrayOf
    <3>3. FrameAt(i)' = mem[a.at][i - a.from + 1]
      BY <1>8, <1>11, <2>1, <3>1, <3>2 DEF FrameIn
    <3>4. FrameAt(i) = mem[a.at][i - a.from + 1] /\ FrameAt(i) \in K
      BY <2>3, FramesAreThere
    <3> QED
      BY <2>3, <3>1, <3>3, <3>4
  <2>4. CASE i # frameCount - 1 /\ i < a.from
    <3>1. ~(i >= a.from) /\ i >= 0 /\ i - 0 + 1 = i + 1 /\ i + 1 \in 1..a.from /\ i + 1 \in 1..Len(new_b)
      BY <1>0, <1>2, <2>4
    <3>2. ArrayOf(i, a, tb, NoArray) = tb
      BY <3>1 DEF ArrayOf
    <3>3. FrameAt(i)' = sb[i + 1]
      <4>1. FrameIn(i, tb, mem') = mem'[req.dest][i - 0 + 1]
        BY DEF FrameIn
      <4> HIDE DEF tb, sb
      <4> QED
        BY <1>11, <2>1, <3>1, <3>2, <4>1
    <3>4. sb[i + 1] = new_b[i + 1] /\ new_b[i + 1] \in K
      BY <1>0, <1>1, <3>1, ElementOfSeq
    <3> QED
      BY <2>4, <3>1, <3>3, <3>4
  <2> QED
    BY <1>0, <2>2, <2>3, <2>4
<1>13. Len(mem'[a.at]) = frameCount - a.from /\ Len(mem'[req.dest]) = a.from
  BY <1>1, <1>3, <1>8, <1>11
<1> QED
  BY <1>9, <1>11, <1>12, <1>13 DEF ptr

\* Integration keeps the invariant: no frame is of the new epoch yet, but the
\* last has its pointers already.
LEMMA IntegrateKeepsInv ==
  ASSUME Inv, IntegrateGCResponse
  PROVE  Inv'
<1> DEFINE K == KeptTo(gc_integration_epoch)
           L == KeptTo(gc_integration_epoch + 1)
<1>1. PICK p : p = Place(ring, gc_integration_epoch + 1)
  OBVIOUS
<1>2. /\ \A i \in 0..(frameCount - 1) :
           FrameAt(i)' = IF i = frameCount - 1
                           THEN PointTo(Rederived(FrameAt(i), p), p, IpOffset(FrameAt(i)))
                           ELSE IF i >= a.from THEN FrameAt(i) ELSE new_b[i + 1]
      /\ \A i \in 0..(frameCount - 1) : FrameAt(i)' \in K
      /\ mem' \in [Array -> Seq(K)]
      /\ Len(mem'[a.at]) = frameCount - a.from
      /\ Len(mem'[req.dest]) = a.from
      /\ a' = a /\ b' = [at |-> req.dest, from |-> 0] /\ c' = NoArray
      /\ vm_current' = Pointer(ring, frameCount - 1, a)
      /\ tf_current' = Pointer(ring, frameCount - 1, a)
  BY <1>1, IntegrateEffect
<1>3. /\ UNCHANGED <<ring, frameCount>> /\ gc_integration_epoch' = gc_integration_epoch + 1
      /\ gcpc = "done" /\ gcpc' = "idle" /\ req' = NoRequest /\ new_b' = <<>>
      /\ frameCount > 0
  BY DEF IntegrateGCResponse
<1>4. /\ ValuesInv /\ ArraysInv /\ CurrentInv
      /\ a.at \in Array /\ a.from \in Nat
      /\ frameCount \in Nat /\ frameCount \in 0..FRAMES_MAX /\ FRAMES_MAX \in Nat
      /\ ring \in 0..MaxRing /\ MaxRing \in Nat
      /\ gc_integration_epoch \in Nat /\ gc_integration_epoch + 1 \in 0..MaxEpoch
      /\ p \in Places /\ req.dest \in Array /\ a \in Region
      /\ vm_current \in FramePointer /\ tf_current \in FramePointer
  BY <1>1, <1>3, InvFacts, NextPlace DEF ValuesInv, CopyInv
<1>5. a.from < frameCount /\ req.dest # a.at
  BY <1>3, <1>4 DEF ArraysInv
<1>6. K \subseteq L
  BY <1>4 DEF KeptTo, FrameTo, Frame
<1>7. mem' \in [Array -> Seq(L)]
  <2> HIDE DEF K, L
  <2>1. ASSUME NEW x \in Array PROVE mem'[x] \in Seq(L)
    <3>1. mem'[x] \in Seq(K)
      BY <1>2
    <3> QED
      BY <1>6, <3>1, SeqGrows
  <2> QED
    BY <1>2, <2>1
<1>8. ValuesInv'
  <2>1. /\ a' \in Region /\ b' \in Region /\ c' \in Region
    BY <1>2, <1>4 DEF Region, NoArray
  <2>2. /\ vm_current' \in FramePointer /\ tf_current' \in FramePointer
    <3>1. Pointer(ring, frameCount - 1, a) \in FramePointer
      <4>1. frameCount - 1 \in 0..(FRAMES_MAX - 1) /\ a.from <= frameCount - 1
        BY <1>3, <1>4, <1>5
      <4> QED
        BY <1>4, <4>1, PointersIntoA
    <3> QED
      BY <1>2, <3>1
  <2>3. req' \in [ring : 0..MaxRing, abi : 0..FRAMES_MAX, bbi : 0..FRAMES_MAX,
                  b : Seq(FrameTo(gc_integration_epoch')), c : Seq(FrameTo(gc_integration_epoch')),
                  dest : Array \cup {0}]
    BY <1>3, <1>4 DEF NoRequest
  <2>4. new_b' \in Seq(L)
    BY <1>3
  <2> QED
    BY <1>3, <1>4, <1>7, <2>1, <2>2, <2>3, <2>4 DEF ValuesInv
<1>9. ArraysInv'
  <2>1. /\ a'.at = a.at /\ a'.from = a.from /\ b'.at = req.dest /\ b'.from = 0
        /\ c'.at = 0 /\ c'.from = 0 /\ req'.dest = 0
    BY <1>2, <1>3 DEF NoArray, NoRequest
  <2>2. a.at # 0 /\ req.dest # 0
    BY <1>4 DEF Array
  <2>3. a.from <= 0 + Len(mem'[req.dest]) /\ a.from <= frameCount
    BY <1>2, <1>4, <1>5
  <2> QED
    BY <1>2, <1>3, <1>4, <1>5, <2>1, <2>2, <2>3 DEF ArraysInv
<1>10. CurrentInv'
  <2>1. Here' = p
    BY <1>1, <1>3 DEF Here
  <2>2. ASSUME NEW i \in 0..(frameCount - 1)
        PROVE  /\ FrameAt(i)'.epoch # gc_integration_epoch + 1
               /\ i = frameCount - 1 => FrameAt(i)'.root = p
    <3>1. FrameAt(i)'.epoch # gc_integration_epoch + 1
      <4>1. FrameAt(i)' \in K
        BY <1>2
      <4>2. FrameAt(i)'.epoch <= gc_integration_epoch /\ FrameAt(i)'.epoch \in 0..MaxEpoch
        BY <4>1 DEF KeptTo, FrameTo, Frame
      <4> QED
        BY <1>4, <4>2
    <3>2. ASSUME i = frameCount - 1 PROVE FrameAt(i)'.root = p
      <4>1. FrameAt(i)' = PointTo(Rederived(FrameAt(i), p), p, IpOffset(FrameAt(i)))
        BY <1>2, <3>2
      <4> QED
        BY <4>1 DEF PointTo
    <3> QED
      BY <3>1, <3>2
  <2>3. FrameAt(frameCount - 1)'.root = p
    <3>1. ASSUME NEW i \in 0..(frameCount - 1), i = frameCount' - 1
          PROVE  FrameAt(i)'.root = p
      BY <1>3, <2>2, <3>1
    <3>2. frameCount' - 1 \in 0..(frameCount - 1)
      BY <1>3, <1>4
    <3> QED
      BY <3>1, <3>2 DEF FrameAt
  <2> QED
    BY <1>2, <1>3, <2>1, <2>2, <2>3 DEF CurrentInv
<1>11. CopyInv'
  BY <1>3 DEF CopyInv
<1> QED
  BY <1>8, <1>9, <1>10, <1>11 DEF Inv

\* The hooks of a resize change frames and leave their number and places.
LEMMA ResizedArrays ==
  ASSUME Inv, ring < MaxRing, NEW arr, NEW s \in Seq(KeptTo(gc_integration_epoch))
  PROVE  /\ Resized(arr, s) \in Seq(KeptTo(gc_integration_epoch))
         /\ Len(Resized(arr, s)) = Len(s)
         /\ \A k \in 1..Len(s) :
              Resized(arr, s)[k] =
                IF k \in LiveIn(arr, s)
                  THEN PointTo(s[k], Place(ring + 1, gc_integration_epoch), IpOffset(s[k]))
                  ELSE s[k]
<1> DEFINE K == KeptTo(gc_integration_epoch)
           p == Place(ring + 1, gc_integration_epoch)
           e(k) == IF k \in LiveIn(arr, s) THEN PointTo(s[k], p, IpOffset(s[k])) ELSE s[k]
           t == [k \in 1..Len(s) |-> e(k)]
<1>1. Len(s) \in Nat /\ DOMAIN s = 1..Len(s) /\ \A k \in 1..Len(s) : s[k] \in K
  BY LenProperties, ElementOfSeq
<1>2. Resized(arr, s) = t
  BY <1>1 DEF Resized
<1>3. p \in Places /\ gc_integration_epoch \in Int
  BY InvFacts DEF Place, Places
<1>4. \A k \in 1..Len(s) : e(k) \in K
  <2>1. ASSUME NEW k \in 1..Len(s)
        PROVE  e(k) \in K
    <3>1. s[k] \in FrameTo(gc_integration_epoch) /\ s[k] \in K
      BY <1>1 DEF KeptTo
    <3>2. IpOffset(s[k]) \in Offset \cup {Junk}
      BY <1>3, <3>1, OffsetsAreOffsets
    <3>3. PointTo(s[k], p, IpOffset(s[k])) \in K
      BY <1>3, <3>1, <3>2, PointToKeeps
    <3> QED
      BY <3>1, <3>3
  <2> QED
    BY <2>1
<1> HIDE DEF K, e
<1>5. t \in Seq(K) /\ Len(t) = Len(s) /\ \A k \in 1..Len(s) : t[k] = e(k)
  BY <1>1, <1>4
<1> HIDE DEF t
<1> QED
  BY <1>2, <1>5 DEF e, K

\* The frames that the GC thread reads hold their offsets.
LEMMA PreresizedArrays ==
  ASSUME Inv, NEW arr, NEW s \in Seq(FrameTo(gc_integration_epoch))
  PROVE  /\ Preresized(arr, s) \in Seq(FrameTo(gc_integration_epoch))
         /\ Len(Preresized(arr, s)) = Len(s)
<1> DEFINE F == FrameTo(gc_integration_epoch)
           e(k) == IF k \in LiveIn(arr, s) THEN HoldOffset(s[k]) ELSE s[k]
           t == [k \in 1..Len(s) |-> e(k)]
<1>1. Len(s) \in Nat /\ DOMAIN s = 1..Len(s) /\ \A k \in 1..Len(s) : s[k] \in F
  BY LenProperties, ElementOfSeq
<1>2. Preresized(arr, s) = t
  BY <1>1 DEF Preresized
<1>3. \A k \in 1..Len(s) : e(k) \in F
  BY <1>1, InvFacts, HoldKeeps
<1> HIDE DEF F, e
<1>4. t \in Seq(F) /\ Len(t) = Len(s)
  BY <1>1, <1>3
<1> QED
  BY <1>2, <1>4 DEF F

\* What a resize does to the frames: each is pointed into the new ring.
LEMMA ResizeEffect ==
  ASSUME Inv, Resize, NEW p, p = Place(ring + 1, gc_integration_epoch)
  PROVE  /\ \A i \in 0..(frameCount - 1) : FrameAt(i)' = PointTo(FrameAt(i), p, IpOffset(FrameAt(i)))
         /\ mem' \in [Array -> Seq(KeptTo(gc_integration_epoch))]
         /\ \A x \in Array : Len(mem'[x]) = Len(mem[x])
         /\ frameCount > 0 => /\ vm_current' = Pointer(ring + 1, frameCount - 1, a)
                              /\ tf_current' = Pointer(ring + 1, frameCount - 1, a)
         /\ vm_current' \in FramePointer /\ tf_current' \in FramePointer
<1> DEFINE K == KeptTo(gc_integration_epoch)
           moved(x) == CHOOSE arr \in {a, b, c} : arr.at = x
           N(x) == IF x \in {a.at, b.at, c.at} THEN Resized(moved(x), mem[x]) ELSE mem[x]
<1>0. /\ mem' = [x \in Array |-> N(x)]
      /\ a' = a /\ b' = b /\ c' = c /\ frameCount' = frameCount /\ ring' = ring + 1
      /\ ring < MaxRing
      /\ tf_current' = Recached(ring + 1, a, b, c)
      /\ vm_current' = IF vm_current = None THEN None ELSE tf_current'
      /\ vm_current # None => frameCount > 0
  BY DEF Resize
<1>1. /\ mem \in [Array -> Seq(K)] /\ ArraysInv /\ CurrentInv
      /\ a.at \in Array /\ a.from \in Nat /\ b.from \in Nat /\ c.from = 0
      /\ frameCount \in Nat /\ frameCount \in 0..FRAMES_MAX /\ FRAMES_MAX \in Nat
      /\ ring \in 0..MaxRing /\ ring \in Nat /\ MaxRing \in Nat
  BY InvFacts DEF ValuesInv
<1>2. ASSUME NEW x \in Array
      PROVE  N(x) \in Seq(K) /\ Len(N(x)) = Len(mem[x])
  <2>1. mem[x] \in Seq(K)
    BY <1>1
  <2>2. /\ Resized(moved(x), mem[x]) \in Seq(K)
        /\ Len(Resized(moved(x), mem[x])) = Len(mem[x])
    <3> HIDE DEF moved
    <3> QED
      BY <1>0, <2>1, ResizedArrays
  <2> QED
    BY <2>1, <2>2
<1>3. /\ mem' \in [Array -> Seq(K)] /\ \A x \in Array : mem'[x] = N(x)
      /\ \A x \in Array : Len(mem'[x]) = Len(mem[x])
  <2> HIDE DEF N, K
  <2> QED
    BY <1>0, <1>2
<1>4. ASSUME NEW arr \in {a, b, c}, arr.at \in Array
      PROVE  mem'[arr.at] = Resized(arr, mem[arr.at])
  <2>1. arr.at # 0
    BY <1>4 DEF Array
  <2>2. \A other \in {a, b, c} : other.at = arr.at => other = arr
    BY <1>1, <1>4, <2>1 DEF ArraysInv
  <2>3. moved(arr.at) = arr
    BY <2>2
  <2> HIDE DEF moved
  <2> QED
    BY <1>3, <1>4, <2>3
<1>5. ASSUME NEW i \in 0..(frameCount - 1), NEW arr \in {a, b, c}, arr.at \in Array,
             ArrayOf(i, a, b, c) = arr,
             NEW k, k = i - arr.from + 1, k \in 1..Len(mem[arr.at]),
             FrameAt(i) = mem[arr.at][k]
      PROVE  FrameAt(i)' = PointTo(FrameAt(i), p, IpOffset(FrameAt(i)))
  <2>1. FrameAt(i)' = mem'[arr.at][k]
    BY <1>0, <1>5 DEF FrameAt, FrameIn
  <2>2. mem[arr.at] \in Seq(K) /\ DOMAIN mem[arr.at] = 1..Len(mem[arr.at])
    BY <1>1, <1>5, LenProperties
  <2>3. k \in LiveIn(arr, mem[arr.at])
    <3>1. arr.from \in Nat
      BY <1>1, <1>5
    <3>2. arr.from + k - 1 = i /\ i < frameCount
      BY <1>1, <1>5, <3>1
    <3> QED
      BY <1>5, <2>2, <3>2 DEF LiveIn
  <2>4. Resized(arr, mem[arr.at])[k] = PointTo(mem[arr.at][k], p, IpOffset(mem[arr.at][k]))
    BY <1>0, <1>5, <2>2, <2>3, ResizedArrays
  <2> QED
    BY <1>4, <1>5, <2>1, <2>4
<1>6. ASSUME NEW i \in 0..(frameCount - 1)
      PROVE  FrameAt(i)' = PointTo(FrameAt(i), p, IpOffset(FrameAt(i)))
  <2>1. CASE i >= a.from
    <3>1. ArrayOf(i, a, b, c) = a
      BY <2>1 DEF ArrayOf
    <3> QED
      BY <1>1, <1>5, <2>1, <3>1, FramesAreThere
  <2>2. CASE i < a.from /\ i >= b.from
    <3>1. ArrayOf(i, a, b, c) = b
      BY <1>1, <2>2 DEF ArrayOf
    <3> QED
      BY <1>5, <2>2, <3>1, FramesAreThere
  <2>3. CASE i < a.from /\ i < b.from
    <3>1. ArrayOf(i, a, b, c) = c
      BY <1>1, <2>3 DEF ArrayOf
    <3>2. i + 1 = i - c.from + 1
      BY <1>1
    <3> QED
      BY <1>5, <2>3, <3>1, <3>2, FramesAreThere
  <2> QED
    BY <1>1, <2>1, <2>2, <2>3
<1>7. CASE frameCount > 0
  <2>1. frameCount - 1 >= a.from /\ frameCount - 1 \in 0..(FRAMES_MAX - 1) /\ frameCount # 0
    BY <1>1, <1>7 DEF ArraysInv
  <2>2. tf_current' = Pointer(ring + 1, frameCount - 1, a)
    BY <1>0, <2>1 DEF Recached, ArrayOf
  <2>3. vm_current # None
    <3>1. vm_current = Pointer(ring, frameCount - 1, a)
      BY <1>1, <1>7 DEF CurrentInv
    <3>2. Pointer(ring, frameCount - 1, a) \in [ring : Nat, at : Nat, index : Nat]
      BY <1>1, <2>1, SMTT(20) DEF Pointer, Array
    <3> QED
      BY <3>1, <3>2, FramesAssumption
  <2>4. Pointer(ring + 1, frameCount - 1, a) \in FramePointer
    <3>1. ring + 1 \in 0..MaxRing
      BY <1>0, <1>1
    <3> QED
      BY <1>1, <2>1, <3>1, PointersIntoA
  <2> QED
    BY <1>0, <1>3, <1>6, <2>2, <2>3, <2>4
<1>8. CASE frameCount = 0
  <2>1. tf_current' = Wild /\ vm_current' = None
    BY <1>0, <1>8 DEF Recached
  <2> QED
    BY <1>3, <1>6, <1>8, <2>1 DEF FramePointer
<1> QED
  BY <1>1, <1>7, <1>8

\* A resize keeps the invariant.
LEMMA ResizeKeepsInv ==
  ASSUME Inv, Resize
  PROVE  Inv'
<1>1. PICK p : p = Place(ring + 1, gc_integration_epoch)
  OBVIOUS
<1>2. /\ \A i \in 0..(frameCount - 1) : FrameAt(i)' = PointTo(FrameAt(i), p, IpOffset(FrameAt(i)))
      /\ mem' \in [Array -> Seq(KeptTo(gc_integration_epoch))]
      /\ \A x \in Array : Len(mem'[x]) = Len(mem[x])
      /\ frameCount > 0 => /\ vm_current' = Pointer(ring + 1, frameCount - 1, a)
                           /\ tf_current' = Pointer(ring + 1, frameCount - 1, a)
      /\ vm_current' \in FramePointer /\ tf_current' \in FramePointer
  BY <1>1, ResizeEffect
<1>3. /\ UNCHANGED <<gc_integration_epoch, frameCount, a, b, c, gcpc, new_b>>
      /\ ring' = ring + 1 /\ ring < MaxRing
  BY DEF Resize
<1>4. /\ ValuesInv /\ ArraysInv /\ CurrentInv /\ CopyInv /\ ring \in Nat /\ MaxRing \in Nat
      /\ a.at \in Array /\ frameCount \in Nat
  BY InvFacts
<1>5. /\ req'.ring = req.ring /\ req'.abi = req.abi /\ req'.bbi = req.bbi /\ req'.dest = req.dest
      /\ Len(req'.b) = Len(req.b) /\ Len(req'.c) = Len(req.c)
      /\ req' \in [ring : 0..MaxRing, abi : 0..FRAMES_MAX, bbi : 0..FRAMES_MAX,
                   b : Seq(FrameTo(gc_integration_epoch)), c : Seq(FrameTo(gc_integration_epoch)),
                   dest : Array \cup {0}]
  <2> DEFINE F == FrameTo(gc_integration_epoch)
             rb == Preresized(b, req.b)
             rc == Preresized(c, req.c)
  <2>1. req \in [ring : 0..MaxRing, abi : 0..FRAMES_MAX, bbi : 0..FRAMES_MAX,
                 b : Seq(F), c : Seq(F), dest : Array \cup {0}]
    BY <1>4 DEF ValuesInv
  <2>2. CASE gcpc = "condensing" /\ req.ring = ring
    <3>1. req.b \in Seq(F) /\ req.c \in Seq(F)
      BY <2>1
    <3>2. rb \in Seq(F) /\ Len(rb) = Len(req.b) /\ rc \in Seq(F) /\ Len(rc) = Len(req.c)
      BY <3>1, PreresizedArrays
    <3>3. req' = [ring |-> req.ring, abi |-> req.abi, bbi |-> req.bbi,
                  b |-> rb, c |-> rc, dest |-> req.dest]
      BY <2>2 DEF Resize
    <3> HIDE DEF F, rb, rc
    <3> QED
      BY <2>1, <3>2, <3>3 DEF F
  <2>3. CASE ~(gcpc = "condensing" /\ req.ring = ring)
    <3>1. req' = req
      BY <2>3 DEF Resize
    <3> QED
      BY <2>1, <3>1
  <2> QED
    BY <2>2, <2>3
<1>6. ValuesInv'
  <2>1. ring' \in 0..MaxRing
    BY <1>3, <1>4
  <2> QED
    BY <1>2, <1>3, <1>4, <1>5, <2>1 DEF ValuesInv
<1>7. ArraysInv'
  BY <1>2, <1>3, <1>4, <1>5 DEF ArraysInv
<1>8. CurrentInv'
  <2>1. Here' = p
    BY <1>1, <1>3 DEF Here
  <2>2. ASSUME NEW i \in 0..(frameCount - 1)
        PROVE  FrameAt(i)'.root = p
    BY <1>2 DEF PointTo
  <2>3. frameCount > 0 => FrameAt(frameCount - 1)'.root = p
    <3>1. ASSUME NEW i \in 0..(frameCount - 1), i = frameCount' - 1
          PROVE  FrameAt(i)'.root = p
      BY <2>2
    <3>2. frameCount' > 0 => frameCount' - 1 \in 0..(frameCount - 1)
      BY <1>3, <1>4
    <3> QED
      BY <1>3, <3>1, <3>2 DEF FrameAt
  <2> QED
    BY <1>2, <1>3, <2>1, <2>2, <2>3 DEF CurrentInv
<1>9. CopyInv'
  BY <1>3, <1>4, <1>5 DEF CopyInv
<1> QED
  BY <1>6, <1>7, <1>8, <1>9 DEF Inv
-----------------------------------------------------------------------------
(***************************************************************************)
(* The steps of the GC thread.                                             *)
(***************************************************************************)

\* There is a frame to be condensed as long as some are missing.
LEMMA SourceIsThere ==
  ASSUME Inv, gcpc = "condensing", Len(new_b) < req.abi
  PROVE  Source \in FrameTo(gc_integration_epoch)
<1> DEFINE F == FrameTo(gc_integration_epoch)
           l == Len(new_b)
<1>1. /\ req.b \in Seq(F) /\ req.c \in Seq(F) /\ req.abi \in Nat /\ req.bbi \in Nat
      /\ Len(req.b) \in Nat /\ Len(req.c) \in Nat /\ l \in Nat
      /\ req.bbi <= Len(req.c) /\ req.abi <= req.bbi + Len(req.b) /\ l < req.abi
  <2>1. req.b \in Seq(F) /\ req.c \in Seq(F) /\ req.abi \in Nat /\ req.bbi \in Nat /\ l \in Nat
    BY InvFacts, LenProperties DEF ValuesInv
  <2>2. req.bbi <= Len(req.c) /\ req.abi <= req.bbi + Len(req.b)
    BY InvFacts DEF CopyInv
  <2> QED
    BY <2>1, <2>2, LenProperties
<1> HIDE DEF l, F
<1>2. CASE l < req.bbi
  <2>1. l + 1 \in 1..Len(req.c)
    BY <1>1, <1>2
  <2>2. Source = req.c[l + 1]
    BY <1>2 DEF Source, l
  <2> QED
    BY <1>1, <2>1, <2>2, ElementOfSeq DEF F
<1>3. CASE ~(l < req.bbi)
  <2>1. l - req.bbi + 1 \in 1..Len(req.b)
    BY <1>1, <1>3, SMTT(20)
  <2>2. Source = req.b[l - req.bbi + 1]
    BY <1>3 DEF Source, l
  <2> QED
    BY <1>1, <2>1, <2>2, ElementOfSeq DEF F
<1> QED
  BY <1>2, <1>3

\* Nothing that the GC thread does touches the frames of the interpreter.
LEMMA FramesUntouched ==
  ASSUME ArraysInv, CurrentInv, UNCHANGED <<ring, gc_integration_epoch, tf, req>>,
         gcpc' = "idle" => gcpc = "idle"
  PROVE  ArraysInv' /\ CurrentInv'
<1>1. UNCHANGED <<ring, gc_integration_epoch, frameCount, a, b, c, mem, tf_current, vm_current, req>>
  BY DEF tf
<1>2. ArraysInv'
  BY <1>1 DEF ArraysInv
<1>3. CurrentInv'
  BY <1>1 DEF CurrentInv, FrameAt, Here
<1> QED
  BY <1>2, <1>3

\* Condensing a frame keeps the invariant.
LEMMA CondenseKeepsInv ==
  ASSUME Inv, Condense
  PROVE  Inv'
<1> DEFINE K == KeptTo(gc_integration_epoch)
           p == Place(req.ring, gc_integration_epoch + 1)
           x == PointTo(Source, p, IpOffset(Source))
<1>1. /\ gcpc = "condensing" /\ Len(new_b) < req.abi /\ new_b' = Append(new_b, x)
      /\ UNCHANGED <<ring, gc_integration_epoch, tf, gcpc, req>>
  BY DEF Condense
<1>2. UNCHANGED <<frameCount, a, b, c, mem, tf_current, vm_current>>
  BY <1>1 DEF tf
<1>3. ValuesInv /\ CopyInv /\ gc_integration_epoch \in Int
  BY InvFacts
<1>4. x \in K
  <2>1. Source \in FrameTo(gc_integration_epoch) /\ p \in Places
    BY <1>1, SourceIsThere, NextPlace
  <2>2. IpOffset(Source) \in Offset \cup {Junk}
    BY <1>3, <2>1, OffsetsAreOffsets
  <2> QED
    BY <1>3, <2>1, <2>2, PointToKeeps
<1>5. new_b' \in Seq(K) /\ Len(new_b') = Len(new_b) + 1 /\ Len(new_b) \in Nat
  <2>1. new_b \in Seq(K)
    BY <1>3 DEF ValuesInv
  <2> HIDE DEF x, K
  <2> QED
    BY <1>1, <1>4, <2>1, AppendProperties, LenProperties
<1>6. ValuesInv'
  BY <1>1, <1>2, <1>3, <1>5 DEF ValuesInv
<1>7. ArraysInv' /\ CurrentInv'
  BY <1>1, InvFacts, FramesUntouched
<1>8. CopyInv'
  <2>1. Len(new_b') <= req.abi /\ gcpc' # "done"
    <3>1. req.abi \in Nat
      BY <1>3 DEF ValuesInv
    <3> QED
      BY <1>1, <1>5, <3>1
  <2> QED
    BY <1>1, <1>2, <1>3, <2>1 DEF CopyInv
<1> QED
  BY <1>6, <1>7, <1>8 DEF Inv

\* The response keeps the invariant: all frames are condensed.
LEMMA RespondKeepsInv ==
  ASSUME Inv, Respond
  PROVE  Inv'
<1>1. /\ gcpc = "condensing" /\ gcpc' = "done" /\ Len(new_b) = req.abi
      /\ UNCHANGED <<ring, gc_integration_epoch, tf, req, new_b>>
  BY DEF Respond
<1>2. UNCHANGED <<frameCount, a, b, c, mem, tf_current, vm_current>>
  BY <1>1 DEF tf
<1>3. ValuesInv /\ CopyInv
  BY InvFacts
<1>4. ValuesInv'
  BY <1>1, <1>2, <1>3 DEF ValuesInv
<1>5. ArraysInv' /\ CurrentInv'
  BY <1>1, InvFacts, FramesUntouched
<1>6. CopyInv'
  BY <1>1, <1>2, <1>3 DEF CopyInv
<1> QED
  BY <1>4, <1>5, <1>6 DEF Inv

\* Nothing changes.
LEMMA StutterKeepsInv ==
  ASSUME Inv, UNCHANGED vars
  PROVE  Inv'
<1>1. UNCHANGED <<ring, gc_integration_epoch, tf, gcpc, req, new_b>>
  BY DEF vars
<1>2. UNCHANGED <<frameCount, a, b, c, mem, tf_current, vm_current>>
  BY <1>1 DEF tf
<1>3. ValuesInv'
  BY <1>1, <1>2, InvFacts DEF ValuesInv
<1>4. ArraysInv' /\ CurrentInv'
  BY <1>1, InvFacts, FramesUntouched
<1>5. CopyInv'
  BY <1>1, <1>2, InvFacts DEF CopyInv
<1> QED
  BY <1>3, <1>4, <1>5 DEF Inv
-----------------------------------------------------------------------------
(***************************************************************************)
(* The theorems.                                                           *)
(***************************************************************************)

\* Every step of the interpreter, of a resize and of the GC thread keeps Inv.
LEMMA NextKeepsInv == Inv /\ [Next]_vars => Inv'
<1> SUFFICES ASSUME Inv, [Next]_vars PROVE Inv'
  OBVIOUS
<1>1. ASSUME NEW f \in Function, Call(f) PROVE Inv'
  BY <1>1, CallKeepsInv
<1>2. ASSUME NEW n \in Offset, Proceed(n) PROVE Inv'
  BY <1>2, ProceedKeepsInv
<1>3. CASE Return
  BY <1>3, ReturnKeepsInv
<1>4. CASE RuntimeError
  BY <1>4, RuntimeErrorKeepsInv
<1>5. CASE CollectGarbage
  BY <1>5, CollectKeepsInv
<1>6. CASE IntegrateGCResponse
  BY <1>6, IntegrateKeepsInv
<1>7. CASE Resize
  BY <1>7, ResizeKeepsInv
<1>8. CASE Condense
  BY <1>8, CondenseKeepsInv
<1>9. CASE Respond
  BY <1>9, RespondKeepsInv
<1>10. CASE UNCHANGED vars
  BY <1>10, StutterKeepsInv
<1> QED
  BY <1>1, <1>2, <1>3, <1>4, <1>5, <1>6, <1>7, <1>8, <1>9, <1>10 DEF Next, MainNext

\* Inv holds in every state.
THEOREM InductiveInvariant == Spec => []Inv
  BY InitIsInv, NextKeepsInv, PTL DEF Spec

\* Every variable has its type, and no array is taken that is in use: neither by
\* A, B and C nor by what the GC thread condenses into.
THEOREM TypeCorrectness == Spec => []TypeOK
<1>1. Inv => TypeOK
  <2> SUFFICES ASSUME Inv PROVE TypeOK
    OBVIOUS
  <2> DEFINE F == FrameTo(gc_integration_epoch)
             K == KeptTo(gc_integration_epoch)
  <2>1. F \subseteq Frame /\ K \subseteq Frame
    BY DEF FrameTo, KeptTo
  <2>2. ValuesInv /\ ArraysInv
    BY InvFacts
  <2>3. /\ mem \in [Array -> Seq(K)] /\ new_b \in Seq(K)
        /\ req \in [ring : 0..MaxRing, abi : 0..FRAMES_MAX, bbi : 0..FRAMES_MAX,
                    b : Seq(F), c : Seq(F), dest : Array \cup {0}]
    BY <2>2 DEF ValuesInv
  <2> HIDE DEF F, K
  <2>4. new_b \in Seq(Frame)
    BY <2>1, <2>3, SeqGrows
  <2>5. mem \in [Array -> Seq(Frame)]
    <3>1. ASSUME NEW x \in Array PROVE mem[x] \in Seq(Frame)
      <4>1. mem[x] \in Seq(K)
        BY <2>3
      <4> QED
        BY <2>1, <4>1, SeqGrows
    <3> QED
      BY <2>3, <3>1
  <2>6. req.b \in Seq(Frame) /\ req.c \in Seq(Frame)
    <3>1. req.b \in Seq(F) /\ req.c \in Seq(F)
      BY <2>3
    <3> QED
      BY <2>1, <3>1, SeqGrows
  <2>7. req \in [ring : 0..MaxRing, abi : 0..FRAMES_MAX, bbi : 0..FRAMES_MAX,
                 b : Seq(Frame), c : Seq(Frame), dest : Array \cup {0}]
    BY <2>3, <2>6
  <2>8. a.at # 0
    BY <2>2 DEF ArraysInv, Array
  <2> QED
    BY <2>2, <2>4, <2>5, <2>7, <2>8 DEF TypeOK, ValuesInv, ArraysInv
<1> QED
  BY <1>1, InductiveInvariant, PTL

\* While a script runs, both frame pointers are at the last frame, which is in A
\* and in the present ring (triframes_ensureCurrentFrameIsMutable() and the resize
\* hooks, at the end of all that freezes, integrates, returns or allocates).
THEOREM CurrentFrameStaysMutable == Spec => []CurrentFrameIsMutable
<1>1. Inv => CurrentFrameIsMutable
  BY InvFacts DEF ArraysInv, CurrentInv, CurrentFrameIsMutable
<1> QED
  BY <1>1, InductiveInvariant, PTL

\* What instructions and constants are read through is where the function's code
\* is: in the present ring and of the present epoch.
THEOREM CurrentPointersStayFresh == Spec => []CurrentPointersAreFresh
<1>1. Inv => CurrentPointersAreFresh
  <2> SUFFICES ASSUME Inv, frameCount > 0
               PROVE  FrameAt(frameCount - 1).root = Here /\ FrameAt(frameCount - 1).ip.at = Here
    BY DEF CurrentPointersAreFresh
  <2>1. FrameAt(frameCount - 1).root = Here
    BY InvFacts DEF CurrentInv
  <2>2. FrameAt(frameCount - 1) \in KeptTo(gc_integration_epoch)
    BY LastIsInA
  <2> QED
    BY <2>1, <2>2 DEF KeptTo
<1> QED
  BY <1>1, InductiveInvariant, PTL
-----------------------------------------------------------------------------
(***************************************************************************)
(* The calls that the interpreter goes on with, if the ring is not resized  *)
(* while frames are condensed.                                             *)
(***************************************************************************)

\* What a frame is to the interpreter.
Entry(fr) == [f |-> fr.f, pc |-> IpOffset(fr)]

\* The calls of CallStack.
CallsNow == [i \in 1..frameCount |-> [f |-> FrameAt(i - 1).f, pc |-> IpOffset(FrameAt(i - 1))]]

\* The frame that is or was to be condensed as number i.
SourceOf(i) == IF i < req.bbi THEN req.c[i + 1] ELSE req.b[i - req.bbi + 1]

\* Below A, what is condensed and what is still to be goes on where the frames
\* of the interpreter do.
CondensedInv ==
  gcpc # "idle" =>
    \A i \in 0..(a.from - 1) :
      /\ i < Len(new_b) => Entry(new_b[i + 1]) = Entry(FrameAt(i))
      /\ gcpc = "condensing" => Entry(SourceOf(i)) = Entry(FrameAt(i))

\* The calls are a sequence, as long as there are frames.
CallsFacts ==
  /\ CallsNow \in Seq([f : Function, pc : Offset \cup {Junk}])
  /\ Len(CallsNow) = frameCount
  /\ frameCount \in Nat
  /\ \A i \in 1..frameCount : CallsNow[i] = Entry(FrameAt(i - 1))

LEMMA CallsAreThere == Inv => CallsFacts
<1> SUFFICES ASSUME Inv PROVE CallsFacts
  OBVIOUS
<1> DEFINE e(i) == [f |-> FrameAt(i - 1).f, pc |-> IpOffset(FrameAt(i - 1))]
<1>1. frameCount \in Nat /\ gc_integration_epoch \in Int
  BY InvFacts
<1>2. CallsNow = [i \in 1..frameCount |-> e(i)]
  BY DEF CallsNow
<1>3. ASSUME NEW i \in 1..frameCount
      PROVE  e(i) \in [f : Function, pc : Offset \cup {Junk}] /\ e(i) = Entry(FrameAt(i - 1))
  <2>1. i - 1 \in 0..(frameCount - 1)
    BY <1>1
  <2>2. FrameAt(i - 1) \in FrameTo(gc_integration_epoch)
    BY <2>1, FramesAreThere DEF KeptTo
  <2>3. FrameAt(i - 1) \in Frame /\ IpOffset(FrameAt(i - 1)) \in Offset \cup {Junk}
    BY <1>1, <2>2, OffsetsAreOffsets
  <2>4. FrameAt(i - 1).f \in Function
    BY <2>3 DEF Frame
  <2> QED
    BY <2>3, <2>4 DEF Entry
<1> HIDE DEF e
<1> QED
  BY <1>1, <1>2, <1>3 DEF CallsFacts

LEMMA CallsNext == Inv' => CallsFacts'
  BY CallsAreThere, PTL

\* Sequences of the same length and members are the same.
LEMMA SameSeq ==
  ASSUME NEW S, NEW s \in Seq(S), NEW t \in Seq(S), Len(s) = Len(t),
         \A i \in 1..Len(s) : s[i] = t[i]
  PROVE  s = t
<1>1. /\ DOMAIN s = 1..Len(s) /\ DOMAIN t = 1..Len(t)
      /\ s = [i \in 1..Len(s) |-> s[i]] /\ t = [i \in 1..Len(t) |-> t[i]]
  BY LenProperties
<1> QED
  BY <1>1

\* What is not above a bound is not above a higher one.
LEMMA Earlier ==
  ASSUME NEW n \in Nat, NEW m \in Nat, n <= m, NEW i \in 1..n
  PROVE  i - 1 \in 0..(n - 1) /\ i \in 1..m
  OBVIOUS

\* Where the frames up to the new last one go on as before, the calls are cut there.
LEMMA CallsCut ==
  ASSUME CallsFacts, CallsFacts', NEW n, n = frameCount', n <= frameCount,
         \A i \in 0..(n - 1) : Entry(FrameAt(i)') = Entry(FrameAt(i))
  PROVE  CallsNow' = SubSeq(CallsNow, 1, n)
<1> DEFINE E == [f : Function, pc : Offset \cup {Junk}]
           s == CallsNow'
           t == SubSeq(CallsNow, 1, n)
<1>1. s \in Seq(E) /\ Len(s) = n /\ n \in Nat /\ frameCount \in Nat
      /\ CallsNow \in Seq(E) /\ Len(CallsNow) = frameCount
  BY DEF CallsFacts
<1>2. t \in Seq(E) /\ Len(t) = n /\ \A i \in 1..n : t[i] = CallsNow[i]
  <2> DEFINE q == CallsNow
  <2>1. q \in Seq(E) /\ n \in Nat /\ n <= Len(q)
    BY <1>1
  <2> HIDE DEF E, q
  <2>2. /\ SubSeq(q, 1, n) \in Seq(E) /\ Len(SubSeq(q, 1, n)) = n
        /\ \A i \in 1..n : SubSeq(q, 1, n)[i] = q[i]
    BY <2>1, Prefix
  <2> QED
    BY <2>2 DEF q
<1>3. ASSUME NEW i \in 1..n
      PROVE  s[i] = t[i]
  <2>1. i - 1 \in 0..(n - 1) /\ i \in 1..frameCount
    BY <1>1, Earlier
  <2>2. s[i] = Entry(FrameAt(i - 1)')
    BY DEF CallsFacts
  <2>3. t[i] = Entry(FrameAt(i - 1))
    BY <1>2, <2>1 DEF CallsFacts
  <2> QED
    BY <2>1, <2>2, <2>3
<1> HIDE DEF s, t, E
<1>4. s = t
  BY <1>1, <1>2, <1>3, SameSeq
<1> QED
  BY <1>4 DEF s, t

\* Where all frames go on as before, the calls are as before.
LEMMA CallsAsBefore ==
  ASSUME CallsFacts, CallsFacts', frameCount' = frameCount,
         \A i \in 0..(frameCount - 1) : Entry(FrameAt(i)') = Entry(FrameAt(i))
  PROVE  CallsNow' = CallsNow
<1>1. CallsNow' = SubSeq(CallsNow, 1, frameCount)
  BY CallsCut DEF CallsFacts
<1> DEFINE E == [f : Function, pc : Offset \cup {Junk}]
           s == CallsNow
           t == SubSeq(s, 1, frameCount)
<1>2. s \in Seq(E) /\ Len(s) = frameCount /\ frameCount \in Nat
  BY DEF CallsFacts
<1> HIDE DEF s, E
<1>3. t \in Seq(E) /\ Len(t) = frameCount /\ \A i \in 1..frameCount : t[i] = s[i]
  BY <1>2, Prefix
<1> HIDE DEF t
<1>4. s = t
  BY <1>2, <1>3, SameSeq
<1> QED
  BY <1>1, <1>4 DEF s, t

\* One more frame is one more call.
LEMMA CallsPushed ==
  ASSUME CallsFacts, CallsFacts', NEW n, n = frameCount, frameCount' = n + 1,
         NEW x \in [f : Function, pc : Offset \cup {Junk}],
         \A i \in 0..(n - 1) : Entry(FrameAt(i)') = Entry(FrameAt(i)),
         Entry(FrameAt(n)') = x
  PROVE  CallsNow' = Append(CallsNow, x)
<1> DEFINE E == [f : Function, pc : Offset \cup {Junk}]
           s == CallsNow'
           t == Append(CallsNow, x)
<1>1. s \in Seq(E) /\ Len(s) = n + 1 /\ n \in Nat
      /\ CallsNow \in Seq(E) /\ Len(CallsNow) = n
  BY DEF CallsFacts
<1>2. t \in Seq(E) /\ Len(t) = n + 1 /\ t[n + 1] = x /\ \A i \in 1..n : t[i] = CallsNow[i]
  <2>1. x \in E
    OBVIOUS
  <2> HIDE DEF E
  <2> QED
    BY <1>1, <2>1, AppendProperties
<1>3. ASSUME NEW i \in 1..(n + 1)
      PROVE  s[i] = t[i]
  <2>1. s[i] = Entry(FrameAt(i - 1)')
    BY DEF CallsFacts
  <2>2. CASE i = n + 1
    <3>1. i - 1 = n
      BY <1>1, <2>2
    <3> QED
      BY <1>2, <2>1, <2>2, <3>1
  <2>3. CASE i # n + 1
    <3>1. i \in 1..n /\ i - 1 \in 0..(n - 1)
      BY <1>1, <2>3
    <3>2. t[i] = Entry(FrameAt(i - 1))
      BY <1>2, <3>1 DEF CallsFacts
    <3> QED
      BY <2>1, <3>1, <3>2
  <2> QED
    BY <2>2, <2>3
<1> HIDE DEF s, t, E
<1>4. s = t
  BY <1>1, <1>2, <1>3, SameSeq
<1> QED
  BY <1>4 DEF s, t

\* Where the last frame goes on elsewhere, the last call does.
LEMMA CallsMoved ==
  ASSUME CallsFacts, CallsFacts', NEW n, n = frameCount, frameCount' = n, n > 0,
         NEW x \in [f : Function, pc : Offset \cup {Junk}],
         \A i \in 0..(n - 1) : Entry(FrameAt(i)') = IF i = n - 1 THEN x ELSE Entry(FrameAt(i))
  PROVE  CallsNow' = [CallsNow EXCEPT ![n] = x]
<1> DEFINE E == [f : Function, pc : Offset \cup {Junk}]
           s == CallsNow'
           t == [CallsNow EXCEPT ![n] = x]
<1>1. s \in Seq(E) /\ Len(s) = n /\ n \in Nat /\ n \in 1..n
      /\ CallsNow \in Seq(E) /\ Len(CallsNow) = n
  BY DEF CallsFacts
<1>2. t \in Seq(E) /\ Len(t) = n /\ \A i \in 1..n : t[i] = IF i = n THEN x ELSE CallsNow[i]
  <2>1. x \in E
    OBVIOUS
  <2> HIDE DEF E
  <2> QED
    BY <1>1, <2>1, ExceptSeq, LenProperties
<1>3. ASSUME NEW i \in 1..n
      PROVE  s[i] = t[i]
  <2>1. i - 1 \in 0..(n - 1) /\ (i - 1 = n - 1 <=> i = n)
    BY <1>1
  <2>2. s[i] = Entry(FrameAt(i - 1)')
    BY DEF CallsFacts
  <2>3. CallsNow[i] = Entry(FrameAt(i - 1))
    BY DEF CallsFacts
  <2> QED
    BY <1>2, <2>1, <2>2, <2>3
<1> HIDE DEF s, t, E
<1>4. s = t
  BY <1>1, <1>2, <1>3, SameSeq
<1> QED
  BY <1>4 DEF s, t

\* What is condensed stays right as long as A reaches no higher and the frames
\* below it stay.
LEMMA CondensedStays ==
  ASSUME Inv, CondensedInv, UNCHANGED <<gcpc, req, new_b>>,
         a'.from \in Nat, a'.from <= a.from,
         \A i \in 0..(a'.from - 1) : Entry(FrameAt(i)') = Entry(FrameAt(i))
  PROVE  CondensedInv'
<1>1. a.from \in Nat
  BY InvFacts
<1>2. \A i \in 0..(a'.from - 1) : i \in 0..(a.from - 1)
  BY <1>1
<1>3. ASSUME NEW i \in 0..(a'.from - 1)
      PROVE  Entry(SourceOf(i)') = Entry(SourceOf(i)) /\ Entry(FrameAt(i)') = Entry(FrameAt(i))
  BY DEF SourceOf
<1> QED
  BY <1>2, <1>3 DEF CondensedInv

\* A frame that is pointed again goes on where it did.
LEMMA EntryKept ==
  ASSUME Inv, NEW i \in 0..(frameCount - 1), NEW p \in Places
  PROVE  /\ Entry(Rederived(FrameAt(i), p)) = Entry(FrameAt(i))
         /\ Entry(PointTo(FrameAt(i), p, IpOffset(FrameAt(i)))) = Entry(FrameAt(i))
         /\ Entry(PointTo(Rederived(FrameAt(i), p), p, IpOffset(FrameAt(i)))) = Entry(FrameAt(i))
<1> DEFINE fr == FrameAt(i)
           r == Rederived(fr, p)
           off == IpOffset(fr)
<1>1. fr \in KeptTo(gc_integration_epoch) /\ gc_integration_epoch \in 0..MaxEpoch
      /\ gc_integration_epoch \in Int
  BY FramesAreThere, InvFacts
<1> HIDE DEF fr
<1>2. r \in KeptTo(gc_integration_epoch) /\ r.f = fr.f /\ IpOffset(r) = off
  BY <1>1, RederivedKeeps
<1>3. fr \in FrameTo(gc_integration_epoch) /\ r \in FrameTo(gc_integration_epoch)
  BY <1>1, <1>2 DEF KeptTo
<1>4. off \in Offset \cup {Junk}
  BY <1>1, <1>3, OffsetsAreOffsets
<1> HIDE DEF r, off
<1>5. /\ PointTo(fr, p, off).f = fr.f /\ IpOffset(PointTo(fr, p, off)) = off
      /\ PointTo(r, p, off).f = r.f /\ IpOffset(PointTo(r, p, off)) = off
  BY <1>1, <1>3, <1>4, PointToKeeps
<1>6. Entry(r) = Entry(fr) /\ Entry(PointTo(fr, p, off)) = Entry(fr) /\ Entry(PointTo(r, p, off)) = Entry(fr)
  BY <1>2, <1>5 DEF Entry, off
<1> QED
  BY <1>6 DEF fr, r, off

\* The first state is that of an empty stack of calls.
LEMMA InitIsCallStack == Init => Calls!Init /\ CondensedInv
<1> SUFFICES ASSUME Init PROVE Calls!Init /\ CondensedInv
  OBVIOUS
<1>1. frameCount = 0 /\ gcpc = "idle"
  BY DEF Init
<1>2. CallsNow = <<>>
  BY <1>1 DEF CallsNow
<1> QED
  BY <1>1, <1>2 DEF CallsNow, Calls!Init, CondensedInv

\* A call enters a function at its start.
LEMMA CallRefines ==
  ASSUME Inv, CondensedInv, NEW f \in Function, Call(f)
  PROVE  Calls!Enter(f) /\ CondensedInv'
<1>1. /\ frameCount' = frameCount + 1
      /\ \A i \in 0..(frameCount - 1) : FrameAt(i)' = FrameAt(i)
      /\ \A i \in {frameCount} : FrameAt(i)' = NewFrame(f)
  BY CallEffect
<1>2. /\ CallsFacts /\ CallsFacts'
      /\ frameCount < FRAMES_MAX /\ a' = a /\ UNCHANGED <<gcpc, req, new_b>>
  BY CallKeepsInv, CallsAreThere, CallsNext DEF Call
<1>3. frameCount \in Nat /\ a.from \in Nat /\ a.from <= frameCount
  BY InvFacts DEF ArraysInv
<1>4. PICK n : n = frameCount
  OBVIOUS
<1>5. Entry(NewFrame(f)) = [f |-> f, pc |-> 0]
  BY DEF Entry, NewFrame, IpOffset
<1>6. CallsNow' = Append(CallsNow, [f |-> f, pc |-> 0])
  <2>1. [f |-> f, pc |-> 0] \in [f : Function, pc : Offset \cup {Junk}]
    BY FramesAssumption
  <2>2. /\ \A i \in 0..(n - 1) : Entry(FrameAt(i)') = Entry(FrameAt(i))
        /\ Entry(FrameAt(n)') = [f |-> f, pc |-> 0]
    BY <1>1, <1>4, <1>5
  <2> QED
    BY <1>1, <1>2, <1>4, <2>1, <2>2, CallsPushed
<1>7. Calls!Enter(f)
  BY <1>2, <1>6 DEF Calls!Enter, CallsNow, CallsFacts
<1>8. CondensedInv'
  <2>1. \A i \in 0..(a'.from - 1) : Entry(FrameAt(i)') = Entry(FrameAt(i))
    BY <1>1, <1>2, <1>3
  <2> QED
    BY <1>2, <1>3, <2>1, CondensedStays
<1> QED
  BY <1>7, <1>8

\* An instruction moves on in the function called last.
LEMMA ProceedRefines ==
  ASSUME Inv, CondensedInv, NEW n \in Offset, Proceed(n)
  PROVE  Calls!Proceed(n) /\ CondensedInv'
<1>1. /\ \A i \in 0..(frameCount - 1) :
           FrameAt(i)' = IF i = frameCount - 1 THEN Jump(FrameAt(i), n) ELSE FrameAt(i)
  BY ProceedEffect
<1>2. /\ CallsFacts /\ CallsFacts'
      /\ frameCount > 0 /\ frameCount' = frameCount /\ a' = a /\ UNCHANGED <<gcpc, req, new_b>>
  BY ProceedKeepsInv, CallsAreThere, CallsNext DEF Proceed
<1>3. frameCount \in Nat /\ a.from \in Nat /\ a.from < frameCount /\ gc_integration_epoch \in Int
  BY <1>2, InvFacts DEF ArraysInv
<1>4. PICK k : k = frameCount
  OBVIOUS
<1>5. PICK x : x = [f |-> FrameAt(frameCount - 1).f, pc |-> n]
  OBVIOUS
<1>6. FrameAt(frameCount - 1) \in KeptTo(gc_integration_epoch) /\ frameCount - 1 \in 0..(frameCount - 1)
  BY <1>2, LastIsInA
<1>7. Entry(Jump(FrameAt(frameCount - 1), n)) = x
  <2>1. /\ Jump(FrameAt(frameCount - 1), n).f = FrameAt(frameCount - 1).f
        /\ IpOffset(Jump(FrameAt(frameCount - 1), n)) = n
    BY <1>3, <1>6, JumpKeeps
  <2> QED
    BY <1>5, <2>1 DEF Entry
<1>8. x \in [f : Function, pc : Offset \cup {Junk}]
  BY <1>5, <1>6 DEF KeptTo, FrameTo, Frame
<1>9. CallsNow' = [CallsNow EXCEPT ![k] = x]
  <2>1. \A i \in 0..(k - 1) : Entry(FrameAt(i)') = IF i = k - 1 THEN x ELSE Entry(FrameAt(i))
    BY <1>1, <1>4, <1>7
  <2> QED
    BY <1>2, <1>4, <1>8, <2>1, CallsMoved
<1>10. CallsNow[k] = [f |-> FrameAt(frameCount - 1).f, pc |-> IpOffset(FrameAt(frameCount - 1))]
  BY <1>2, <1>3, <1>4 DEF CallsFacts, Entry
<1>11. x = [CallsNow[k] EXCEPT !.pc = n]
  BY <1>5, <1>10
<1>12. Len(CallsNow) = k /\ CallsNow # <<>>
  BY <1>2, <1>4 DEF CallsFacts
<1>13. CallsNow' = [CallsNow EXCEPT ![Len(CallsNow)].pc = n]
  <2> HIDE DEF CallsNow
  <2> QED
    BY <1>9, <1>11, <1>12
<1>14. Calls!Proceed(n)
  BY <1>12, <1>13 DEF Calls!Proceed, CallsNow
<1>15. CondensedInv'
  <2>1. \A i \in 0..(a'.from - 1) : i \in 0..(frameCount - 1) /\ i # frameCount - 1
    BY <1>2, <1>3
  <2>2. \A i \in 0..(a'.from - 1) : Entry(FrameAt(i)') = Entry(FrameAt(i))
    BY <1>1, <2>1
  <2> QED
    BY <1>2, <1>3, <2>2, CondensedStays
<1> QED
  BY <1>14, <1>15

\* The function returned to goes on where it was left.
LEMMA ReturnRefines ==
  ASSUME Inv, CondensedInv, Return
  PROVE  Calls!Return /\ CondensedInv'
<1>1. /\ frameCount' = frameCount - 1 /\ a'.from <= a.from
      /\ frameCount' = 0 => a'.from = 0
      /\ frameCount' > 0 => a'.from < frameCount'
      /\ \A i \in 0..(frameCount - 2) :
           FrameAt(i)' = IF i = frameCount - 2 THEN Rederived(FrameAt(i), Here) ELSE FrameAt(i)
      /\ a' \in Region
  BY ReturnEffect
<1>2. /\ CallsFacts /\ CallsFacts' /\ frameCount > 0 /\ UNCHANGED <<gcpc, req, new_b>>
  BY ReturnKeepsInv, CallsAreThere, CallsNext DEF Return
<1>3. frameCount \in Nat /\ a'.from \in Nat /\ Here \in Places
  BY <1>1, InvFacts DEF Region
<1>4. \A i \in 0..(frameCount - 2) : Entry(FrameAt(i)') = Entry(FrameAt(i))
  <2>1. ASSUME NEW i \in 0..(frameCount - 2)
        PROVE  Entry(FrameAt(i)') = Entry(FrameAt(i))
    <3>1. i \in 0..(frameCount - 1)
      BY <1>3
    <3>2. Entry(Rederived(FrameAt(i), Here)) = Entry(FrameAt(i))
      BY <1>3, <3>1, EntryKept
    <3> QED
      BY <1>1, <3>2
  <2> QED
    BY <2>1
<1>5. PICK n : n = frameCount - 1
  OBVIOUS
<1>6. CallsNow' = SubSeq(CallsNow, 1, n)
  <2>1. n = frameCount' /\ n <= frameCount /\ n - 1 = frameCount - 2
    BY <1>1, <1>3, <1>5
  <2>2. \A i \in 0..(n - 1) : Entry(FrameAt(i)') = Entry(FrameAt(i))
    BY <1>4, <2>1
  <2> QED
    BY <1>2, <2>1, <2>2, CallsCut
<1>7. Calls!Return
  <2>1. Len(CallsNow) - 1 = n /\ CallsNow # <<>>
    BY <1>2, <1>3, <1>5 DEF CallsFacts
  <2> QED
    BY <1>6, <2>1 DEF Calls!Return, CallsNow
<1>8. CondensedInv'
  <2>1. \A i \in 0..(a'.from - 1) : i \in 0..(frameCount - 2)
    BY <1>1, <1>2, <1>3
  <2> QED
    BY <1>1, <1>2, <1>3, <1>4, <2>1, CondensedStays
<1> QED
  BY <1>7, <1>8

\* A runtime error ends all calls.
LEMMA RuntimeErrorRefines ==
  ASSUME Inv, CondensedInv, RuntimeError
  PROVE  Calls!Reset /\ CondensedInv'
<1>1. /\ frameCount > 0 /\ frameCount' = 0 /\ a'.from = 0
      /\ UNCHANGED <<gcpc, req, new_b>>
  BY DEF RuntimeError
<1>2. CallsFacts
  BY CallsAreThere
<1>3. CallsNow' = <<>>
  BY <1>1 DEF CallsNow
<1>4. CallsNow # <<>>
  BY <1>1, <1>2 DEF CallsFacts
<1>5. Calls!Reset
  BY <1>3, <1>4 DEF Calls!Reset, CallsNow
<1>6. CondensedInv'
  BY <1>1, InvFacts DEF CondensedInv
<1> QED
  BY <1>5, <1>6

\* Freezing moves the current frame; the GC thread is given all the others.
LEMMA CollectRefines ==
  ASSUME Inv, CollectGarbage
  PROVE  CallsNow' = CallsNow /\ CondensedInv'
<1>1. /\ \A i \in 0..(frameCount - 1) :
           FrameAt(i)' = IF i = frameCount - 1 THEN Rederived(FrameAt(i), Here) ELSE FrameAt(i)
      /\ req' = [ring |-> ring, abi |-> frameCount, bbi |-> a.from,
                 b |-> Below(frameCount, a), c |-> Below(a.from, b), dest |-> req'.dest]
      /\ frameCount = 0 => a'.from = 0
      /\ frameCount > 0 => a'.from = frameCount - 1
  BY CollectEffect
<1>2. /\ CallsFacts /\ CallsFacts'
      /\ gcpc = "idle" /\ gcpc' = "condensing" /\ frameCount' = frameCount /\ new_b' = <<>>
  BY CollectKeepsInv, CallsAreThere, CallsNext DEF CollectGarbage
<1>3. frameCount \in Nat /\ a.from \in Nat /\ Here \in Places /\ b.from = 0
  BY <1>2, InvFacts, FrozenArrays
<1>4. \A i \in 0..(frameCount - 1) : Entry(FrameAt(i)') = Entry(FrameAt(i))
  <2>1. ASSUME NEW i \in 0..(frameCount - 1)
        PROVE  Entry(FrameAt(i)') = Entry(FrameAt(i))
    <3>1. Entry(Rederived(FrameAt(i), Here)) = Entry(FrameAt(i))
      BY <1>3, EntryKept
    <3> QED
      BY <1>1, <3>1
  <2> QED
    BY <2>1
<1>5. CallsNow' = CallsNow
  BY <1>2, <1>4, CallsAsBefore
<1>6. ASSUME NEW i \in 0..(frameCount - 1)
      PROVE  SourceOf(i)' = FrameAt(i)
  <2>1. SourceOf(i)' = IF i < a.from THEN Below(a.from, b)[i + 1]
                       ELSE Below(frameCount, a)[i - a.from + 1]
    BY <1>1 DEF SourceOf
  <2>2. CASE i < a.from
    <3>1. i + 1 \in 1..a.from /\ i >= b.from /\ i - b.from + 1 = i + 1
      BY <1>3, <2>2
    <3>2. Below(a.from, b)[i + 1] = mem[b.at][i + 1]
      BY <1>2, <3>1, FrozenArrays
    <3>3. FrameAt(i) = mem[b.at][i + 1]
      BY <2>2, <3>1, FramesAreThere
    <3> QED
      BY <2>1, <2>2, <3>2, <3>3
  <2>3. CASE i >= a.from
    <3>1. i - a.from + 1 \in 1..(frameCount - a.from) /\ ~(i < a.from)
      BY <1>3, <2>3
    <3>2. Below(frameCount, a)[i - a.from + 1] = mem[a.at][i - a.from + 1]
      BY <1>2, <3>1, FrozenArrays
    <3>3. FrameAt(i) = mem[a.at][i - a.from + 1]
      BY <2>3, FramesAreThere
    <3> QED
      BY <2>1, <3>1, <3>2, <3>3
  <2> QED
    BY <1>3, <2>2, <2>3
<1>7. CondensedInv'
  <2>1. \A i \in 0..(a'.from - 1) : i \in 0..(frameCount - 1) /\ ~(i < Len(new_b'))
    BY <1>1, <1>2, <1>3
  <2>2. \A i \in 0..(a'.from - 1) : Entry(SourceOf(i)') = Entry(FrameAt(i)')
    BY <1>4, <1>6, <2>1
  <2> QED
    BY <2>1, <2>2 DEF CondensedInv
<1> QED
  BY <1>5, <1>7

\* The condensed frames go on where the ones they replace would.
LEMMA IntegrateRefines ==
  ASSUME Inv, CondensedInv, IntegrateGCResponse
  PROVE  CallsNow' = CallsNow /\ CondensedInv'
<1>1. PICK p : p = Place(ring, gc_integration_epoch + 1)
  OBVIOUS
<1>2. /\ CallsFacts /\ CallsFacts'
      /\ gcpc = "done" /\ gcpc' = "idle" /\ frameCount' = frameCount
  BY IntegrateKeepsInv, CallsAreThere, CallsNext DEF IntegrateGCResponse
<1>3. /\ frameCount \in Nat /\ a.from \in Nat /\ p \in Places
      /\ Len(new_b) \in Nat /\ a.from <= Len(new_b)
  <2>1. p \in Places
    BY <1>1, <1>2, NextPlace
  <2>2. ValuesInv /\ CopyInv /\ frameCount \in Nat /\ a.from \in Nat
    BY InvFacts
  <2>3. Len(new_b) = req.abi /\ a.from <= req.abi
    BY <1>2, <2>2 DEF CopyInv
  <2>4. req.abi \in 0..FRAMES_MAX
    BY <2>2 DEF ValuesInv
  <2> QED
    BY <2>1, <2>2, <2>3, <2>4
<1>4. ASSUME NEW i \in 0..(frameCount - 1)
      PROVE  Entry(FrameAt(i)') = Entry(FrameAt(i))
  <2>1. FrameAt(i)' = IF i = frameCount - 1
                        THEN PointTo(Rederived(FrameAt(i), p), p, IpOffset(FrameAt(i)))
                        ELSE IF i >= a.from THEN FrameAt(i) ELSE new_b[i + 1]
    BY <1>1, IntegrateEffect
  <2>2. Entry(PointTo(Rederived(FrameAt(i), p), p, IpOffset(FrameAt(i)))) = Entry(FrameAt(i))
    BY <1>3, EntryKept
  <2>3. ~(i >= a.from) => Entry(new_b[i + 1]) = Entry(FrameAt(i))
    <3> SUFFICES ASSUME ~(i >= a.from) PROVE Entry(new_b[i + 1]) = Entry(FrameAt(i))
      OBVIOUS
    <3>1. i \in 0..(a.from - 1) /\ i < Len(new_b)
      BY <1>3
    <3> QED
      BY <1>2, <3>1 DEF CondensedInv
  <2> QED
    BY <2>1, <2>2, <2>3
<1>5. CallsNow' = CallsNow
  BY <1>2, <1>4, CallsAsBefore
<1>6. CondensedInv'
  BY <1>2 DEF CondensedInv
<1> QED
  BY <1>5, <1>6

\* A resize points all frames again; what the GC thread reads stays, as no frame
\* is being condensed.
LEMMA ResizeRefines ==
  ASSUME Inv, CondensedInv, Resize, ~ResizesWhileCondensing
  PROVE  CallsNow' = CallsNow /\ CondensedInv'
<1>1. PICK p : p = Place(ring + 1, gc_integration_epoch)
  OBVIOUS
<1>2. /\ CallsFacts /\ CallsFacts'
      /\ gcpc # "condensing" /\ frameCount' = frameCount /\ a' = a
      /\ UNCHANGED <<gcpc, req, new_b>>
      /\ ring < MaxRing
  BY ResizeKeepsInv, CallsAreThere, CallsNext DEF Resize
<1>3. /\ frameCount \in Nat /\ a.from \in Nat /\ a.from <= frameCount /\ p \in Places
  <2>1. /\ ring \in Nat /\ MaxRing \in Nat /\ gc_integration_epoch \in 0..MaxEpoch
        /\ frameCount \in Nat /\ a.from \in Nat /\ ArraysInv
    BY InvFacts
  <2>2. p \in Places
    BY <1>1, <1>2, <2>1 DEF Place, Places
  <2> QED
    BY <2>1, <2>2 DEF ArraysInv
<1>4. ASSUME NEW i \in 0..(frameCount - 1)
      PROVE  Entry(FrameAt(i)') = Entry(FrameAt(i))
  <2>1. FrameAt(i)' = PointTo(FrameAt(i), p, IpOffset(FrameAt(i)))
    BY <1>1, ResizeEffect
  <2> QED
    BY <1>3, <2>1, EntryKept
<1>5. CallsNow' = CallsNow
  BY <1>2, <1>4, CallsAsBefore
<1>6. CondensedInv'
  <2>1. \A i \in 0..(a'.from - 1) : Entry(FrameAt(i)') = Entry(FrameAt(i))
    BY <1>2, <1>3, <1>4
  <2> QED
    BY <1>2, <1>3, <2>1, CondensedStays
<1> QED
  BY <1>5, <1>6

\* A step of the GC thread is not seen by the interpreter.
LEMMA CallsUntouched ==
  ASSUME UNCHANGED <<gc_integration_epoch, tf>>
  PROVE  CallsNow' = CallsNow /\ a' = a /\ \A i : FrameAt(i)' = FrameAt(i)
<1>1. UNCHANGED <<frameCount, a, b, c, mem>>
  BY DEF tf
<1> QED
  BY <1>1 DEF CallsNow, FrameAt

\* What is condensed goes on where its source does.
LEMMA CondenseRefines ==
  ASSUME Inv, CondensedInv, Condense
  PROVE  CallsNow' = CallsNow /\ CondensedInv'
<1> DEFINE K == KeptTo(gc_integration_epoch)
           p == Place(req.ring, gc_integration_epoch + 1)
           x == PointTo(Source, p, IpOffset(Source))
           l == Len(new_b)
<1>1. /\ gcpc = "condensing" /\ Len(new_b) < req.abi /\ new_b' = Append(new_b, x)
      /\ UNCHANGED <<ring, gc_integration_epoch, tf, gcpc, req>>
  BY DEF Condense
<1>2. CallsNow' = CallsNow /\ a' = a /\ \A i : FrameAt(i)' = FrameAt(i)
  BY <1>1, CallsUntouched
<1>3. ValuesInv /\ gc_integration_epoch \in Int /\ a.from \in Nat
  BY InvFacts
<1>4. x \in K /\ Entry(x) = Entry(Source)
  <2>1. Source \in FrameTo(gc_integration_epoch) /\ p \in Places
    BY <1>1, SourceIsThere, NextPlace
  <2>2. IpOffset(Source) \in Offset \cup {Junk}
    BY <1>3, <2>1, OffsetsAreOffsets
  <2>3. x \in K /\ x.f = Source.f /\ IpOffset(x) = IpOffset(Source)
    BY <1>3, <2>1, <2>2, PointToKeeps
  <2> HIDE DEF x
  <2> QED
    BY <2>3 DEF Entry
<1>5. Source = SourceOf(l)
  BY DEF Source, SourceOf
<1>6. /\ l \in Nat /\ Len(new_b') = l + 1 /\ new_b'[l + 1] = x
      /\ \A i \in 1..l : new_b'[i] = new_b[i]
  <2>1. new_b \in Seq(K)
    BY <1>3 DEF ValuesInv
  <2> HIDE DEF x, K
  <2> QED
    BY <1>1, <1>4, <2>1, AppendProperties, LenProperties
<1> HIDE DEF x, l
<1>7. ASSUME NEW i \in 0..(a.from - 1)
      PROVE  /\ i < Len(new_b') => Entry(new_b'[i + 1]) = Entry(FrameAt(i))
             /\ Entry(SourceOf(i)) = Entry(FrameAt(i))
  <2>1. /\ i < l => Entry(new_b[i + 1]) = Entry(FrameAt(i))
        /\ Entry(SourceOf(i)) = Entry(FrameAt(i))
    BY <1>1 DEF CondensedInv, l
  <2>2. CASE i < l
    <3>1. i + 1 \in 1..l
      BY <1>3, <1>6, <2>2
    <3> QED
      BY <1>6, <2>1, <2>2, <3>1
  <2>3. CASE i = l
    BY <1>4, <1>5, <1>6, <2>1, <2>3
  <2>4. CASE i > l
    <3>1. ~(i < Len(new_b'))
      BY <1>3, <1>6, <2>4
    <3> QED
      BY <2>1, <3>1
  <2> QED
    BY <1>3, <1>6, <2>2, <2>3, <2>4
<1>8. \A i : SourceOf(i)' = SourceOf(i)
  BY <1>1 DEF SourceOf
<1>9. CondensedInv'
  BY <1>1, <1>2, <1>7, <1>8 DEF CondensedInv
<1> QED
  BY <1>2, <1>9

\* The response of the GC thread is not seen by the interpreter.
LEMMA RespondRefines ==
  ASSUME Inv, CondensedInv, Respond
  PROVE  CallsNow' = CallsNow /\ CondensedInv'
<1>1. /\ gcpc = "condensing" /\ gcpc' = "done"
      /\ UNCHANGED <<gc_integration_epoch, tf, req, new_b>>
  BY DEF Respond
<1>2. CallsNow' = CallsNow /\ a' = a /\ \A i : FrameAt(i)' = FrameAt(i)
  BY <1>1, CallsUntouched
<1> QED
  BY <1>1, <1>2 DEF CondensedInv

\* Nothing changes.
LEMMA StutterRefines ==
  ASSUME CondensedInv, UNCHANGED vars
  PROVE  CallsNow' = CallsNow /\ CondensedInv'
<1>1. UNCHANGED <<gc_integration_epoch, tf, gcpc, req, new_b>>
  BY DEF vars
<1>2. CallsNow' = CallsNow /\ a' = a /\ \A i : FrameAt(i)' = FrameAt(i)
  BY <1>1, CallsUntouched
<1>3. \A i : SourceOf(i)' = SourceOf(i)
  BY <1>1 DEF SourceOf
<1> QED
  BY <1>1, <1>2, <1>3 DEF CondensedInv

\* Every step is a step of the calls or none.
LEMMA NextRefines ==
  ASSUME ~ResizesWhileCondensing, Inv, CondensedInv, [Next]_vars
  PROVE  (Calls!Next \/ CallsNow' = CallsNow) /\ CondensedInv'
<1> DEFINE Goal == (Calls!Next \/ CallsNow' = CallsNow) /\ CondensedInv'
<1>1. ASSUME NEW f \in Function, Call(f) PROVE Goal
  BY <1>1, CallRefines DEF Calls!Next
<1>2. ASSUME NEW n \in Offset, Proceed(n) PROVE Goal
  BY <1>2, ProceedRefines DEF Calls!Next
<1>3. CASE Return
  BY <1>3, ReturnRefines DEF Calls!Next
<1>4. CASE RuntimeError
  BY <1>4, RuntimeErrorRefines DEF Calls!Next
<1>5. CASE CollectGarbage
  BY <1>5, CollectRefines
<1>6. CASE IntegrateGCResponse
  BY <1>6, IntegrateRefines
<1>7. CASE Resize
  BY <1>7, ResizeRefines
<1>8. CASE Condense
  BY <1>8, CondenseRefines
<1>9. CASE Respond
  BY <1>9, RespondRefines
<1>10. CASE UNCHANGED vars
  BY <1>10, StutterRefines
<1> QED
  BY <1>1, <1>2, <1>3, <1>4, <1>5, <1>6, <1>7, <1>8, <1>9, <1>10 DEF Next, MainNext

\* Collections and resizes are not seen by the functions called: if the ring is
\* not resized while the GC thread reads frames, every frame goes on where it was
\* left, and calls return in order (call(), OP_RETURN, freezing, condensing and
\* integrating the frames, and the resize hooks).
THEOREM CallsAreKept == ~ResizesWhileCondensing => (Spec => CallStackSpec)
<1> SUFFICES ASSUME ~ResizesWhileCondensing PROVE Spec => CallStackSpec
  OBVIOUS
<1>1. Init => Calls!Init /\ CondensedInv
  BY InitIsCallStack
<1>2. Inv /\ CondensedInv /\ [Next]_vars => CondensedInv'
  BY NextRefines
<1>3. Inv /\ CondensedInv /\ [Next]_vars => [Calls!Next]_CallsNow
  BY NextRefines
<1> QED
  BY <1>1, <1>2, <1>3, InductiveInvariant, PTL DEF Spec, CallStackSpec, Calls!Spec, CallsNow
=============================================================================
