----------------------------- MODULE TriStackProofs -----------------------------
(***************************************************************************)
(* Proofs about TriStack, for any values, any depth and any number of      *)
(* frames: the three arrays cover the stack, the current frame's slots     *)
(* stay in A, and what the GC thread condenses is complete and current     *)
(* when it is integrated.                                                  *)
(***************************************************************************)
EXTENDS TriStack, TLAPS, SequenceTheorems

(***************************************************************************)
(* The inductive invariant.                                                *)
(***************************************************************************)

\* Arrays r cover a stack of depth d: each index below d is in the array that
\* tristack_at() would look for it in.
Covers(r, d) ==
  /\ r.a \in Seq(Value) /\ r.b \in Seq(Value) /\ r.c \in Seq(Value)
  /\ r.abi \in Nat /\ r.bbi \in Nat /\ r.cbi = 0
  /\ Len(r.a) = d - r.abi
  /\ r.bbi < r.abi => r.abi <= r.bbi + Len(r.b)
  /\ Smaller(r.abi, r.bbi) <= Len(r.c)

\* The types, and the interpreter's arrays cover its stack.
ArraysInv ==
  /\ a \in Seq(Value) /\ b \in Seq(Value) /\ c \in Seq(Value) /\ new_b \in Seq(Value)
  /\ Len(a) \in Nat /\ Len(b) \in Nat /\ Len(c) \in Nat /\ Len(new_b) \in Nat
  /\ stackDepth \in 0..MaxDepth /\ slots \in 0..MaxDepth
  /\ abi \in 0..MaxDepth /\ bbi \in 0..MaxDepth /\ cbi = 0
  /\ req_abi \in 0..MaxDepth /\ req_bbi \in 0..MaxDepth /\ req_stackDepth \in 0..MaxDepth
  /\ abi + Len(a) = stackDepth
  /\ bbi < abi => abi <= bbi + Len(b)
  /\ abi <= Len(c) \/ bbi <= Len(c)
  /\ frames \in Seq(0..MaxDepth) /\ Len(frames) \in Nat
  /\ result \in Value \cup {None}
  /\ gcpc \in {"idle", "copy_c", "copy_b", "done"}

\* Every frame starts above the one that called it, and below the top.
FramesInv ==
  /\ \A i \in 1..(Len(frames) - 1) : frames[i] < frames[i + 1]
  /\ frames # <<>> => SlotsIndex < stackDepth

\* What the request's arrays hold, and how much of them has been condensed.  A
\* reset leaves the GC thread its arrays and the interpreter an A at index 0.
CopyInv ==
  /\ gcpc = "idle" => bbi = 0
  /\ gcpc # "idle" =>
       /\ req_abi = req_stackDepth
       /\ req_bbi <= req_abi
       /\ abi <= req_abi
       /\ req_bbi <= Len(c)
       /\ req_abi <= req_bbi + Len(b)
       /\ Len(new_b) <= req_abi
  /\ gcpc \in {"copy_b", "done"} => req_bbi <= Len(new_b)
  /\ gcpc = "done" => Len(new_b) = req_abi

Inv ==
  /\ ArraysInv
  /\ FramesInv
  /\ SlotsAreCurrent
  /\ CopyInv

\* What is condensed is what the request's arrays held, and still hold; they are
\* the interpreter's B and C, unless it has reset its stack.
CurrentInv ==
  gcpc # "idle" =>
    /\ bbi = req_bbi \/ abi = 0
    /\ \A i \in 1..Len(new_b) : new_b[i] = IF i <= req_bbi THEN c[i] ELSE b[i - req_bbi]
-----------------------------------------------------------------------------
(***************************************************************************)
(* Arrays.                                                                 *)
(***************************************************************************)

LEMMA CoversValue ==
  ASSUME NEW r, NEW d \in Nat, Covers(r, d), NEW i \in 0..(d - 1)
  PROVE  ValueAt(r, i) \in Value
<1>1. CASE i >= r.abi
  <2>1. i - r.abi + 1 \in 1..Len(r.a)
    BY <1>1 DEF Covers
  <2> QED
    BY <1>1, <2>1, ElementOfSeq DEF Covers, ValueAt
<1>2. CASE i < r.abi /\ i >= r.bbi
  <2>1. i - r.bbi + 1 \in 1..Len(r.b)
    BY <1>2, LenProperties, SMTT(20) DEF Covers
  <2> QED
    BY <1>2, <2>1, ElementOfSeq DEF Covers, ValueAt
<1>3. CASE i < r.abi /\ i < r.bbi
  <2>1. i - r.cbi + 1 \in 1..Len(r.c)
    BY <1>3, LenProperties DEF Covers, Smaller
  <2> QED
    BY <1>3, <2>1, ElementOfSeq DEF Covers, ValueAt
<1> QED
  BY <1>1, <1>2, <1>3 DEF Covers

LEMMA SliceValues ==
  ASSUME NEW r, NEW d \in Nat, Covers(r, d), NEW m \in 0..d
  PROVE  /\ Slice(r, m, d) \in Seq(Value)
         /\ Len(Slice(r, m, d)) = d - m
         /\ \A j \in 1..(d - m) : Slice(r, m, d)[j] = ValueAt(r, m + j - 1)
<1> DEFINE s == Slice(r, m, d)
<1>1. d - m \in Nat /\ \A j \in 1..(d - m) : m + j - 1 \in 0..(d - 1)
  OBVIOUS
<1>2. \A j \in 1..(d - m) : ValueAt(r, m + j - 1) \in Value
  BY <1>1, CoversValue
<1>3. s \in [1..(d - m) -> Value] /\ \A j \in 1..(d - m) : s[j] = ValueAt(r, m + j - 1)
  BY <1>2 DEF Slice
<1>4. s \in Seq(Value)
  BY <1>1, <1>3, SeqDef
<1> HIDE DEF s
<1>5. Len(s) = d - m
  BY <1>1, <1>3, <1>4, LenProperties
<1> QED
  BY <1>3, <1>4, <1>5 DEF s

\* Copying slots back into A changes no value of the stack.
LEMMA MutableCovers ==
  ASSUME NEW r, stackDepth \in Nat, Covers(r, stackDepth), NEW base \in 0..stackDepth
  PROVE  /\ Covers(MutableFrom(r, base), stackDepth)
         /\ MutableFrom(r, base).abi = Smaller(base, r.abi)
         /\ MutableFrom(r, base).b = r.b /\ MutableFrom(r, base).bbi = r.bbi
         /\ MutableFrom(r, base).c = r.c
         /\ \A i \in 0..(stackDepth - 1) : ValueAt(MutableFrom(r, base), i) = ValueAt(r, i)
<1>1. CASE ~(base < r.abi)
  BY <1>1 DEF MutableFrom, Smaller, Covers
<1>2. CASE base < r.abi
  <2> DEFINE s == Slice(r, base, stackDepth)
             m == MutableFrom(r, base)
  <2>1. /\ s \in Seq(Value)
        /\ Len(s) = stackDepth - base
        /\ \A j \in 1..(stackDepth - base) : s[j] = ValueAt(r, base + j - 1)
    BY SliceValues
  <2>2. /\ m.a = s /\ m.abi = base
        /\ m.b = r.b /\ m.bbi = r.bbi /\ m.c = r.c /\ m.cbi = r.cbi
    BY <1>2 DEF MutableFrom
  <2> HIDE DEF s, m
  <2>3. Covers(m, stackDepth)
    BY <1>2, <2>1, <2>2, SMTT(20) DEF Covers, Smaller
  <2>4. ASSUME NEW i \in 0..(stackDepth - 1)
        PROVE  ValueAt(m, i) = ValueAt(r, i)
    <3>1. CASE i >= base
      <4>1. i - base + 1 \in 1..(stackDepth - base) /\ base + (i - base + 1) - 1 = i
        BY <3>1
      <4> QED
        BY <2>1, <2>2, <3>1, <4>1, SMTT(20) DEF ValueAt
    <3>2. CASE i < base
      BY <1>2, <2>2, <3>2 DEF ValueAt, Covers
    <3> QED
      BY <3>1, <3>2
  <2> QED
    BY <1>2, <2>2, <2>3, <2>4 DEF m, Smaller
<1> QED
  BY <1>1, <1>2

LEMMA SmallerIs ==
  ASSUME NEW m \in Int, NEW n \in Int
  PROVE  /\ Smaller(m, n) \in {m, n}
         /\ Smaller(m, n) <= m /\ Smaller(m, n) <= n
  BY DEF Smaller

LEMMA PrefixIs ==
  ASSUME NEW S, NEW s \in Seq(S), NEW n \in 0..Len(s)
  PROVE  /\ SubSeq(s, 1, n) \in Seq(S)
         /\ Len(SubSeq(s, 1, n)) = n
         /\ \A i \in 1..n : SubSeq(s, 1, n)[i] = s[i]
<1>1. n \in Int /\ Len(s) \in Nat /\ \A i \in 1..n : s[i] \in S
  BY LenProperties, ElementOfSeq
<1> QED
  BY <1>1, SubSeqProperties

LEMMA AppendIs ==
  ASSUME NEW S, NEW s \in Seq(S), NEW e \in S
  PROVE  /\ Append(s, e) \in Seq(S)
         /\ Len(Append(s, e)) = Len(s) + 1
         /\ \A i \in 1..Len(s) : Append(s, e)[i] = s[i]
         /\ Append(s, e)[Len(s) + 1] = e
  OBVIOUS

LEMMA UpdateIs ==
  ASSUME NEW S, NEW s \in Seq(S), NEW e \in S, NEW i \in 1..Len(s)
  PROVE  /\ [s EXCEPT ![i] = e] \in Seq(S)
         /\ Len([s EXCEPT ![i] = e]) = Len(s)
  BY ExceptSeq

LEMMA CoversIs ==
  ASSUME NEW A \in Seq(Value), NEW B \in Seq(Value), NEW C \in Seq(Value),
         NEW i \in Nat, NEW j \in Nat, NEW d \in Nat,
         i + Len(A) = d,
         j < i => i <= j + Len(B),
         i <= Len(C) \/ j <= Len(C)
  PROVE  Covers([a |-> A, abi |-> i, b |-> B, bbi |-> j, c |-> C, cbi |-> 0], d)
<1>1. Len(A) \in Nat /\ Len(B) \in Nat /\ Len(C) \in Nat
  BY LenProperties
<1> QED
  BY <1>1 DEF Covers, Smaller

\* What the invariant says of the current frame.
FrameFacts ==
  /\ Len(frames) > 0
  /\ SlotsIndex \in 0..MaxDepth
  /\ abi <= SlotsIndex /\ SlotsIndex < stackDepth
  /\ SlotsIndex = abi + slots

LEMMA InvFacts ==
  ASSUME Inv
  PROVE  /\ ArraysInv /\ TypeOK /\ MaxDepth \in Nat \ {0}
         /\ Covers(Regions, stackDepth)
         /\ frames # <<>> => FrameFacts
<1>1. ArraysInv /\ MaxDepth \in Nat \ {0}
  BY TriStackAssumption DEF Inv
<1>2. TypeOK
  BY <1>1 DEF ArraysInv, TypeOK
<1>3. Covers(Regions, stackDepth)
  BY <1>1, CoversIs DEF ArraysInv, Regions
<1>4. ASSUME frames # <<>>
      PROVE  FrameFacts
  <2>1. frames \in Seq(0..MaxDepth) /\ Len(frames) > 0
    BY <1>1, <1>4, EmptySeq DEF ArraysInv
  <2>2. SlotsIndex \in 0..MaxDepth
    BY <1>1, <2>1, ElementOfSeq DEF ArraysInv, SlotsIndex
  <2> QED
    BY <1>1, <1>4, <2>1, <2>2 DEF Inv, FramesInv, SlotsAreCurrent, FrameFacts
<1> QED
  BY <1>1, <1>2, <1>3, <1>4

\* The value on top of the stack.
LEMMA TopIsValue ==
  ASSUME Inv, stackDepth > 0
  PROVE  Top \in Value
<1>1. stackDepth - 1 \in 0..(stackDepth - 1) /\ stackDepth \in Nat
  BY InvFacts, SMTT(20) DEF ArraysInv
<1>2. Covers(Regions, stackDepth)
  BY InvFacts
<1> QED
  BY <1>1, <1>2, CoversValue DEF Top, At

LEMMA InvInit ==
  ASSUME Init
  PROVE  Inv
<1>1. <<>> \in Seq(Value) /\ <<>> \in Seq(0..MaxDepth)
  OBVIOUS
<1>2. ArraysInv
  BY <1>1, TriStackAssumption DEF Init, ArraysInv
<1>3. FramesInv /\ SlotsAreCurrent /\ CopyInv
  BY <1>1 DEF Init, FramesInv, SlotsAreCurrent, CopyInv
<1> QED
  BY <1>2, <1>3 DEF Inv

LEMMA InvPush ==
  ASSUME Inv, NEW v \in Value, Push(v)
  PROVE  Inv'
<1>0. ArraysInv /\ MaxDepth \in Nat
  BY InvFacts
<1>1. a' \in Seq(Value) /\ Len(a') = Len(a) + 1
  BY <1>0, AppendIs DEF Push, ArraysInv
<1>2. UNCHANGED <<b, c, abi, bbi, cbi, frames, slots, result, req_abi, req_bbi, req_stackDepth, gcpc, new_b>>
  BY DEF Push, frame_vars, req_vars
<1>3. stackDepth' = stackDepth + 1 /\ stackDepth' \in 0..MaxDepth
  BY <1>0 DEF Push, ArraysInv
<1>4. ArraysInv'
  BY <1>0, <1>1, <1>2, <1>3 DEF ArraysInv
<1>5. FramesInv'
  BY <1>0, <1>2, <1>3, InvFacts DEF ArraysInv, Inv, FramesInv, SlotsIndex, FrameFacts
<1>6. SlotsAreCurrent'
  BY <1>2 DEF Inv, SlotsAreCurrent, SlotsIndex
<1>7. CopyInv'
  BY <1>2 DEF Inv, CopyInv
<1> QED
  BY <1>4, <1>5, <1>6, <1>7 DEF Inv

LEMMA DiscardNFacts ==
  ASSUME Inv, NEW n \in 0..MaxDepth, n <= stackDepth, DiscardN(n)
  PROVE  /\ a' \in Seq(Value) /\ Len(a') \in Nat
         /\ stackDepth' = stackDepth - n /\ stackDepth' \in 0..MaxDepth
         /\ abi' \in 0..MaxDepth /\ abi' <= abi
         /\ abi <= stackDepth' => abi' = abi
         /\ abi' + Len(a') = stackDepth'
         /\ bbi' < abi' => abi' <= bbi' + Len(b')
         /\ abi' <= Len(c') \/ bbi' <= Len(c')
         /\ UNCHANGED <<b, c, bbi, cbi>>
<1>0. ArraysInv /\ MaxDepth \in Nat
  BY InvFacts
<1>1. stackDepth' = stackDepth - n /\ UNCHANGED <<b, c, bbi, cbi>>
  BY DEF DiscardN
<1>2. /\ abi' \in 0..MaxDepth /\ abi' <= abi
      /\ abi <= stackDepth' => abi' = abi
      /\ stackDepth' - abi' \in 0..Len(a) /\ stackDepth' \in 0..MaxDepth
      /\ stackDepth' - abi' \in Nat
  BY <1>0, <1>1 DEF ArraysInv, DiscardN, Smaller
<1>3. a' \in Seq(Value) /\ Len(a') = stackDepth' - abi'
  <2>1. a \in Seq(Value) /\ stackDepth' - abi' \in 0..Len(a)
    BY <1>0, <1>2 DEF ArraysInv
  <2> QED
    BY <2>1, PrefixIs DEF DiscardN
<1>4. Len(a') \in Nat /\ abi' + Len(a') = stackDepth'
  <2> DEFINE l == Len(a')
             i == abi'
             d == stackDepth'
  <2>1. i \in 0..MaxDepth /\ d \in 0..MaxDepth /\ d - i \in Nat /\ l = d - i /\ MaxDepth \in Nat
    BY <1>0, <1>2, <1>3
  <2> HIDE DEF l, i, d
  <2>2. l \in Nat /\ i + l = d
    BY <2>1
  <2> QED
    BY <2>2 DEF l, i, d
<1>5. bbi' < abi' => abi' <= bbi' + Len(b')
  BY <1>0, <1>1, <1>2 DEF ArraysInv
<1>6. abi' <= Len(c') \/ bbi' <= Len(c')
  BY <1>0, <1>1, <1>2 DEF ArraysInv
<1> QED
  BY <1>1, <1>2, <1>3, <1>4, <1>5, <1>6

LEMMA InvDiscard ==
  ASSUME Inv, NEW n \in 1..MaxDepth, Discard(n)
  PROVE  Inv'
<1>0. ArraysInv /\ MaxDepth \in Nat /\ (frames # <<>> => FrameFacts)
  BY InvFacts
<1>1. n \in 0..MaxDepth /\ n <= stackDepth /\ DiscardN(n)
  BY <1>0 DEF Discard
<1>2. UNCHANGED <<frames, slots, result, req_abi, req_bbi, req_stackDepth, gcpc, new_b>>
  BY DEF Discard, frame_vars, req_vars
<1>3. ArraysInv'
  BY <1>0, <1>1, <1>2, DiscardNFacts DEF ArraysInv
<1>4. FramesInv'
  BY <1>1, <1>2, DiscardNFacts DEF Inv, FramesInv, SlotsIndex, Discard
<1>5. SlotsAreCurrent'
  <2>1. frames # <<>> => abi' = abi
    BY <1>0, <1>1, DiscardNFacts DEF Discard, FrameFacts, ArraysInv
  <2> QED
    BY <1>2, <2>1 DEF Inv, SlotsAreCurrent, SlotsIndex
<1>6. CopyInv'
  <2>1. abi' \in Int /\ abi' <= abi /\ UNCHANGED <<b, c, bbi>>
    BY <1>1, DiscardNFacts
  <2>2. abi \in Int /\ req_abi \in Int
    BY <1>0 DEF ArraysInv
  <2> QED
    BY <1>2, <2>1, <2>2 DEF Inv, CopyInv
<1> QED
  BY <1>3, <1>4, <1>5, <1>6 DEF Inv

LEMMA InvSetLocal ==
  ASSUME Inv, NEW k \in 0..MaxDepth, SetLocal(k)
  PROVE  Inv'
<1>0. ArraysInv /\ MaxDepth \in Nat /\ FrameFacts
  BY InvFacts DEF SetLocal
<1>1. a' \in Seq(Value) /\ Len(a') = Len(a)
  <2>1. a \in Seq(Value) /\ slots + k + 1 \in 1..Len(a) /\ stackDepth > 0
    BY <1>0 DEF SetLocal, ArraysInv, FrameFacts
  <2>2. Top \in Value
    BY <2>1, TopIsValue
  <2> QED
    BY <2>1, <2>2, UpdateIs DEF SetLocal
<1>2. UNCHANGED <<b, c, abi, bbi, cbi, stackDepth, frames, slots, result, req_abi, req_bbi, req_stackDepth, gcpc, new_b>>
  BY DEF SetLocal, frame_vars, req_vars
<1>3. ArraysInv'
  BY <1>0, <1>1, <1>2 DEF ArraysInv
<1>4. FramesInv' /\ SlotsAreCurrent' /\ CopyInv'
  BY <1>2 DEF Inv, FramesInv, SlotsAreCurrent, CopyInv, SlotsIndex
<1> QED
  BY <1>3, <1>4 DEF Inv

LEMMA InvSetUpvalue ==
  ASSUME Inv, NEW i \in 0..MaxDepth, SetUpvalue(i)
  PROVE  Inv'
<1>0. ArraysInv /\ MaxDepth \in Nat
  BY InvFacts
<1>1. /\ a' \in Seq(Value) /\ Len(a') = Len(a)
      /\ b' \in Seq(Value) /\ Len(b') = Len(b)
      /\ c' \in Seq(Value) /\ Len(c') = Len(c)
  <2>1. a \in Seq(Value) /\ b \in Seq(Value) /\ c \in Seq(Value)
    BY <1>0 DEF ArraysInv
  <2>2. Top \in Value
    BY <1>0, TopIsValue DEF ArraysInv, SetUpvalue
  <2>3. CASE i >= abi /\ a' = [a EXCEPT ![i - abi + 1] = Top] /\ UNCHANGED <<b, c>>
    <3>1. i - abi + 1 \in 1..Len(a)
      BY <1>0, <2>3 DEF ArraysInv, SetUpvalue
    <3> QED
      BY <2>1, <2>2, <2>3, <3>1, UpdateIs
  <2>4. CASE bbi <= i /\ i < abi /\ b' = [b EXCEPT ![i - bbi + 1] = Top] /\ UNCHANGED <<a, c>>
    <3>1. i - bbi + 1 \in 1..Len(b)
      BY <1>0, <2>4 DEF ArraysInv
    <3> QED
      BY <2>1, <2>2, <2>4, <3>1, UpdateIs
  <2>5. CASE i < bbi /\ i < abi /\ c' = [c EXCEPT ![i - cbi + 1] = Top] /\ UNCHANGED <<a, b>>
    <3>1. i - cbi + 1 \in 1..Len(c)
      BY <1>0, <2>5 DEF ArraysInv
    <3> QED
      BY <2>1, <2>2, <2>5, <3>1, UpdateIs
  <2> QED
    BY <2>3, <2>4, <2>5 DEF SetUpvalue
<1>2. UNCHANGED <<abi, bbi, cbi, stackDepth, frames, slots, result, req_abi, req_bbi, req_stackDepth, gcpc, new_b>>
  BY DEF SetUpvalue, frame_vars, req_vars
<1>3. ArraysInv'
  BY <1>0, <1>1, <1>2 DEF ArraysInv
<1>4. FramesInv' /\ SlotsAreCurrent'
  BY <1>2 DEF Inv, FramesInv, SlotsAreCurrent, SlotsIndex
<1>5. CopyInv'
  BY <1>1, <1>2 DEF Inv, CopyInv
<1> QED
  BY <1>3, <1>4, <1>5 DEF Inv

LEMMA InvCall ==
  ASSUME Inv, NEW n \in 0..MaxDepth, Call(n)
  PROVE  Inv'
<1>0. ArraysInv /\ MaxDepth \in Nat /\ FrameFacts
  BY InvFacts DEF Call
<1> DEFINE base == stackDepth - n - 1
<1>1. /\ base \in 0..MaxDepth /\ SlotsIndex < base /\ base < stackDepth
      /\ slots' = base - abi /\ slots' \in 0..MaxDepth
  BY <1>0 DEF Call, ArraysInv, FrameFacts
<1>2. frames' = Append(frames, base)
  BY DEF Call
<1>3. UNCHANGED <<a, b, c, abi, bbi, cbi, stackDepth, result, req_abi, req_bbi, req_stackDepth, gcpc, new_b>>
  BY DEF Call, stack_vars, req_vars
<1> HIDE DEF base
<1>4. /\ frames' \in Seq(0..MaxDepth) /\ Len(frames') = Len(frames) + 1
      /\ \A i \in 1..Len(frames) : frames'[i] = frames[i]
      /\ frames'[Len(frames) + 1] = base
  <2>1. frames \in Seq(0..MaxDepth)
    BY <1>0 DEF ArraysInv
  <2> QED
    BY <1>1, <1>2, <2>1, AppendIs
<1>5. ArraysInv'
  BY <1>0, <1>1, <1>3, <1>4 DEF ArraysInv
<1>6. SlotsIndex' = base
  BY <1>4 DEF SlotsIndex
<1>7. FramesInv'
  <2>1. ASSUME NEW i \in 1..(Len(frames') - 1)
        PROVE  frames'[i] < frames'[i + 1]
    <3>1. CASE i = Len(frames)
      <4>1. frames'[i] = frames[Len(frames)] /\ frames'[i + 1] = base
        BY <1>0, <1>4, <3>1 DEF ArraysInv, FrameFacts
      <4> QED
        BY <1>1, <4>1 DEF SlotsIndex
    <3>2. CASE i # Len(frames)
      <4> Len(frames) \in Nat /\ Len(frames') = Len(frames) + 1
        BY <1>0, <1>4 DEF ArraysInv
      <4>1. i \in 1..(Len(frames) - 1) /\ i \in 1..Len(frames) /\ i + 1 \in 1..Len(frames)
        BY <3>2
      <4> QED
        BY <1>4, <4>1 DEF Inv, FramesInv
    <3> QED
      BY <3>1, <3>2
  <2> QED
    BY <1>1, <1>3, <1>6, <2>1 DEF FramesInv
<1>8. SlotsAreCurrent'
  BY <1>0, <1>1, <1>3, <1>6 DEF SlotsAreCurrent, ArraysInv, FrameFacts
<1>9. CopyInv'
  BY <1>3 DEF Inv, CopyInv
<1> QED
  BY <1>5, <1>7, <1>8, <1>9 DEF Inv

LEMMA InvEnterScript ==
  ASSUME Inv, NEW v \in Value, EnterScript(v)
  PROVE  Inv'
<1>0. ArraysInv /\ MaxDepth \in Nat \ {0}
  BY InvFacts
<1>1. stackDepth = 0 /\ abi = 0 /\ Len(a) = 0
  BY <1>0 DEF ArraysInv, EnterScript
<1>2. a' \in Seq(Value) /\ Len(a') = 1
  BY <1>0, <1>1, AppendIs DEF EnterScript, ArraysInv
<1>3. frames' = <<0>> /\ frames' \in Seq(0..MaxDepth) /\ Len(frames') = 1 /\ SlotsIndex' = 0
  BY <1>0 DEF EnterScript, SlotsIndex
<1>4. stackDepth' = 1 /\ slots' = 0
  BY <1>1 DEF EnterScript
<1>5. UNCHANGED <<b, c, abi, bbi, cbi, result, req_abi, req_bbi, req_stackDepth, gcpc, new_b>>
  BY DEF EnterScript, req_vars
<1>6. ArraysInv'
  BY <1>0, <1>1, <1>2, <1>3, <1>4, <1>5 DEF ArraysInv
<1>7. FramesInv'
  BY <1>3, <1>4 DEF FramesInv
<1>8. SlotsAreCurrent'
  BY <1>1, <1>3, <1>4, <1>5 DEF SlotsAreCurrent
<1>9. CopyInv'
  BY <1>5 DEF Inv, CopyInv
<1> QED
  BY <1>6, <1>7, <1>8, <1>9 DEF Inv

LEMMA InvBeginReturn ==
  ASSUME Inv, BeginReturn
  PROVE  Inv'
<1>0. ArraysInv /\ MaxDepth \in Nat \ {0} /\ FrameFacts
  BY InvFacts DEF BeginReturn
<1>1. 1 \in 0..MaxDepth /\ 1 <= stackDepth /\ DiscardN(1) /\ SlotsIndex < stackDepth - 1
  BY <1>0 DEF BeginReturn, ArraysInv, FrameFacts
<1>2. UNCHANGED <<frames, slots, req_abi, req_bbi, req_stackDepth, gcpc, new_b>>
  BY DEF BeginReturn, req_vars
<1>3. result' \in Value \cup {None}
  <2>1. stackDepth > 0
    BY <1>0, <1>1 DEF ArraysInv
  <2> QED
    BY <2>1, TopIsValue DEF BeginReturn
<1>4. ArraysInv'
  BY <1>0, <1>1, <1>2, <1>3, DiscardNFacts DEF ArraysInv
<1>5. FramesInv'
  BY <1>1, <1>2, DiscardNFacts DEF Inv, FramesInv, SlotsIndex
<1>6. SlotsAreCurrent'
  <2>1. abi' = abi
    BY <1>0, <1>1, DiscardNFacts DEF FrameFacts, ArraysInv
  <2> QED
    BY <1>2, <2>1 DEF Inv, SlotsAreCurrent, SlotsIndex
<1>7. CopyInv'
  <2>1. abi' \in Int /\ abi' <= abi /\ UNCHANGED <<b, c, bbi>>
    BY <1>0, <1>1, DiscardNFacts
  <2>2. abi \in Int /\ req_abi \in Int
    BY <1>0 DEF ArraysInv
  <2> QED
    BY <1>2, <2>1, <2>2 DEF Inv, CopyInv
<1> QED
  BY <1>4, <1>5, <1>6, <1>7 DEF Inv

LEMMA InvReturnFromScript ==
  ASSUME Inv, ReturnFromScript
  PROVE  Inv'
<1>0. ArraysInv /\ MaxDepth \in Nat \ {0} /\ FrameFacts
  BY InvFacts DEF ReturnFromScript
<1>1. 1 \in 0..MaxDepth /\ 1 <= stackDepth /\ DiscardN(1)
  BY <1>0 DEF ReturnFromScript, ArraysInv, FrameFacts
<1>2. UNCHANGED <<slots, req_abi, req_bbi, req_stackDepth, gcpc, new_b>>
  BY DEF ReturnFromScript, req_vars
<1>3. /\ frames' = <<>> /\ frames' \in Seq(0..MaxDepth) /\ Len(frames') = 0
      /\ result' \in Value \cup {None}
  BY DEF ReturnFromScript
<1>4. ArraysInv'
  BY <1>0, <1>1, <1>2, <1>3, DiscardNFacts DEF ArraysInv
<1>5. FramesInv' /\ SlotsAreCurrent'
  BY <1>3 DEF FramesInv, SlotsAreCurrent
<1>6. CopyInv'
  <2>1. abi' \in Int /\ abi' <= abi /\ UNCHANGED <<b, c, bbi>>
    BY <1>0, <1>1, DiscardNFacts
  <2>2. abi \in Int /\ req_abi \in Int
    BY <1>0 DEF ArraysInv
  <2> QED
    BY <1>2, <2>1, <2>2 DEF Inv, CopyInv
<1> QED
  BY <1>4, <1>5, <1>6 DEF Inv

LEMMA InvReset ==
  ASSUME Inv, Reset
  PROVE  Inv'
<1>0. ArraysInv /\ MaxDepth \in Nat \ {0}
  BY InvFacts
<1>1. /\ a' = <<>> /\ a' \in Seq(Value) /\ Len(a') = 0
      /\ abi' = 0 /\ bbi' = 0 /\ cbi' = 0 /\ stackDepth' = 0
      /\ frames' = <<>> /\ frames' \in Seq(0..MaxDepth) /\ Len(frames') = 0
  BY DEF Reset
<1>2. UNCHANGED <<b, c, slots, result, req_abi, req_bbi, req_stackDepth, gcpc, new_b>>
  BY DEF Reset, req_vars
<1>3. ArraysInv'
  BY <1>0, <1>1, <1>2 DEF ArraysInv
<1>4. FramesInv' /\ SlotsAreCurrent'
  BY <1>1 DEF FramesInv, SlotsAreCurrent
<1>5. CopyInv'
  BY <1>0, <1>1, <1>2 DEF Inv, CopyInv, ArraysInv
<1> QED
  BY <1>3, <1>4, <1>5 DEF Inv

\* What triframes_ensureCurrentFrameIsMutable() leaves is again six variables.
LEMMA MutableIsRecord ==
  ASSUME NEW base, NEW X
  PROVE  LET m == MutableFrom(Regions, base)
         IN [m EXCEPT !.a = X] = [a |-> X, abi |-> m.abi, b |-> m.b, bbi |-> m.bbi,
                                  c |-> m.c, cbi |-> m.cbi]
<1>1. CASE base < Regions.abi
  BY <1>1 DEF MutableFrom
<1>2. CASE ~(base < Regions.abi)
  BY <1>2 DEF MutableFrom, Regions
<1> QED
  BY <1>1, <1>2

\* What a return does, base being the caller's slot 0 and r the arrays once
\* the caller's slots are in A.
ReturnEffect(base, r) ==
  /\ base \in 0..MaxDepth /\ base < SlotsIndex
  /\ base = frames[Len(frames) - 1]
  /\ Covers(r, stackDepth)
  /\ r.abi = Smaller(base, abi) /\ r.b = b /\ r.bbi = bbi /\ r.c = c
  /\ \A i \in 0..(stackDepth - 1) : ValueAt(r, i) = At(i)
  /\ a' = Append(SubSeq(r.a, 1, SlotsIndex - r.abi), result)
  /\ abi' = r.abi /\ cbi' = 0 /\ slots' = base - r.abi
  /\ stackDepth' = SlotsIndex + 1
  /\ frames' = SubSeq(frames, 1, Len(frames) - 1)
  /\ result' = None
  /\ UNCHANGED <<b, bbi, c, req_abi, req_bbi, req_stackDepth, gcpc, new_b>>

LEMMA ReturnFacts ==
  ASSUME Inv, Return
  PROVE  \E base, r : ReturnEffect(base, r)
<1> DEFINE base == frames[Len(frames) - 1]
           r == MutableFrom(Regions, base)
<1>0. ArraysInv /\ MaxDepth \in Nat \ {0} /\ Covers(Regions, stackDepth) /\ FrameFacts
  BY InvFacts DEF Return
<1>1. Len(frames) - 1 \in 1..Len(frames) /\ Len(frames) - 1 \in 1..(Len(frames) - 1)
  <2>1. Len(frames) \in Nat /\ Len(frames) > 1
    BY <1>0 DEF Return, ArraysInv
  <2> QED
    BY <2>1
<1>2. base \in 0..MaxDepth
  BY <1>0, <1>1, ElementOfSeq DEF ArraysInv
<1>3. base < SlotsIndex
  <2>1. frames[Len(frames) - 1] < frames[(Len(frames) - 1) + 1] /\ (Len(frames) - 1) + 1 = Len(frames)
    BY <1>0, <1>1 DEF Inv, FramesInv, ArraysInv
  <2> QED
    BY <2>1 DEF SlotsIndex
<1>4. base \in 0..stackDepth /\ stackDepth \in Nat
  BY <1>0, <1>2, <1>3 DEF ArraysInv, FrameFacts
<1>5. /\ Covers(r, stackDepth)
      /\ r.abi = Smaller(base, Regions.abi) /\ r.b = Regions.b /\ r.bbi = Regions.bbi
      /\ r.c = Regions.c
      /\ \A i \in 0..(stackDepth - 1) : ValueAt(r, i) = ValueAt(Regions, i)
  BY <1>0, <1>4, MutableCovers
<1> HIDE DEF r
<1>6. r.abi = Smaller(base, abi) /\ r.b = b /\ r.bbi = bbi /\ r.c = c /\ r.cbi = 0
  BY <1>5 DEF Regions, Covers
<1> DEFINE X == Append(SubSeq(r.a, 1, SlotsIndex - r.abi), result)
<1>7. Assign([r EXCEPT !.a = X])
  BY DEF Return, r
<1>8. [r EXCEPT !.a = X] = [a |-> X, abi |-> r.abi, b |-> r.b, bbi |-> r.bbi, c |-> r.c, cbi |-> r.cbi]
  BY MutableIsRecord DEF r
<1>9. a' = X /\ abi' = r.abi /\ b' = b /\ bbi' = bbi /\ c' = c /\ cbi' = 0
  BY <1>6, <1>7, <1>8 DEF Assign
<1>10. /\ slots' = base - r.abi /\ stackDepth' = SlotsIndex + 1
       /\ frames' = SubSeq(frames, 1, Len(frames) - 1) /\ result' = None
       /\ UNCHANGED <<req_abi, req_bbi, req_stackDepth, gcpc, new_b>>
  BY DEF Return, req_vars, r
<1>11. ReturnEffect(base, r)
  BY <1>2, <1>3, <1>5, <1>6, <1>9, <1>10 DEF At, ReturnEffect
<1> QED
  BY <1>11

LEMMA InvReturn ==
  ASSUME Inv, Return
  PROVE  Inv'
<1>0. ArraysInv /\ MaxDepth \in Nat \ {0} /\ FrameFacts
  BY InvFacts DEF Return
<1>1. PICK base, r : ReturnEffect(base, r)
  BY ReturnFacts
<1>2. /\ abi' = Smaller(base, abi) /\ base \in 0..MaxDepth /\ base < SlotsIndex
      /\ stackDepth' = SlotsIndex + 1 /\ slots' = base - abi'
  BY <1>1 DEF ReturnEffect
<1>3. /\ MaxDepth \in Nat /\ abi \in 0..MaxDepth /\ stackDepth \in 0..MaxDepth
      /\ SlotsIndex \in 0..MaxDepth /\ abi <= SlotsIndex /\ SlotsIndex < stackDepth
  BY <1>0 DEF ArraysInv, FrameFacts
<1>4. /\ abi' \in 0..MaxDepth /\ abi' <= abi /\ abi' <= base /\ slots' \in 0..MaxDepth
      /\ stackDepth' \in 0..MaxDepth /\ SlotsIndex - abi' \in 0..(stackDepth - abi')
  <2>1. abi' \in 0..MaxDepth /\ abi' <= abi /\ abi' <= base
    BY <1>2, <1>3, SmallerIs
  <2> QED
    BY <1>2, <1>3, <2>1
<1>5. a' \in Seq(Value) /\ Len(a') \in Nat /\ abi' + Len(a') = stackDepth'
  <2>1. r.a \in Seq(Value) /\ SlotsIndex - abi' \in 0..Len(r.a) /\ SlotsIndex - abi' \in Nat
    BY <1>0, <1>1, <1>4 DEF Covers, ArraysInv, ReturnEffect
  <2> DEFINE p == SubSeq(r.a, 1, SlotsIndex - abi')
  <2>2. p \in Seq(Value) /\ Len(p) = SlotsIndex - abi'
    BY <2>1, PrefixIs
  <2>3. result \in Value /\ a' = Append(p, result)
    BY <1>0, <1>1 DEF Return, ArraysInv, ReturnEffect
  <2> HIDE DEF p
  <2>4. a' \in Seq(Value) /\ Len(a') = SlotsIndex - abi' + 1
    BY <2>2, <2>3, AppendIs
  <2> DEFINE l == Len(a')
             i == abi'
             d == stackDepth'
             s == SlotsIndex
  <2>5. l = s - i + 1 /\ i \in Int /\ s - i \in Nat /\ s \in Int /\ d = s + 1
    BY <1>2, <1>3, <1>4, <2>1, <2>4
  <2> HIDE DEF l, i, d, s
  <2>6. l \in Nat /\ i + l = d
    BY <2>5
  <2> QED
    BY <2>4, <2>6 DEF l, i, d
<1>6. bbi' < abi' => abi' <= bbi' + Len(b')
  <2>1. bbi' = bbi /\ b' = b
    BY <1>1 DEF ReturnEffect
  <2> QED
    BY <1>0, <1>4, <2>1 DEF ArraysInv
<1>7. abi' <= Len(c') \/ bbi' <= Len(c')
  BY <1>0, <1>1, <1>4, SMTT(20) DEF ArraysInv, ReturnEffect
<1>8. /\ frames' \in Seq(0..MaxDepth) /\ Len(frames') = Len(frames) - 1 /\ Len(frames') \in Nat
      /\ \A i \in 1..Len(frames') : frames'[i] = frames[i]
  <2>1. frames \in Seq(0..MaxDepth) /\ Len(frames) \in Nat /\ Len(frames) > 1
    BY <1>0 DEF ArraysInv, Return
  <2> DEFINE m == Len(frames) - 1
  <2>2. m \in 0..Len(frames) /\ m \in Nat /\ frames' = SubSeq(frames, 1, m)
    BY <1>1, <2>1 DEF ReturnEffect
  <2> HIDE DEF m
  <2>3. frames' \in Seq(0..MaxDepth) /\ Len(frames') = m /\ \A i \in 1..m : frames'[i] = frames[i]
    BY <2>1, <2>2, PrefixIs
  <2> QED
    BY <2>2, <2>3 DEF m
<1>9. ArraysInv'
  BY <1>0, <1>1, <1>4, <1>5, <1>6, <1>7, <1>8 DEF ArraysInv, ReturnEffect
<1>10. SlotsIndex' = base
  <2>1. Len(frames) \in Nat /\ Len(frames) > 1 /\ Len(frames') = Len(frames) - 1
    BY <1>0, <1>8 DEF ArraysInv, Return
  <2>2. Len(frames') \in 1..Len(frames')
    BY <2>1
  <2> QED
    BY <1>1, <1>8, <2>1, <2>2 DEF SlotsIndex, ReturnEffect
<1>11. FramesInv'
  <2>1. ASSUME NEW i \in 1..(Len(frames') - 1)
        PROVE  frames'[i] < frames'[i + 1]
    <3> Len(frames) \in Nat /\ Len(frames') = Len(frames) - 1
      BY <1>0, <1>8 DEF ArraysInv
    <3>1. i \in 1..(Len(frames) - 1) /\ i \in 1..Len(frames') /\ i + 1 \in 1..Len(frames')
      OBVIOUS
    <3> QED
      BY <1>8, <3>1 DEF Inv, FramesInv
  <2>2. SlotsIndex' < stackDepth'
    BY <1>2, <1>3, <1>10
  <2> QED
    BY <2>1, <2>2 DEF FramesInv
<1>12. SlotsAreCurrent'
  BY <1>2, <1>4, <1>10 DEF SlotsAreCurrent
<1>13. CopyInv'
  <2>1. abi \in Int /\ req_abi \in Int /\ abi' \in Int /\ abi' <= abi
    BY <1>0, <1>4 DEF ArraysInv
  <2> QED
    BY <1>1, <2>1 DEF Inv, CopyInv, ReturnEffect
<1> QED
  BY <1>9, <1>11, <1>12, <1>13 DEF Inv

LEMMA InvCollect ==
  ASSUME Inv, CollectGarbage
  PROVE  /\ Inv'
         /\ \A i \in 0..(stackDepth - 1) : At(i)' = At(i)
<1>0. ArraysInv /\ MaxDepth \in Nat \ {0} /\ (frames # <<>> => FrameFacts)
  BY InvFacts
<1>1. gcpc = "idle" /\ bbi = 0
  BY DEF CollectGarbage, Inv, CopyInv
<1> DEFINE C == SubSeq(b, 1, abi - bbi)
           frozen == [a |-> <<>>, abi |-> stackDepth, b |-> a, bbi |-> abi, c |-> C, cbi |-> bbi]
<1>2. abi - bbi \in 0..Len(b) /\ b \in Seq(Value) /\ abi - bbi = abi
  BY <1>0, <1>1 DEF ArraysInv
<1>3. /\ C \in Seq(Value) /\ Len(C) = abi
      /\ \A i \in 1..abi : C[i] = b[i]
  BY <1>2, PrefixIs
<1>4. frozen = [a |-> <<>>, abi |-> stackDepth, b |-> a, bbi |-> abi, c |-> C, cbi |-> 0]
  BY <1>1
<1> HIDE DEF C
<1>5. Covers(frozen, stackDepth)
  <2>1. <<>> \in Seq(Value) /\ Len(<<>>) = 0
    OBVIOUS
  <2>2. /\ a \in Seq(Value) /\ stackDepth \in Nat /\ abi \in Nat
        /\ stackDepth + 0 = stackDepth
        /\ abi < stackDepth => stackDepth <= abi + Len(a)
        /\ stackDepth <= Len(C) \/ abi <= Len(C)
    BY <1>0, <1>3 DEF ArraysInv
  <2> HIDE DEF frozen
  <2> QED
    BY <1>3, <1>4, <2>1, <2>2, CoversIs
<1>6. ASSUME NEW i \in 0..(stackDepth - 1)
      PROVE  ValueAt(frozen, i) = At(i)
  <2>1. i \in Nat /\ i < stackDepth
    BY <1>0 DEF ArraysInv
  <2>2. CASE i >= abi
    BY <1>0, <1>1, <2>1, <2>2 DEF ArraysInv, ValueAt, At, Regions
  <2>3. CASE i < abi
    <3>1. ValueAt(frozen, i) = C[i + 1]
      BY <1>0, <1>1, <2>1, <2>3 DEF ArraysInv, ValueAt
    <3>2. At(i) = b[i + 1]
      BY <1>0, <1>1, <2>1, <2>3 DEF ArraysInv, ValueAt, At, Regions
    <3>3. i + 1 \in 1..abi
      BY <1>0, <2>1, <2>3 DEF ArraysInv
    <3> QED
      BY <1>3, <3>1, <3>2, <3>3
  <2> QED
    BY <1>0, <2>1, <2>2, <2>3 DEF ArraysInv
<1>7. /\ req_abi' = stackDepth /\ req_bbi' = abi /\ req_stackDepth' = stackDepth
      /\ gcpc' = "copy_c" /\ new_b' = <<>>
      /\ UNCHANGED <<stackDepth, frames, result>>
  BY DEF CollectGarbage
<1>8. /\ Covers(Regions', stackDepth)
      /\ b' = a /\ bbi' = abi /\ c' = C
      /\ abi' \in 0..stackDepth
      /\ frames # <<>> => abi' = SlotsIndex /\ slots' = 0
      /\ frames = <<>> => slots' = slots
      /\ \A i \in 0..(stackDepth - 1) : ValueAt(Regions', i) = ValueAt(frozen, i)
  <2>1. CASE frames # <<>> /\ Assign(MutableFrom(frozen, SlotsIndex)) /\ slots' = SlotsIndex - abi'
    <3>0. SlotsIndex \in 0..stackDepth /\ stackDepth \in Nat /\ SlotsIndex < stackDepth
      BY <1>0, <2>1 DEF ArraysInv, FrameFacts
    <3> DEFINE m == MutableFrom(frozen, SlotsIndex)
    <3>1. /\ Covers(m, stackDepth)
          /\ m.abi = Smaller(SlotsIndex, frozen.abi)
          /\ m.b = frozen.b /\ m.bbi = frozen.bbi /\ m.c = frozen.c
          /\ \A i \in 0..(stackDepth - 1) : ValueAt(m, i) = ValueAt(frozen, i)
      BY <1>5, <3>0, MutableCovers
    <3>2. m.abi = SlotsIndex
      BY <3>0, <3>1 DEF Smaller
    <3>3. a' = m.a /\ abi' = m.abi /\ b' = m.b /\ bbi' = m.bbi /\ c' = m.c /\ cbi' = m.cbi
      BY <2>1 DEF Assign
    <3>4. Covers(Regions', stackDepth)
      BY <3>1, <3>3 DEF Covers, Regions
    <3>5. \A i \in 0..(stackDepth - 1) : ValueAt(Regions', i) = ValueAt(frozen, i)
      BY <3>1, <3>3 DEF ValueAt, Regions
    <3> HIDE DEF m
    <3> QED
      BY <2>1, <3>0, <3>1, <3>2, <3>3, <3>4, <3>5
  <2>2. CASE frames = <<>> /\ Assign(frozen) /\ UNCHANGED slots
    <3>1. Regions' = frozen
      BY <2>2 DEF Assign, Regions
    <3> QED
      BY <1>0, <1>5, <2>2, <3>1 DEF Assign, ArraysInv
  <2> QED
    BY <1>1, <2>1, <2>2 DEF CollectGarbage, C
<1>9. /\ a' \in Seq(Value) /\ Len(a') = stackDepth - abi' /\ cbi' = 0
      /\ abi' \in 0..MaxDepth /\ slots' \in 0..MaxDepth
  <2>1. a' \in Seq(Value) /\ Len(a') = stackDepth - abi' /\ cbi' = 0
    BY <1>8 DEF Covers, Regions
  <2>2. /\ stackDepth \in Nat /\ stackDepth <= MaxDepth /\ MaxDepth \in Nat
        /\ slots \in 0..MaxDepth
    BY <1>0 DEF ArraysInv
  <2>3. abi' \in 0..MaxDepth
    <3>1. abi' \in 0..stackDepth
      BY <1>8
    <3> QED
      BY <2>2, <3>1
  <2>4. slots' = 0 \/ slots' = slots
    BY <1>8
  <2>5. slots' \in 0..MaxDepth
    BY <2>2, <2>4
  <2> QED
    BY <2>1, <2>3, <2>5
<1>10. ArraysInv'
  <2>1. /\ Len(a') \in Nat /\ abi' + Len(a') = stackDepth'
        /\ bbi' < abi' => abi' <= bbi' + Len(b')
        /\ bbi' <= Len(c')
    <3> DEFINE l == Len(a')
               i == abi'
    <3>1. l = stackDepth - i /\ i \in 0..stackDepth /\ stackDepth \in Nat
      BY <1>0, <1>8, <1>9 DEF ArraysInv
    <3> HIDE DEF l, i
    <3>2. l \in Nat /\ i + l = stackDepth
      BY <3>1
    <3>3. Len(a') \in Nat /\ abi' + Len(a') = stackDepth'
      BY <1>7, <3>2 DEF l, i
    <3>4. bbi' = abi /\ b' = a /\ c' = C /\ abi' <= stackDepth
      BY <1>0, <1>8 DEF ArraysInv
    <3> QED
      BY <1>0, <1>3, <3>3, <3>4 DEF ArraysInv
  <2>2. b' \in Seq(Value) /\ Len(b') \in Nat /\ c' \in Seq(Value) /\ Len(c') \in Nat
    BY <1>0, <1>3, <1>8 DEF ArraysInv
  <2>3. new_b' \in Seq(Value) /\ Len(new_b') \in Nat
    BY <1>7
  <2> QED
    BY <1>0, <1>7, <1>8, <1>9, <2>1, <2>2, <2>3 DEF ArraysInv
<1>11. FramesInv'
  BY <1>7 DEF Inv, FramesInv, SlotsIndex
<1>12. SlotsAreCurrent'
  BY <1>0, <1>7, <1>8 DEF SlotsAreCurrent, SlotsIndex, FrameFacts
<1>13. CopyInv'
  <2>1. /\ stackDepth <= abi + Len(a) /\ abi <= stackDepth /\ abi' <= stackDepth
        /\ Len(new_b') = 0 /\ 0 <= stackDepth
    BY <1>0, <1>7, <1>8 DEF ArraysInv
  <2> QED
    BY <1>0, <1>3, <1>7, <1>8, <2>1 DEF CopyInv, ArraysInv
<1>14. Inv'
  BY <1>10, <1>11, <1>12, <1>13 DEF Inv
<1>15. ASSUME NEW i \in 0..(stackDepth - 1)
       PROVE  At(i)' = At(i)
  BY <1>6, <1>8 DEF At
<1> QED
  BY <1>14, <1>15

LEMMA InvIntegrate ==
  ASSUME Inv, IntegrateGCResponse
  PROVE  /\ Inv'
         /\ UNCHANGED <<a, abi, slots>>
         /\ b' = SubSeq(new_b, 1, abi) /\ bbi' = 0
<1>0. ArraysInv /\ MaxDepth \in Nat \ {0} /\ FrameFacts
  BY InvFacts DEF IntegrateGCResponse
<1> DEFINE B == SubSeq(new_b, 1, abi)
<1>1. ~(SlotsIndex < abi)
  BY <1>0 DEF FrameFacts, ArraysInv
<1>2. a' = a /\ abi' = abi /\ b' = B /\ bbi' = 0 /\ c' = <<>> /\ cbi' = 0
  BY <1>1 DEF IntegrateGCResponse, MutableFrom, Assign
<1>3. /\ slots' = slots /\ gcpc' = "idle" /\ new_b' = <<>>
      /\ req_abi' = 0 /\ req_bbi' = 0 /\ req_stackDepth' = 0
      /\ UNCHANGED <<stackDepth, frames, result>>
  BY <1>0, <1>2 DEF IntegrateGCResponse, FrameFacts, ArraysInv
<1>4. B \in Seq(Value) /\ Len(B) = abi
  <2>1. new_b \in Seq(Value) /\ abi \in 0..Len(new_b)
    BY <1>0 DEF ArraysInv, Inv, CopyInv, IntegrateGCResponse
  <2> QED
    BY <2>1, PrefixIs
<1> HIDE DEF B
<1>5. /\ <<>> \in Seq(Value) /\ Len(<<>>) = 0
  OBVIOUS
<1>6. ArraysInv'
  BY <1>0, <1>2, <1>3, <1>4, <1>5 DEF ArraysInv
<1>7. FramesInv' /\ SlotsAreCurrent'
  BY <1>2, <1>3 DEF Inv, FramesInv, SlotsAreCurrent, SlotsIndex
<1>8. CopyInv'
  BY <1>2, <1>3 DEF CopyInv
<1> QED
  BY <1>2, <1>3, <1>6, <1>7, <1>8 DEF Inv, B

LEMMA InvCopyC ==
  ASSUME Inv, CopyC
  PROVE  Inv'
<1>0. ArraysInv /\ MaxDepth \in Nat \ {0}
  BY InvFacts
<1>1. UNCHANGED <<a, b, c, abi, bbi, cbi, stackDepth, frames, slots, result, req_abi, req_bbi, req_stackDepth>>
  BY DEF CopyC, stack_vars, frame_vars, req_vars
<1>2. /\ gcpc = "copy_c" /\ Smaller(req_stackDepth, req_bbi) = req_bbi
      /\ req_bbi <= Len(c) /\ req_bbi <= req_abi
  BY <1>0 DEF CopyC, Inv, CopyInv, ArraysInv, Smaller
<1>3. FramesInv' /\ SlotsAreCurrent'
  BY <1>1 DEF Inv, FramesInv, SlotsAreCurrent, SlotsIndex
<1>4. CASE Len(new_b) < req_bbi /\ new_b' = Append(new_b, c[Len(new_b) + 1]) /\ gcpc' = gcpc
  <2>1. Len(new_b) + 1 \in 1..Len(c) /\ c \in Seq(Value) /\ new_b \in Seq(Value) /\ Len(new_b) \in Nat
    BY <1>0, <1>2, <1>4 DEF ArraysInv
  <2>2. c[Len(new_b) + 1] \in Value
    BY <2>1, ElementOfSeq
  <2>3. new_b' \in Seq(Value) /\ Len(new_b') = Len(new_b) + 1
    BY <1>4, <2>1, <2>2, AppendIs
  <2>4. ArraysInv'
    BY <1>0, <1>1, <1>4, <2>1, <2>3 DEF ArraysInv
  <2>5. CopyInv'
    BY <1>0, <1>1, <1>2, <1>4, <2>1, <2>3 DEF CopyInv, Inv, ArraysInv
  <2> QED
    BY <1>3, <2>4, <2>5 DEF Inv
<1>5. CASE ~(Len(new_b) < req_bbi) /\ gcpc' = "copy_b" /\ new_b' = new_b
  <2>1. ArraysInv'
    BY <1>0, <1>1, <1>5 DEF ArraysInv
  <2>2. CopyInv'
    BY <1>0, <1>1, <1>2, <1>5 DEF CopyInv, Inv, ArraysInv
  <2> QED
    BY <1>3, <2>1, <2>2 DEF Inv
<1> QED
  BY <1>2, <1>4, <1>5 DEF CopyC

LEMMA InvCopyB ==
  ASSUME Inv, CopyB
  PROVE  Inv'
<1>0. ArraysInv /\ MaxDepth \in Nat \ {0}
  BY InvFacts
<1>1. UNCHANGED <<a, b, c, abi, bbi, cbi, stackDepth, frames, slots, result, req_abi, req_bbi, req_stackDepth>>
  BY DEF CopyB, stack_vars, frame_vars, req_vars
<1>2. /\ gcpc = "copy_b" /\ Smaller(req_stackDepth, req_abi) = req_abi
      /\ req_bbi <= Len(new_b) /\ Len(new_b) <= req_abi /\ req_abi <= req_bbi + Len(b)
  BY <1>0 DEF CopyB, Inv, CopyInv, ArraysInv, Smaller
<1>3. FramesInv' /\ SlotsAreCurrent'
  BY <1>1 DEF Inv, FramesInv, SlotsAreCurrent, SlotsIndex
<1>4. CASE Len(new_b) < req_abi /\ new_b' = Append(new_b, b[Len(new_b) - req_bbi + 1]) /\ gcpc' = gcpc
  <2>1. /\ Len(new_b) - req_bbi + 1 \in 1..Len(b) /\ b \in Seq(Value) /\ new_b \in Seq(Value)
        /\ Len(new_b) \in Nat
    BY <1>0, <1>2, <1>4 DEF ArraysInv
  <2>2. b[Len(new_b) - req_bbi + 1] \in Value
    BY <2>1, ElementOfSeq
  <2>3. new_b' \in Seq(Value) /\ Len(new_b') = Len(new_b) + 1
    BY <1>4, <2>1, <2>2, AppendIs
  <2>4. ArraysInv'
    BY <1>0, <1>1, <1>4, <2>1, <2>3 DEF ArraysInv
  <2>5. CopyInv'
    BY <1>0, <1>1, <1>2, <1>4, <2>1, <2>3, SMTT(20) DEF CopyInv, Inv, ArraysInv
  <2> QED
    BY <1>3, <2>4, <2>5 DEF Inv
<1>5. CASE ~(Len(new_b) < req_abi) /\ gcpc' = "done" /\ new_b' = new_b
  <2>1. ArraysInv'
    BY <1>0, <1>1, <1>5 DEF ArraysInv
  <2>2. CopyInv'
    BY <1>0, <1>1, <1>2, <1>5 DEF CopyInv, Inv, ArraysInv
  <2> QED
    BY <1>3, <2>1, <2>2 DEF Inv
<1> QED
  BY <1>2, <1>4, <1>5 DEF CopyB

LEMMA InvNext ==
  ASSUME Inv, [Next]_vars
  PROVE  Inv'
<1>1. ASSUME NEW v \in Value, Push(v) \/ EnterScript(v)
      PROVE  Inv'
  BY <1>1, InvPush, InvEnterScript
<1>2. ASSUME NEW n \in 1..MaxDepth, Discard(n)
      PROVE  Inv'
  BY <1>2, InvDiscard
<1>3. ASSUME NEW k \in 0..MaxDepth, SetLocal(k) \/ SetUpvalue(k) \/ Call(k)
      PROVE  Inv'
  BY <1>3, InvSetLocal, InvSetUpvalue, InvCall
<1>4. CASE BeginReturn \/ Return \/ ReturnFromScript \/ Reset
  BY <1>4, InvBeginReturn, InvReturn, InvReturnFromScript, InvReset
<1>5. CASE CollectGarbage \/ IntegrateGCResponse
  BY <1>5, InvCollect, InvIntegrate
<1>6. CASE CopyC \/ CopyB
  BY <1>6, InvCopyC, InvCopyB
<1>7. CASE UNCHANGED vars
  BY <1>7 DEF Inv, ArraysInv, FramesInv, SlotsAreCurrent, CopyInv, SlotsIndex,
              vars, stack_vars, frame_vars, req_vars
<1> QED
  BY <1>1, <1>2, <1>3, <1>4, <1>5, <1>6, <1>7 DEF Next, MainNext, GcNext

LEMMA SpecInv == Spec => []Inv
  BY InvInit, InvNext, PTL DEF Spec

\* Every variable keeps its type and its bounds, the cached pointer and the
\* three starting indices included: no path pops, returns or freezes the stack
\* below its start.
THEOREM TypeCorrectness == Spec => []TypeOK
<1>1. Inv => TypeOK
  BY InvFacts
<1> QED
  BY <1>1, SpecInv, PTL

\* Every index of the stack lies inside the array tristack_at() reads it from,
\* whatever was frozen, condensed, popped, reset or moved back into A.
THEOREM StackStaysWellFormed == Spec => []StackWellFormed
<1>1. Inv => StackWellFormed
  BY DEF Inv, ArraysInv, StackWellFormed, Smaller
<1> QED
  BY <1>1, SpecInv, PTL

\* The current frame's slots stay in A and its cached pointer stays right,
\* across every freeze, integration and return.
THEOREM SlotsStayCurrent == Spec => []SlotsAreCurrent
<1>1. Inv => SlotsAreCurrent
  BY DEF Inv
<1> QED
  BY <1>1, SpecInv, PTL

\* What is integrated holds every value of the stack below A, although the
\* interpreter pushed, popped, returned and reset while it was condensed.
THEOREM CondensedStaysComplete == Spec => []CondensedIsComplete
<1>1. Inv => CondensedIsComplete
  BY DEF Inv, ArraysInv, CopyInv, CondensedIsComplete
<1> QED
  BY <1>1, SpecInv, PTL
-----------------------------------------------------------------------------
(***************************************************************************)
(* What is condensed is current.                                           *)
(***************************************************************************)

\* Popping, returning and resetting leave the request's arrays alone and only
\* move abi down.
LEMMA CurrentKept ==
  ASSUME Inv, CurrentInv,
         UNCHANGED <<b, c, req_bbi, gcpc, new_b>>,
         abi' <= abi, abi' \in Nat,
         bbi' = bbi \/ abi' = 0
  PROVE  CurrentInv'
<1>1. ArraysInv
  BY DEF Inv
<1>2. gcpc # "idle" => bbi' = req_bbi' \/ abi' = 0
  BY <1>1, SMTT(20) DEF CurrentInv, ArraysInv
<1>3. gcpc # "idle" =>
        \A i \in 1..Len(new_b) : new_b[i] = IF i <= req_bbi THEN c[i] ELSE b[i - req_bbi]
  BY DEF CurrentInv
<1> QED
  BY <1>2, <1>3 DEF CurrentInv

LEMMA CurrentNext ==
  ASSUME ~FrozenUpvalues, Inv, CurrentInv, [Next]_vars
  PROVE  CurrentInv'
<1>0. ArraysInv /\ MaxDepth \in Nat \ {0}
  BY InvFacts
<1>1. ASSUME NEW v \in Value, Push(v) \/ EnterScript(v)
      PROVE  CurrentInv'
  BY <1>1 DEF Push, EnterScript, CurrentInv, req_vars
<1>2. ASSUME NEW n \in 1..MaxDepth, Discard(n)
      PROVE  CurrentInv'
  <2>1. n \in 0..MaxDepth /\ n <= stackDepth /\ DiscardN(n)
    BY <1>0, <1>2 DEF Discard
  <2>2. abi' \in Nat /\ abi' <= abi /\ UNCHANGED <<b, c, bbi>>
    BY <1>0, <2>1, DiscardNFacts
  <2>3. UNCHANGED <<req_bbi, gcpc, new_b>>
    BY <1>2 DEF Discard, req_vars
  <2> QED
    BY <2>2, <2>3, CurrentKept
<1>3. ASSUME NEW k \in 0..MaxDepth, SetLocal(k) \/ SetUpvalue(k) \/ Call(k)
      PROVE  CurrentInv'
  <2>1. CASE SetLocal(k) \/ Call(k)
    BY <2>1 DEF SetLocal, Call, CurrentInv, req_vars, stack_vars
  <2>2. CASE SetUpvalue(k)
    <3>1. UNCHANGED <<b, c, abi, bbi, req_bbi, gcpc, new_b>> \/ (gcpc = "idle" /\ gcpc' = gcpc)
      <4>1. UNCHANGED <<abi, bbi, req_bbi, gcpc, new_b>>
        BY <2>2 DEF SetUpvalue, req_vars
      <4>2. CASE k >= abi
        <5>1. ~(k < abi)
          BY <1>0, <4>2 DEF ArraysInv
        <5> QED
          BY <2>2, <4>1, <5>1 DEF SetUpvalue
      <4>3. CASE ~(k >= abi)
        BY <2>2, <4>1, <4>3 DEF SetUpvalue
      <4> QED
        BY <4>2, <4>3
    <3> QED
      BY <3>1 DEF CurrentInv
  <2> QED
    BY <1>3, <2>1, <2>2
<1>4. CASE BeginReturn
  <2>1. 1 \in 0..MaxDepth /\ 1 <= stackDepth /\ DiscardN(1)
    BY <1>0, <1>4, InvFacts DEF BeginReturn, ArraysInv, FrameFacts
  <2>2. abi' \in Nat /\ abi' <= abi /\ UNCHANGED <<b, c, bbi>>
    BY <1>0, <2>1, DiscardNFacts
  <2>3. UNCHANGED <<req_bbi, gcpc, new_b>>
    BY <1>4 DEF BeginReturn, req_vars
  <2> QED
    BY <2>2, <2>3, CurrentKept
<1>5. CASE Return
  <2>1. PICK base, r : ReturnEffect(base, r)
    BY <1>5, ReturnFacts
  <2>2. UNCHANGED <<b, bbi, c, req_bbi, gcpc, new_b>> /\ abi' = Smaller(base, abi) /\ base \in Nat
    BY <1>0, <2>1 DEF ReturnEffect
  <2>3. abi' \in Nat /\ abi' <= abi
    BY <1>0, <2>2 DEF ArraysInv, Smaller
  <2> QED
    BY <2>2, <2>3, CurrentKept
<1>6. CASE ReturnFromScript
  <2>1. frames # <<>>
    BY <1>6 DEF ReturnFromScript
  <2>2. 1 \in 0..MaxDepth /\ 1 <= stackDepth /\ DiscardN(1)
    BY <1>0, <1>6, <2>1, InvFacts DEF ReturnFromScript, ArraysInv, FrameFacts
  <2>3. abi' \in Nat /\ abi' <= abi /\ UNCHANGED <<b, c, bbi>>
    BY <1>0, <2>2, DiscardNFacts
  <2>4. UNCHANGED <<req_bbi, gcpc, new_b>>
    BY <1>6 DEF ReturnFromScript, req_vars
  <2> QED
    BY <2>3, <2>4, CurrentKept
<1>7. CASE Reset
  <2>1. abi' \in Nat /\ abi' <= abi /\ abi' = 0 /\ UNCHANGED <<b, c, req_bbi, gcpc, new_b>>
    BY <1>0, <1>7 DEF Reset, ArraysInv, req_vars
  <2> QED
    BY <2>1, CurrentKept
<1>8. CASE CollectGarbage
  <2>1. new_b' = <<>> /\ Len(new_b') = 0 /\ req_bbi' = abi
    BY <1>8 DEF CollectGarbage
  <2>2. bbi' = abi
    <3>1. CASE frames # <<>>
      BY <1>8, <3>1 DEF CollectGarbage, Assign, MutableFrom
    <3>2. CASE frames = <<>>
      BY <1>8, <3>2 DEF CollectGarbage, Assign
    <3> QED
      BY <3>1, <3>2
  <2> QED
    BY <2>1, <2>2 DEF CurrentInv
<1>9. CASE IntegrateGCResponse
  BY <1>9 DEF IntegrateGCResponse, CurrentInv
<1>10. CASE CopyC
  <2>1. UNCHANGED <<b, c, abi, bbi, req_bbi>> /\ gcpc = "copy_c"
    BY <1>10 DEF CopyC, stack_vars, req_vars
  <2>2. CASE new_b' = new_b
    BY <2>1, <2>2 DEF CurrentInv
  <2>3. CASE new_b' # new_b
    <3>1. new_b' = Append(new_b, c[Len(new_b) + 1]) /\ Len(new_b) < Smaller(req_stackDepth, req_bbi)
      BY <1>10, <2>3 DEF CopyC
    <3>2. /\ Len(new_b) + 1 \in 1..Len(c) /\ Len(new_b) + 1 <= req_bbi /\ Len(new_b) \in Nat
          /\ c \in Seq(Value) /\ new_b \in Seq(Value)
      BY <1>0, <2>1, <3>1 DEF ArraysInv, Inv, CopyInv, Smaller
    <3>3. c[Len(new_b) + 1] \in Value
      BY <3>2, ElementOfSeq
    <3>4. /\ Len(new_b') = Len(new_b) + 1
          /\ \A i \in 1..Len(new_b) : new_b'[i] = new_b[i]
          /\ new_b'[Len(new_b) + 1] = c[Len(new_b) + 1]
      BY <3>1, <3>2, <3>3, AppendIs
    <3>5. ASSUME NEW i \in 1..Len(new_b')
          PROVE  new_b'[i] = IF i <= req_bbi THEN c[i] ELSE b[i - req_bbi]
      <4>1. CASE i = Len(new_b) + 1
        BY <3>2, <3>4, <4>1
      <4>2. CASE i # Len(new_b) + 1
        <5>1. i \in 1..Len(new_b)
          BY <3>2, <3>4, <4>2
        <5> QED
          BY <2>1, <3>4, <5>1 DEF CurrentInv
      <4> QED
        BY <4>1, <4>2
    <3> QED
      BY <2>1, <3>5 DEF CurrentInv
  <2> QED
    BY <2>2, <2>3
<1>11. CASE CopyB
  <2>1. UNCHANGED <<b, c, abi, bbi, req_bbi>> /\ gcpc = "copy_b"
    BY <1>11 DEF CopyB, stack_vars, req_vars
  <2>2. CASE new_b' = new_b
    BY <2>1, <2>2 DEF CurrentInv
  <2>3. CASE new_b' # new_b
    <3>1. new_b' = Append(new_b, b[Len(new_b) - req_bbi + 1]) /\ Len(new_b) < Smaller(req_stackDepth, req_abi)
      BY <1>11, <2>3 DEF CopyB
    <3>2. /\ Len(new_b) - req_bbi + 1 \in 1..Len(b) /\ req_bbi <= Len(new_b)
          /\ Len(new_b) \in Nat /\ req_bbi \in Nat
          /\ b \in Seq(Value) /\ new_b \in Seq(Value)
      BY <1>0, <2>1, <3>1 DEF ArraysInv, Inv, CopyInv, Smaller
    <3>3. b[Len(new_b) - req_bbi + 1] \in Value
      BY <3>2, ElementOfSeq
    <3>4. /\ Len(new_b') = Len(new_b) + 1
          /\ \A i \in 1..Len(new_b) : new_b'[i] = new_b[i]
          /\ new_b'[Len(new_b) + 1] = b[Len(new_b) - req_bbi + 1]
      BY <3>1, <3>2, <3>3, AppendIs
    <3>5. ASSUME NEW i \in 1..Len(new_b')
          PROVE  new_b'[i] = IF i <= req_bbi THEN c[i] ELSE b[i - req_bbi]
      <4>1. CASE i = Len(new_b) + 1
        <5>1. ~(i <= req_bbi) /\ i - req_bbi = Len(new_b) - req_bbi + 1
          BY <3>2, <4>1
        <5> QED
          BY <3>4, <4>1, <5>1
      <4>2. CASE i # Len(new_b) + 1
        <5>1. i \in 1..Len(new_b)
          BY <3>2, <3>4, <4>2
        <5> QED
          BY <2>1, <3>4, <5>1 DEF CurrentInv
      <4> QED
        BY <4>1, <4>2
    <3> QED
      BY <2>1, <3>5 DEF CurrentInv
  <2> QED
    BY <2>2, <2>3
<1>12. CASE UNCHANGED vars
  BY <1>12 DEF CurrentInv, vars, stack_vars, req_vars
<1> QED
  BY <1>1, <1>2, <1>3, <1>4, <1>5, <1>6, <1>7, <1>8, <1>9, <1>10, <1>11, <1>12
     DEF Next, MainNext, GcNext

\* What the GC thread has condensed is what the interpreter reads below A, for
\* as long as nothing is assigned through an upvalue whose slot is frozen
\* (regions B and C "are read-only", README.md); run tristack_upvalue shows
\* that such an assignment makes the copy stale.
THEOREM CondensedStaysCurrent ==
  ASSUME ~FrozenUpvalues
  PROVE  Spec => []CondensedIsCurrent
<1>1. Init => CurrentInv
  BY DEF Init, CurrentInv
<1>2. Inv /\ CurrentInv /\ [Next]_vars => CurrentInv'
  BY CurrentNext
<1>3. Inv /\ CurrentInv => CondensedIsCurrent
  <2> SUFFICES ASSUME Inv, CurrentInv, gcpc # "idle",
                      NEW i \in 0..(Smaller(Len(new_b), abi) - 1)
               PROVE  new_b[i + 1] = At(i)
    BY DEF CondensedIsCurrent
  <2>1. ArraysInv
    BY DEF Inv
  <2>2. i \in Nat /\ i + 1 \in 1..Len(new_b) /\ i < abi /\ abi # 0 /\ bbi \in Nat /\ cbi = 0
    BY <2>1 DEF ArraysInv, Smaller
  <2>3. bbi = req_bbi
    BY <2>2 DEF CurrentInv
  <2>4. new_b[i + 1] = IF i + 1 <= bbi THEN c[i + 1] ELSE b[i + 1 - bbi]
    BY <2>2, <2>3 DEF CurrentInv
  <2>5. ~(i >= abi) /\ (i >= bbi <=> ~(i + 1 <= bbi)) /\ i - bbi + 1 = i + 1 - bbi /\ i - cbi + 1 = i + 1
    BY <2>1, <2>2, SMTT(20) DEF ArraysInv
  <2> QED
    BY <2>4, <2>5 DEF At, ValueAt, Regions
<1> QED
  BY <1>1, <1>2, <1>3, SpecInv, PTL DEF Spec
-----------------------------------------------------------------------------
(***************************************************************************)
(* One stack: TriStack implements ValueStack.                              *)
(***************************************************************************)

\* The stack of the abstract specification.
Contents == Slice(Regions, 0, stackDepth)

ContentsFacts ==
  /\ Contents \in Seq(Value) /\ Len(Contents) = stackDepth
  /\ stackDepth \in Nat
  /\ \A j \in 1..stackDepth : Contents[j] = At(j - 1)

LEMMA ContentsIs == Inv => ContentsFacts
<1> SUFFICES ASSUME Inv
             PROVE  ContentsFacts
  OBVIOUS
<1>1. stackDepth \in Nat /\ 0 \in 0..stackDepth
  BY InvFacts DEF ArraysInv
<1>2. Covers(Regions, stackDepth)
  BY InvFacts
<1>3. /\ Contents \in Seq(Value) /\ Len(Contents) = stackDepth - 0
      /\ \A j \in 1..(stackDepth - 0) : Contents[j] = ValueAt(Regions, 0 + j - 1)
  BY <1>1, <1>2, SliceValues DEF Contents
<1> QED
  BY <1>1, <1>3 DEF At, ContentsFacts

LEMMA ContentsNext == Inv' => ContentsFacts'
  BY ContentsIs, PTL

LEMMA IndexBelow ==
  ASSUME NEW m \in Nat, NEW n \in Nat, m <= n, NEW i \in 1..m
  PROVE  i - 1 \in 0..(m - 1) /\ i \in 1..n
  OBVIOUS

\* A step that keeps the values of the stack up to its new top cuts it there.
LEMMA ContentsCut ==
  ASSUME ContentsFacts, ContentsFacts', stackDepth' \in 0..stackDepth,
         \A i \in 0..(stackDepth' - 1) : At(i)' = At(i)
  PROVE  Contents' = SubSeq(Contents, 1, stackDepth')
<1> DEFINE s == Contents'
           t == SubSeq(Contents, 1, stackDepth')
<1>1. s \in Seq(Value) /\ Len(s) = stackDepth' /\ stackDepth' \in Nat /\ stackDepth \in Nat
  BY DEF ContentsFacts
<1>2. t \in Seq(Value) /\ Len(t) = stackDepth' /\ \A i \in 1..stackDepth' : t[i] = Contents[i]
  BY PrefixIs DEF ContentsFacts
<1>3. stackDepth' <= stackDepth
  BY <1>1
<1>4. ASSUME NEW i \in 1..stackDepth'
      PROVE  s[i] = t[i]
  <2>1. i - 1 \in 0..(stackDepth' - 1) /\ i \in 1..stackDepth
    BY <1>1, <1>3, IndexBelow
  <2>2. s[i] = At(i - 1)'
    BY DEF ContentsFacts
  <2>3. t[i] = At(i - 1)
    BY <1>2, <2>1 DEF ContentsFacts
  <2> QED
    BY <2>1, <2>2, <2>3
<1> HIDE DEF s, t
<1>5. s = t
  BY <1>1, <1>2, <1>4, SeqEqual
<1> QED
  BY <1>5 DEF s, t

LEMMA ContentsKept ==
  ASSUME ContentsFacts, ContentsFacts', stackDepth' = stackDepth,
         \A i \in 0..(stackDepth - 1) : At(i)' = At(i)
  PROVE  Contents' = Contents
<1>1. Contents' = SubSeq(Contents, 1, stackDepth')
  BY ContentsCut DEF ContentsFacts
<1>2. SubSeq(Contents, 1, Len(Contents)) = Contents
  BY SubSeqFull DEF ContentsFacts
<1> QED
  BY <1>1, <1>2 DEF ContentsFacts

\* The same with a value on top.
LEMMA ContentsPushed ==
  ASSUME ContentsFacts, ContentsFacts', NEW n \in 0..stackDepth, NEW v \in Value,
         stackDepth' = n + 1,
         \A i \in 0..(n - 1) : At(i)' = At(i),
         At(n)' = v
  PROVE  Contents' = Append(SubSeq(Contents, 1, n), v)
<1> DEFINE s == Contents'
           p == SubSeq(Contents, 1, n)
<1>1. s \in Seq(Value) /\ Len(s) = n + 1 /\ stackDepth \in Nat /\ n \in Nat
  BY DEF ContentsFacts
<1>2. p \in Seq(Value) /\ Len(p) = n /\ \A i \in 1..n : p[i] = Contents[i]
  BY PrefixIs DEF ContentsFacts
<1>3. ASSUME NEW i \in 1..n
      PROVE  s[i] = p[i]
  <2>1. i - 1 \in 0..(n - 1) /\ i \in 1..stackDepth /\ i \in 1..stackDepth'
    BY <1>1
  <2>2. s[i] = At(i - 1)'
    BY <2>1 DEF ContentsFacts
  <2>3. p[i] = At(i - 1)
    BY <1>2, <2>1 DEF ContentsFacts
  <2> QED
    BY <2>1, <2>2, <2>3
<1>4. s[n + 1] = v
  <2>1. n + 1 \in 1..stackDepth' /\ (n + 1) - 1 = n
    BY <1>1
  <2>2. s[n + 1] = At((n + 1) - 1)'
    BY <2>1 DEF ContentsFacts
  <2> QED
    BY <2>1, <2>2
<1> HIDE DEF s, p
<1> DEFINE t == Append(p, v)
<1>5. /\ t \in Seq(Value) /\ Len(t) = n + 1
      /\ \A i \in 1..n : t[i] = p[i]
      /\ t[n + 1] = v
  BY <1>2, AppendIs
<1> HIDE DEF t
<1>6. \A i \in 1..(n + 1) : s[i] = t[i]
  BY <1>1, <1>3, <1>4, <1>5
<1>7. s = t
  BY <1>1, <1>5, <1>6, SeqEqual
<1> QED
  BY <1>7 DEF s, t, p

\* One value changed.
LEMMA ContentsSet ==
  ASSUME ContentsFacts, ContentsFacts', NEW n \in 0..(stackDepth - 1), NEW v \in Value,
         stackDepth' = stackDepth,
         \A i \in 0..(stackDepth - 1) : At(i)' = IF i = n THEN v ELSE At(i)
  PROVE  Contents' = [Contents EXCEPT ![n + 1] = v]
<1> DEFINE s == Contents'
           t == [Contents EXCEPT ![n + 1] = v]
<1>1. s \in Seq(Value) /\ Len(s) = stackDepth /\ stackDepth \in Nat /\ n + 1 \in 1..stackDepth
  BY DEF ContentsFacts
<1>2. /\ t \in Seq(Value) /\ Len(t) = stackDepth
      /\ \A i \in 1..stackDepth : t[i] = IF i = n + 1 THEN v ELSE Contents[i]
  BY <1>1, ExceptSeq DEF ContentsFacts
<1>3. ASSUME NEW i \in 1..stackDepth
      PROVE  s[i] = t[i]
  <2>1. i - 1 \in 0..(stackDepth - 1) /\ i \in 1..stackDepth' /\ (i - 1 = n <=> i = n + 1)
    BY <1>1
  <2>2. s[i] = At(i - 1)'
    BY <2>1 DEF ContentsFacts
  <2>3. At(i - 1)' = IF i = n + 1 THEN v ELSE At(i - 1)
    BY <2>1
  <2>4. Contents[i] = At(i - 1)
    BY DEF ContentsFacts
  <2> QED
    BY <1>2, <2>2, <2>3, <2>4
<1> HIDE DEF s, t
<1>4. s = t
  BY <1>1, <1>2, <1>3, SeqEqual
<1> QED
  BY <1>4 DEF s, t

\* What the steps do to the values of the stack.

LEMMA AtPush ==
  ASSUME ArraysInv, NEW v \in Value, a' = Append(a, v), UNCHANGED <<b, c, abi, bbi, cbi>>,
         NEW d, d = stackDepth
  PROVE  /\ \A i \in 0..(d - 1) : At(i)' = At(i)
         /\ At(d)' = v
<1>1. /\ \A i \in 1..Len(a) : a'[i] = a[i]
      /\ a'[Len(a) + 1] = v
  BY AppendIs DEF ArraysInv
<1>2. ASSUME NEW i \in 0..(d - 1)
      PROVE  At(i)' = At(i)
  <2>1. CASE i >= abi
    <3>1. i - abi + 1 \in 1..Len(a)
      BY <2>1 DEF ArraysInv
    <3> QED
      BY <1>1, <2>1, <3>1 DEF At, ValueAt, Regions
  <2>2. CASE ~(i >= abi)
    BY <2>2 DEF At, ValueAt, Regions
  <2> QED
    BY <2>1, <2>2
<1>3. At(d)' = v
  <2>1. d >= abi /\ d - abi + 1 = Len(a) + 1
    BY SMTT(20) DEF ArraysInv
  <2>2. At(d)' = a'[d - abi + 1]
    BY <2>1 DEF At, ValueAt, Regions
  <2> QED
    BY <1>1, <2>1, <2>2
<1> QED
  BY <1>2, <1>3

LEMMA AtDiscard ==
  ASSUME Inv, NEW n \in 0..MaxDepth, n <= stackDepth, DiscardN(n)
  PROVE  \A i \in 0..(stackDepth' - 1) : At(i)' = At(i)
<1>0. ArraysInv /\ MaxDepth \in Nat \ {0}
  BY InvFacts
<1>1. /\ stackDepth' = stackDepth - n /\ stackDepth' \in 0..MaxDepth
      /\ abi' \in 0..MaxDepth /\ abi' <= abi
      /\ abi <= stackDepth' => abi' = abi
      /\ UNCHANGED <<b, c, bbi, cbi>>
  BY DiscardNFacts
<1>2. abi' = Smaller(abi, stackDepth') /\ a' = SubSeq(a, 1, stackDepth' - abi')
  BY DEF DiscardN
<1> SUFFICES ASSUME NEW i \in 0..(stackDepth' - 1)
             PROVE  At(i)' = At(i)
  OBVIOUS
<1>3. i \in Nat /\ i < stackDepth'
  BY <1>0, <1>1
<1>4. CASE i >= abi'
  <2>1. abi' = abi
    BY <1>0, <1>1, <1>2, <1>3, <1>4 DEF Smaller, ArraysInv
  <2>2. stackDepth' - abi \in 0..Len(a) /\ i - abi + 1 \in 1..(stackDepth' - abi) /\ a \in Seq(Value)
    BY <1>0, <1>1, <1>3, <1>4, <2>1 DEF ArraysInv
  <2> DEFINE m == stackDepth' - abi
             k == i - abi + 1
  <2>3. m \in 0..Len(a) /\ k \in 1..m /\ a' = SubSeq(a, 1, m)
    BY <1>2, <2>1, <2>2
  <2> HIDE DEF m, k
  <2>4. a'[k] = a[k]
    BY <2>2, <2>3, PrefixIs
  <2> QED
    BY <1>1, <1>4, <2>1, <2>4 DEF At, ValueAt, Regions, k
<1>5. CASE ~(i >= abi')
  <2>1. ~(i >= abi)
    BY <1>0, <1>1, <1>3, <1>5 DEF ArraysInv
  <2> QED
    BY <1>1, <1>5, <2>1 DEF At, ValueAt, Regions
<1> QED
  BY <1>4, <1>5

LEMMA AtSetLocal ==
  ASSUME Inv, NEW k \in 0..MaxDepth, SetLocal(k)
  PROVE  /\ SlotsIndex + k \in 0..(stackDepth - 1)
         /\ \A i \in 0..(stackDepth - 1) : At(i)' = IF i = SlotsIndex + k THEN Top ELSE At(i)
<1>0. ArraysInv /\ MaxDepth \in Nat /\ FrameFacts
  BY InvFacts DEF SetLocal
<1>1. SlotsIndex + k \in 0..(stackDepth - 1) /\ SlotsIndex + k < stackDepth
  BY <1>0 DEF FrameFacts, ArraysInv, SetLocal
<1>2. a' = [a EXCEPT ![slots + k + 1] = Top] /\ UNCHANGED <<b, c, abi, bbi, cbi>>
  BY DEF SetLocal
<1>3. a \in Seq(Value) /\ slots + k + 1 \in 1..Len(a) /\ stackDepth > 0
  BY <1>0, <1>1 DEF FrameFacts, ArraysInv
<1>4. \A j \in 1..Len(a) : a'[j] = IF j = slots + k + 1 THEN Top ELSE a[j]
  BY <1>2, <1>3, TopIsValue, ExceptSeq
<1>5. ASSUME NEW i \in 0..(stackDepth - 1)
      PROVE  At(i)' = IF i = SlotsIndex + k THEN Top ELSE At(i)
  <2>1. CASE i >= abi
    <3>1. i - abi + 1 \in 1..Len(a) /\ (i = SlotsIndex + k <=> i - abi + 1 = slots + k + 1)
      BY <1>0, <2>1 DEF FrameFacts, ArraysInv
    <3>2. At(i)' = a'[i - abi + 1] /\ At(i) = a[i - abi + 1]
      BY <1>2, <2>1 DEF At, ValueAt, Regions
    <3> QED
      BY <1>4, <3>1, <3>2
  <2>2. CASE ~(i >= abi)
    <3>1. i # SlotsIndex + k
      BY <1>0, <2>2 DEF FrameFacts, ArraysInv
    <3> QED
      BY <1>2, <2>2, <3>1 DEF At, ValueAt, Regions
  <2> QED
    BY <2>1, <2>2
<1> QED
  BY <1>1, <1>5

LEMMA AtSetUpvalue ==
  ASSUME Inv, NEW k \in 0..MaxDepth, SetUpvalue(k)
  PROVE  \A i \in 0..(stackDepth - 1) : At(i)' = IF i = k THEN Top ELSE At(i)
<1>0. ArraysInv /\ MaxDepth \in Nat /\ stackDepth > 0 /\ k < stackDepth
  BY InvFacts, SMTT(20) DEF SetUpvalue, ArraysInv
<1>1. UNCHANGED <<abi, bbi, cbi>> /\ Top \in Value
  BY <1>0, TopIsValue DEF SetUpvalue
<1> SUFFICES ASSUME NEW i \in 0..(stackDepth - 1)
             PROVE  At(i)' = IF i = k THEN Top ELSE At(i)
  OBVIOUS
<1>2. CASE k >= abi /\ a' = [a EXCEPT ![k - abi + 1] = Top] /\ UNCHANGED <<b, c>>
  <2>1. a \in Seq(Value) /\ k - abi + 1 \in 1..Len(a)
    BY <1>0, <1>2 DEF ArraysInv
  <2>2. \A j \in 1..Len(a) : a'[j] = IF j = k - abi + 1 THEN Top ELSE a[j]
    BY <1>1, <1>2, <2>1, ExceptSeq
  <2>3. CASE i >= abi
    <3>1. i - abi + 1 \in 1..Len(a) /\ (i = k <=> i - abi + 1 = k - abi + 1)
      BY <1>0, <2>3 DEF ArraysInv
    <3>2. At(i)' = a'[i - abi + 1] /\ At(i) = a[i - abi + 1]
      BY <1>1, <2>3 DEF At, ValueAt, Regions
    <3> QED
      BY <2>2, <3>1, <3>2
  <2>4. CASE ~(i >= abi)
    BY <1>1, <1>2, <2>4 DEF At, ValueAt, Regions
  <2> QED
    BY <2>3, <2>4
<1>3. CASE bbi <= k /\ k < abi /\ b' = [b EXCEPT ![k - bbi + 1] = Top] /\ UNCHANGED <<a, c>>
  <2>1. b \in Seq(Value) /\ k - bbi + 1 \in 1..Len(b)
    BY <1>0, <1>3 DEF ArraysInv
  <2>2. \A j \in 1..Len(b) : b'[j] = IF j = k - bbi + 1 THEN Top ELSE b[j]
    BY <1>1, <1>3, <2>1, ExceptSeq
  <2>3. CASE ~(i >= abi) /\ i >= bbi
    <3>1. i - bbi + 1 \in 1..Len(b) /\ (i = k <=> i - bbi + 1 = k - bbi + 1)
      BY <1>0, <2>3 DEF ArraysInv
    <3>2. At(i)' = b'[i - bbi + 1] /\ At(i) = b[i - bbi + 1]
      BY <1>1, <2>3 DEF At, ValueAt, Regions
    <3> QED
      BY <2>2, <3>1, <3>2
  <2>4. CASE i >= abi \/ ~(i >= bbi)
    <3>1. i # k
      BY <1>0, <1>3, <2>4 DEF ArraysInv
    <3> QED
      BY <1>1, <1>3, <2>4, <3>1 DEF At, ValueAt, Regions
  <2> QED
    BY <2>3, <2>4
<1>4. CASE k < bbi /\ k < abi /\ c' = [c EXCEPT ![k - cbi + 1] = Top] /\ UNCHANGED <<a, b>>
  <2>1. c \in Seq(Value) /\ k - cbi + 1 \in 1..Len(c)
    BY <1>0, <1>4 DEF ArraysInv
  <2>2. \A j \in 1..Len(c) : c'[j] = IF j = k - cbi + 1 THEN Top ELSE c[j]
    BY <1>1, <1>4, <2>1, ExceptSeq
  <2>3. CASE ~(i >= abi) /\ ~(i >= bbi)
    <3>1. i - cbi + 1 \in 1..Len(c) /\ (i = k <=> i - cbi + 1 = k - cbi + 1)
      BY <1>0, <2>3 DEF ArraysInv
    <3>2. At(i)' = c'[i - cbi + 1] /\ At(i) = c[i - cbi + 1]
      BY <1>1, <2>3 DEF At, ValueAt, Regions
    <3> QED
      BY <2>2, <3>1, <3>2
  <2>4. CASE i >= abi \/ i >= bbi
    <3>1. i # k
      BY <1>0, <1>4, <2>4 DEF ArraysInv
    <3> QED
      BY <1>1, <1>4, <2>4, <3>1 DEF At, ValueAt, Regions
  <2> QED
    BY <2>3, <2>4
<1> QED
  BY <1>2, <1>3, <1>4 DEF SetUpvalue

LEMMA IndexAbove ==
  ASSUME NEW n \in Nat, NEW m \in Nat, NEW i \in 0..(n - 1), i >= m
  PROVE  i - m + 1 \in 1..(n - m)
  OBVIOUS

LEMMA AtReturn ==
  ASSUME Inv, Return, NEW d, d = SlotsIndex
  PROVE  /\ d \in 0..(stackDepth - 1) /\ result \in Value /\ stackDepth' = d + 1
         /\ \A i \in 0..(d - 1) : At(i)' = At(i)
         /\ \A v : v = result => At(d)' = v
<1>0. ArraysInv /\ MaxDepth \in Nat \ {0} /\ FrameFacts
  BY InvFacts DEF Return
<1>1. PICK base, r : ReturnEffect(base, r)
  BY ReturnFacts
<1>2. /\ d \in 0..(stackDepth - 1) /\ stackDepth \in Nat /\ d \in Nat /\ d < stackDepth
      /\ result \in Value /\ stackDepth' = d + 1
  <2>1. stackDepth' = d + 1
    BY <1>1 DEF ReturnEffect
  <2>2. result \in Value
    BY <1>0 DEF ArraysInv, Return
  <2>3. d \in 0..MaxDepth /\ d < stackDepth /\ stackDepth \in 0..MaxDepth
    BY <1>0 DEF FrameFacts, ArraysInv
  <2>4. d \in 0..(stackDepth - 1) /\ stackDepth \in Nat /\ d \in Nat
    BY <1>0, <2>3
  <2> QED
    BY <2>1, <2>2, <2>3, <2>4
<1>3. abi' \in Nat /\ abi' <= d
  <2>1. abi' = Smaller(base, abi) /\ base \in 0..MaxDepth /\ base < d
    BY <1>1 DEF ReturnEffect
  <2>2. abi \in 0..MaxDepth
    BY <1>0 DEF ArraysInv
  <2> QED
    BY <1>0, <1>2, <2>1, <2>2 DEF Smaller
<1> DEFINE m == d - abi'
           p == SubSeq(r.a, 1, m)
<1>4. /\ r.a \in Seq(Value) /\ m \in 0..Len(r.a) /\ m \in Nat /\ m + 1 = d - abi' + 1
      /\ abi' = r.abi
  <2>1. r.a \in Seq(Value) /\ Len(r.a) = stackDepth - r.abi /\ abi' = r.abi
    BY <1>1 DEF ReturnEffect, Covers
  <2> QED
    BY <1>2, <1>3, <2>1
<1>5. p \in Seq(Value) /\ Len(p) = m /\ \A i \in 1..m : p[i] = r.a[i]
  <2> HIDE DEF m
  <2> QED
    BY <1>4, PrefixIs
<1>6. a' = Append(p, result)
  BY <1>1, <1>4 DEF ReturnEffect
<1> HIDE DEF p
<1>7. /\ \A i \in 1..m : a'[i] = r.a[i]
      /\ a'[m + 1] = result
  BY <1>2, <1>5, <1>6, AppendIs
<1>8. ASSUME NEW i \in 0..(d - 1)
      PROVE  At(i)' = At(i)
  <2>1. i \in 0..(stackDepth - 1)
    BY <1>2
  <2>2. ValueAt(r, i) = At(i)
    BY <1>1, <2>1 DEF ReturnEffect
  <2>3. CASE i >= abi'
    <3>1. i - abi' + 1 \in 1..m
      BY <1>2, <1>3, <2>3, IndexAbove
    <3>2. At(i)' = a'[i - abi' + 1]
      BY <2>3 DEF At, ValueAt, Regions
    <3>3. ValueAt(r, i) = r.a[i - abi' + 1]
      BY <1>4, <2>3 DEF ValueAt
    <3> HIDE DEF m
    <3> QED
      BY <1>7, <2>2, <3>1, <3>2, <3>3
  <2>4. CASE ~(i >= abi')
    <3>1. r.b = b /\ r.bbi = bbi /\ r.c = c /\ r.cbi = 0 /\ UNCHANGED <<b, bbi, c>> /\ cbi' = 0
      BY <1>1 DEF ReturnEffect, Covers
    <3>2. At(i)' = IF i >= bbi THEN b[i - bbi + 1] ELSE c[i - 0 + 1]
      BY <2>4, <3>1 DEF At, ValueAt, Regions
    <3>3. ValueAt(r, i) = IF i >= bbi THEN b[i - bbi + 1] ELSE c[i - 0 + 1]
      BY <1>4, <2>4, <3>1 DEF ValueAt
    <3> QED
      BY <2>2, <3>2, <3>3
  <2> QED
    BY <2>3, <2>4
<1>9. At(d)' = a'[d - abi' + 1]
  BY <1>2, <1>3 DEF At, ValueAt, Regions
<1>10. \A v : v = result => At(d)' = v
  BY <1>4, <1>7, <1>9
<1> QED
  BY <1>2, <1>8, <1>10

LEMMA AtIntegrate ==
  ASSUME Inv, CondensedIsCurrent, IntegrateGCResponse
  PROVE  \A i \in 0..(stackDepth - 1) : At(i)' = At(i)
<1>0. ArraysInv
  BY DEF Inv
<1>1. /\ UNCHANGED <<a, abi>> /\ b' = SubSeq(new_b, 1, abi) /\ bbi' = 0
  BY InvIntegrate
<1>2. abi \in 0..Len(new_b) /\ gcpc # "idle" /\ new_b \in Seq(Value)
  BY <1>0 DEF ArraysInv, Inv, CopyInv, IntegrateGCResponse
<1>3. \A i \in 1..abi : b'[i] = new_b[i]
  BY <1>1, <1>2, PrefixIs
<1> SUFFICES ASSUME NEW i \in 0..(stackDepth - 1)
             PROVE  At(i)' = At(i)
  OBVIOUS
<1>4. CASE i >= abi
  BY <1>1, <1>4 DEF At, ValueAt, Regions
<1>5. CASE ~(i >= abi)
  <2>1. i + 1 \in 1..abi /\ i - 0 + 1 = i + 1 /\ i >= 0 /\ i \in 0..(Smaller(Len(new_b), abi) - 1)
    BY <1>0, <1>2, <1>5 DEF ArraysInv, Smaller
  <2>2. At(i)' = b'[i - 0 + 1]
    BY <1>1, <1>5, <2>1 DEF At, ValueAt, Regions
  <2>3. new_b[i + 1] = At(i)
    BY <1>2, <2>1 DEF CondensedIsCurrent
  <2> QED
    BY <1>3, <2>1, <2>2, <2>3
<1> QED
  BY <1>4, <1>5

\* Every step is a step of the one stack, or leaves it as it is.
LEMMA StepRefines ==
  ASSUME Inv, Inv', CondensedIsCurrent, [Next]_vars
  PROVE  [Plain!Next]_(Plain!vars)
<1>0. ArraysInv /\ MaxDepth \in Nat \ {0} /\ ContentsFacts /\ ContentsFacts' /\ (frames # <<>> => FrameFacts)
  BY InvFacts, ContentsIs, ContentsNext
<1>1. /\ Contents \in Seq(Value) /\ Len(Contents) = stackDepth /\ stackDepth \in Nat
      /\ stackDepth > 0 => Contents[stackDepth] = Top
  BY <1>0 DEF ContentsFacts, Top
<1>2. ASSUME NEW v \in Value, Push(v)
      PROVE  Plain!Push(v)
  <2>1. a' = Append(a, v) /\ UNCHANGED <<b, c, abi, bbi, cbi>> /\ stackDepth' = stackDepth + 1
    BY <1>2 DEF Push
  <2>2. PICK d : d = stackDepth
    OBVIOUS
  <2>3. /\ \A i \in 0..(d - 1) : At(i)' = At(i)
        /\ At(d)' = v
    BY <1>0, <2>1, <2>2, AtPush
  <2>4. d \in 0..stackDepth /\ stackDepth' = d + 1
    BY <1>1, <2>1, <2>2
  <2>5. Contents' = Append(SubSeq(Contents, 1, d), v)
    BY <1>0, <2>3, <2>4, ContentsPushed
  <2>6. SubSeq(Contents, 1, d) = Contents
    BY <1>1, <2>2, SubSeqFull
  <2>7. Contents' = Append(Contents, v)
    BY <2>5, <2>6
  <2> QED
    BY <1>2, <2>7 DEF Push, frame_vars, Plain!Push, Contents
<1>3. ASSUME NEW v \in Value, EnterScript(v)
      PROVE  Plain!EnterScript(v)
  <2>1. a' = Append(a, v) /\ UNCHANGED <<b, c, abi, bbi, cbi>> /\ stackDepth = 0 /\ stackDepth' = 1
    BY <1>3 DEF EnterScript
  <2>2. PICK d : d = stackDepth
    OBVIOUS
  <2>3. /\ \A i \in 0..(d - 1) : At(i)' = At(i)
        /\ At(d)' = v
    BY <1>0, <2>1, <2>2, AtPush
  <2>4. d \in 0..stackDepth /\ stackDepth' = d + 1
    BY <2>1, <2>2
  <2>5. Contents' = Append(SubSeq(Contents, 1, d), v)
    BY <1>0, <2>3, <2>4, ContentsPushed
  <2>6. SubSeq(Contents, 1, d) = Contents
    BY <1>1, <2>2, SubSeqFull
  <2>7. Contents' = Append(Contents, v) /\ Len(Contents) = 0
    BY <1>1, <2>1, <2>5, <2>6
  <2> QED
    BY <1>3, <2>7 DEF EnterScript, Plain!EnterScript, Plain!Depth, Contents
<1>4. ASSUME NEW n \in 1..MaxDepth, Discard(n)
      PROVE  Plain!Discard(n) /\ n \in 1..Len(Contents)
  <2>1. n \in 0..MaxDepth /\ n <= stackDepth /\ DiscardN(n)
    BY <1>0, <1>4 DEF Discard
  <2>2. stackDepth' = stackDepth - n /\ \A i \in 0..(stackDepth' - 1) : At(i)' = At(i)
    BY <2>1, AtDiscard, DiscardNFacts
  <2>3. stackDepth' \in 0..stackDepth
    BY <1>1, <2>1, <2>2
  <2>4. Contents' = SubSeq(Contents, 1, Len(Contents) - n)
    BY <1>0, <1>1, <2>2, <2>3, ContentsCut
  <2>5. n \in 1..Len(Contents)
    BY <1>1, <2>1
  <2> QED
    BY <1>1, <1>4, <2>1, <2>4, <2>5
       DEF Discard, frame_vars, Plain!Discard, Plain!Truncated, Plain!Depth, Contents
<1>5. ASSUME NEW k \in 0..MaxDepth, SetLocal(k)
      PROVE  \E i \in 1..Len(Contents) : Plain!Set(i)
  <2>1. PICK d : d = SlotsIndex + k
    OBVIOUS
  <2>2. /\ d \in 0..(stackDepth - 1)
        /\ \A i \in 0..(stackDepth - 1) : At(i)' = IF i = d THEN Top ELSE At(i)
    BY <1>5, <2>1, AtSetLocal
  <2>3. stackDepth > 0 /\ d + 1 \in 1..Len(Contents) /\ stackDepth' = stackDepth
    BY <1>1, <1>5, <2>2 DEF SetLocal
  <2>4. PICK v \in Value : v = Top
    BY <2>3, TopIsValue
  <2>5. Contents' = [Contents EXCEPT ![d + 1] = v]
    BY <1>0, <2>2, <2>3, <2>4, ContentsSet
  <2>6. Contents' = [Contents EXCEPT ![d + 1] = Contents[Len(Contents)]]
    BY <1>1, <2>3, <2>4, <2>5
  <2>7. Plain!Set(d + 1)
    BY <1>5, <2>3, <2>6 DEF SetLocal, frame_vars, Plain!Set, Plain!Depth, Contents
  <2> QED
    BY <2>3, <2>7
<1>6. ASSUME NEW k \in 0..MaxDepth, SetUpvalue(k)
      PROVE  \E i \in 1..Len(Contents) : Plain!Set(i)
  <2>1. \A i \in 0..(stackDepth - 1) : At(i)' = IF i = k THEN Top ELSE At(i)
    BY <1>6, AtSetUpvalue
  <2>2. /\ stackDepth > 0 /\ k + 1 \in 1..Len(Contents) /\ stackDepth' = stackDepth
        /\ k \in 0..(stackDepth - 1)
    BY <1>0, <1>1, <1>6 DEF SetUpvalue
  <2>3. PICK v \in Value : v = Top
    BY <2>2, TopIsValue
  <2>4. Contents' = [Contents EXCEPT ![k + 1] = v]
    BY <1>0, <2>1, <2>2, <2>3, ContentsSet
  <2>5. Contents' = [Contents EXCEPT ![k + 1] = Contents[Len(Contents)]]
    BY <1>1, <2>2, <2>3, <2>4
  <2>6. Plain!Set(k + 1)
    BY <1>6, <2>2, <2>5 DEF SetUpvalue, frame_vars, Plain!Set, Plain!Depth, Contents
  <2> QED
    BY <2>2, <2>6
<1>7. ASSUME NEW k \in 0..MaxDepth, Call(k)
      PROVE  \E n \in 1..Len(Contents) : Plain!Call(n - 1)
  <2>1. UNCHANGED <<a, b, c, abi, bbi, cbi, stackDepth>>
    BY <1>7 DEF Call, stack_vars
  <2>2. Contents' = Contents
    BY <2>1 DEF Contents, Slice, ValueAt, Regions
  <2>3. k + 1 \in 1..Len(Contents) /\ k < Len(Contents) /\ (k + 1) - 1 = k
    BY <1>0, <1>1, <1>7 DEF Call, FrameFacts, ArraysInv
  <2>4. frames' = Append(frames, Len(Contents) - k - 1) /\ result = None /\ result' = result
    BY <1>1, <1>7 DEF Call
  <2>5. Plain!Call(k)
    BY <2>2, <2>3, <2>4 DEF Plain!Call, Plain!Depth, Contents
  <2> QED
    BY <2>3, <2>5
<1>8. ASSUME BeginReturn
      PROVE  Plain!BeginReturn
  <2>1. frames # <<>> /\ FrameFacts /\ stackDepth > 0
    BY <1>0, <1>8 DEF BeginReturn, FrameFacts, ArraysInv
  <2>2. 1 \in 0..MaxDepth /\ 1 <= stackDepth /\ DiscardN(1)
    BY <1>0, <1>1, <1>8, <2>1 DEF BeginReturn
  <2>3. stackDepth' = stackDepth - 1 /\ \A i \in 0..(stackDepth' - 1) : At(i)' = At(i)
    BY <2>2, AtDiscard, DiscardNFacts
  <2>4. stackDepth' \in 0..stackDepth
    BY <1>1, <2>2, <2>3
  <2>5. Contents' = SubSeq(Contents, 1, Len(Contents) - 1)
    BY <1>0, <1>1, <2>3, <2>4, ContentsCut
  <2>6. result' = Contents[Len(Contents)] /\ Len(Contents) > 0
    BY <1>1, <1>8, <2>1 DEF BeginReturn
  <2> QED
    BY <1>8, <2>5, <2>6 DEF BeginReturn, Plain!BeginReturn, Plain!Truncated, Plain!Depth, Contents
<1>9. ASSUME Return
      PROVE  Plain!Return
  <2>1. PICK d : d = SlotsIndex
    OBVIOUS
  <2>2. /\ d \in 0..(stackDepth - 1) /\ result \in Value /\ stackDepth' = d + 1
        /\ \A i \in 0..(d - 1) : At(i)' = At(i)
        /\ \A v : v = result => At(d)' = v
    BY <1>9, <2>1, AtReturn
  <2>3. PICK v \in Value : v = result
    BY <2>2
  <2>4. d \in 0..stackDepth /\ At(d)' = v
    BY <1>1, <2>2, <2>3
  <2>5. Contents' = Append(SubSeq(Contents, 1, d), v)
    BY <1>0, <2>2, <2>4, ContentsPushed
  <2>6. Len(frames) # 1 /\ result # None /\ result' = None /\ frames' = SubSeq(frames, 1, Len(frames) - 1)
    <3>1. Len(frames) \in Nat /\ Len(frames) > 1 /\ result # None
      BY <1>0, <1>9 DEF Return, ArraysInv
    <3>2. result' = None /\ frames' = SubSeq(frames, 1, Len(frames) - 1)
      BY <1>9 DEF Return
    <3>3. Len(frames) # 1
      <4> DEFINE l == Len(frames)
      <4>1. l \in Nat /\ l > 1
        BY <3>1
      <4> HIDE DEF l
      <4>2. l # 1
        BY <4>1
      <4> QED
        BY <4>2 DEF l
    <3> QED
      BY <3>1, <3>2, <3>3
  <2> QED
    BY <2>1, <2>3, <2>5, <2>6 DEF Plain!Return, Plain!Truncated, Plain!Depth, Contents, SlotsIndex
<1>10. ASSUME ReturnFromScript
       PROVE  Plain!Return
  <2>1. Len(frames) = 1 /\ result # None /\ result' = None /\ frames' = <<>> /\ DiscardN(1)
    BY <1>10 DEF ReturnFromScript
  <2>2. 1 \in 0..MaxDepth /\ 1 <= stackDepth
    <3>1. frames # <<>> /\ FrameFacts
      BY <1>0, <2>1
    <3> QED
      BY <1>0, <3>1 DEF FrameFacts, ArraysInv
  <2>3. stackDepth' = stackDepth - 1 /\ \A i \in 0..(stackDepth' - 1) : At(i)' = At(i)
    BY <2>1, <2>2, AtDiscard, DiscardNFacts
  <2>4. stackDepth' \in 0..stackDepth
    BY <1>1, <2>2, <2>3
  <2>5. Contents' = SubSeq(Contents, 1, Len(Contents) - 1)
    BY <1>0, <1>1, <2>3, <2>4, ContentsCut
  <2>6. SubSeq(frames, 1, Len(frames) - 1) = <<>>
    BY <2>1, SubSeqEmpty
  <2> QED
    BY <2>1, <2>5, <2>6 DEF Plain!Return, Plain!Truncated, Plain!Depth, Contents
<1>11. ASSUME Reset
       PROVE  Plain!Reset
  <2>1. stackDepth' = 0 /\ frames' = <<>> /\ result' = result
    BY <1>11 DEF Reset
  <2>2. Contents' \in Seq(Value) /\ Len(Contents') = 0
    BY <1>0, <2>1 DEF ContentsFacts
  <2>3. Contents' = <<>>
    BY <2>2, EmptySeq
  <2> QED
    BY <2>1, <2>3 DEF Plain!Reset, Contents
<1>12. CASE CollectGarbage
  <2>1. stackDepth' = stackDepth /\ frames' = frames /\ result' = result
    BY <1>12 DEF CollectGarbage
  <2>2. \A i \in 0..(stackDepth - 1) : At(i)' = At(i)
    BY <1>12, InvCollect
  <2>3. Contents' = Contents
    BY <1>0, <2>1, <2>2, ContentsKept
  <2> QED
    BY <2>1, <2>3 DEF Plain!vars, Contents
<1>13. CASE IntegrateGCResponse
  <2>1. stackDepth' = stackDepth /\ frames' = frames /\ result' = result
    BY <1>13 DEF IntegrateGCResponse
  <2>2. \A i \in 0..(stackDepth - 1) : At(i)' = At(i)
    BY <1>13, AtIntegrate
  <2>3. Contents' = Contents
    BY <1>0, <2>1, <2>2, ContentsKept
  <2> QED
    BY <2>1, <2>3 DEF Plain!vars, Contents
<1>14. CASE CopyC \/ CopyB \/ UNCHANGED vars
  <2>1. UNCHANGED <<a, b, c, abi, bbi, cbi, stackDepth, frames, result>>
    BY <1>14 DEF CopyC, CopyB, vars, stack_vars, frame_vars
  <2>2. Contents' = Contents
    BY <2>1 DEF Contents, Slice, ValueAt, Regions
  <2> QED
    BY <2>1, <2>2 DEF Plain!vars, Contents
<1>15. CASE \E v \in Value : Push(v) \/ EnterScript(v)
  BY <1>2, <1>3, <1>15 DEF Plain!Next
<1>16. CASE \E n \in 1..MaxDepth : Discard(n)
  BY <1>4, <1>16 DEF Plain!Next, Plain!Depth, Contents
<1>17. CASE \E k \in 0..MaxDepth : SetLocal(k) \/ SetUpvalue(k) \/ Call(k)
  <2>1. PICK k \in 0..MaxDepth : SetLocal(k) \/ SetUpvalue(k) \/ Call(k)
    BY <1>17
  <2>2. CASE SetLocal(k) \/ SetUpvalue(k)
    BY <1>5, <1>6, <2>2 DEF Plain!Next, Plain!Depth, Contents
  <2>3. CASE Call(k)
    BY <1>7, <2>3 DEF Plain!Next, Plain!Depth, Contents
  <2> QED
    BY <2>1, <2>2, <2>3
<1>18. CASE BeginReturn \/ Return \/ ReturnFromScript \/ Reset
  BY <1>8, <1>9, <1>10, <1>11, <1>18 DEF Plain!Next
<1> QED
  BY <1>12, <1>13, <1>14, <1>15, <1>16, <1>17, <1>18 DEF Next, MainNext, GcNext

\* To the program the three arrays are one stack: freezing, condensing,
\* integrating and moving slots back into A are invisible, and every push, pop,
\* assignment, call and return does what it would do to one array.
THEOREM Refinement ==
  ASSUME ~FrozenUpvalues
  PROVE  Spec => StackSpec
<1>1. Init => Plain!Init
  <2> SUFFICES ASSUME Init
               PROVE  Plain!Init
    OBVIOUS
  <2>1. ContentsFacts /\ stackDepth = 0 /\ frames = <<>> /\ result = None
    BY InvInit, ContentsIs DEF Init
  <2>2. Contents = <<>>
    BY <2>1, EmptySeq DEF ContentsFacts
  <2> QED
    BY <2>1, <2>2 DEF Plain!Init, Contents
<1>2. Inv /\ Inv' /\ CondensedIsCurrent /\ [Next]_vars => [Plain!Next]_(Plain!vars)
  BY StepRefines
<1>3. Spec => []CondensedIsCurrent
  BY CondensedStaysCurrent
<1> QED
  BY <1>1, <1>2, <1>3, SpecInv, PTL DEF Spec, StackSpec, Plain!Spec
=============================================================================
