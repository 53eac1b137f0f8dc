--------------------------- MODULE ObjTableKeptProofs ---------------------------
(***************************************************************************)
(* Proofs that the collector loses no object the program can still get at, *)
(* whatever the program does while it marks and consolidates, as long as   *)
(* no collection starts while a C++ local alone holds an object, or while  *)
(* fields refer to different objects that are equal; and that, as nothing  *)
(* is lost, the table implements the plain heap.                           *)
(***************************************************************************)
EXTENDS ObjTableProofs

-----------------------------------------------------------------------------
(***************************************************************************)
(* The inductive invariant.                                                *)
(***************************************************************************)

\* What was live when the layers were frozen: it resolves in B or C and the
\* collection before did not flag it.
FrozenLive == {o \in ObjIds : (Has(b, o) \/ Has(c, o)) /\ o \notin c.white}

\* What the request's roots lead to in B and C.
Snapshot ==
  {o \in ObjIds :
     \A S \in SUBSET ObjIds :
       (req_roots \subseteq S /\ \A p \in S : Leaves(p) \subseteq S) => o \in S}

\* What was made since the layers were frozen.
Fresh == {o \in ObjIds : Has(a, o) /\ b.at[o] = Absent /\ c.at[o] = Absent}

\* The ids this collection must not lose: between collections, all that resolve
\* and are not flagged; during one, the snapshot and the new objects.
Kept ==
  IF gcpc = "idle" THEN {o \in ObjIds : Resolves(o) /\ o \notin b.white}
  ELSE Snapshot \cup Fresh

\* The program holds, and has written, nothing but ids that are kept.
LiveInv ==
  /\ roots \cup held \subseteq Kept
  /\ \A o \in ObjIds : Has(a, o) => o \in Kept /\ Refs(In(a, o)) \subseteq Kept
  /\ gcpc = "idle" =>
       /\ \A o \in b.white : a.at[o] = Tomb
       /\ \A o \in Kept : Refs(In(b, o)) \subseteq Kept
  /\ gcpc # "idle" =>
       /\ req_roots \subseteq FrozenLive
       /\ \A o \in FrozenLive : Leaves(o) \subseteq FrozenLive

\* What is dark was live, holds the roots, and refers to nothing that is not dark,
\* the gray objects apart.
MarkInv ==
  gcpc \notin {"idle", "roots"} =>
    /\ req_roots \subseteq dark
    /\ dark \subseteq FrozenLive
    /\ \A o \in dark \ gray : Leaves(o) \subseteq dark

\* The copy of a dark object refers to dark objects.
CopiedRefs ==
  \A o \in ObjIds : o \in dark /\ Has(new_b, o) => Refs(In(new_b, o)) \subseteq dark

KeptInv == LiveInv /\ MarkInv /\ CopiedRefs
-----------------------------------------------------------------------------
(***************************************************************************)
(* What is kept is closed under references.                                *)
(***************************************************************************)

LEMMA LayersTyped ==
  ASSUME TypeInv
  PROVE  /\ a \in Layer /\ b \in Layer /\ c \in Layer /\ new_b \in Layer
         /\ dark \subseteq ObjIds /\ Known \subseteq ObjIds
         /\ roots \cup held \cup req_roots \subseteq Known
  BY KnownIds DEF TypeInv, TypeOK, LayerOver, Known

LEMMA EmptyIn ==
  ASSUME NEW l, NEW o, ~Has(l, o)
  PROVE  In(l, o) = Empty /\ Refs(In(l, o)) = {}
  BY EmptyContents DEF In

\* What an object shows is what the program wrote or what it led to when frozen.
LEMMA ViewRefs ==
  ASSUME TypeInv, NEW o \in ObjIds
  PROVE  /\ Refs(View(a, b, c, o)) \subseteq Refs(In(a, o)) \cup Leaves(o)
         /\ Has(a, o) /\ o \notin Layered => View(a, b, c, o) = In(a, o)
<1>1. In(a, o) \in Contents /\ In(b, o) \in Contents /\ In(c, o) \in Contents
  BY LayersTyped, InLayer
<1>2. /\ Over(In(b, o), In(c, o)) \in Contents
      /\ Refs(Over(In(b, o), In(c, o))) \subseteq Refs(In(b, o)) \cup Refs(In(c, o))
  BY <1>1, OverContents
<1> DEFINE y == Over(In(b, o), In(c, o))
<1>3. Refs(Over(In(a, o), y)) \subseteq Refs(In(a, o)) \cup Refs(y)
  BY <1>1, <1>2, OverContents
<1>4. o \in Layered => Refs(In(b, o)) \cup Refs(In(c, o)) \subseteq Leaves(o)
  BY EmptyIn DEF Leaves
<1> QED
  BY <1>2, <1>3, <1>4 DEF View, Leaves

LEMMA SnapshotLeast ==
  ASSUME NEW S \in SUBSET ObjIds, req_roots \subseteq S, \A p \in S : Leaves(p) \subseteq S
  PROVE  Snapshot \subseteq S
  BY DEF Snapshot

LEMMA SnapshotClosed ==
  ASSUME TypeInv
  PROVE  /\ req_roots \subseteq Snapshot
         /\ \A o \in Snapshot : Leaves(o) \subseteq Snapshot
<1>1. \A o \in ObjIds : Leaves(o) \subseteq ObjIds
  BY LeavesOver, LayersTyped, TypeParts
<1> QED
  BY <1>1, LayersTyped DEF Snapshot

LEMMA KeptLeaves ==
  ASSUME TypeInv, Shape, LiveInv, NEW o \in Kept
  PROVE  o \in ObjIds /\ Leaves(o) \subseteq Kept
<1>1. CASE gcpc = "idle"
  <2>1. ~Has(c, o) /\ o \in ObjIds
    BY <1>1, BlankLayer DEF Shape, LayersInv, Kept
  <2>2. Refs(In(c, o)) = {}
    BY <2>1, EmptyIn
  <2>3. Leaves(o) \subseteq Refs(In(b, o))
    BY <2>2 DEF Leaves
  <2> QED
    BY <1>1, <2>1, <2>3 DEF LiveInv
<1>2. CASE gcpc # "idle"
  <2>1. CASE o \in Snapshot
    BY <1>2, <2>1, SnapshotClosed DEF Kept, Snapshot
  <2>2. CASE o \in Fresh
    <3>1. ~Has(b, o) /\ ~Has(c, o)
      BY <2>2, ObjTableAssumption DEF Fresh, Has
    <3>2. Leaves(o) = {}
      BY <3>1, EmptyIn DEF Leaves
    <3> QED
      BY <2>2, <3>2 DEF Fresh
  <2> QED
    BY <1>2, <2>1, <2>2 DEF Kept
<1> QED
  BY <1>1, <1>2

LEMMA KeptView ==
  ASSUME TypeInv, Shape, LiveInv, NEW o \in Kept
  PROVE  o \in ObjIds /\ Refs(View(a, b, c, o)) \subseteq Kept
<1>1. o \in ObjIds /\ Leaves(o) \subseteq Kept
  BY KeptLeaves
<1>2. Refs(In(a, o)) \subseteq Kept
  BY <1>1, EmptyIn DEF LiveInv
<1> QED
  BY <1>1, <1>2, ViewRefs

\* Once nothing is gray, the whole snapshot is dark.
LEMMA SnapshotDark ==
  ASSUME TypeInv, MarkInv, gcpc \notin {"idle", "roots"}, gray = {}
  PROVE  Snapshot \subseteq dark
  BY LayersTyped, SnapshotLeast DEF MarkInv

LEMMA SnapshotLive ==
  ASSUME LiveInv, gcpc # "idle"
  PROVE  Snapshot \subseteq FrozenLive
  BY SnapshotLeast DEF LiveInv, FrozenLive

\* What a step leaves unchanged when it touches none of the frozen layers.
LEMMA SameSnapshot ==
  ASSUME UNCHANGED <<b, c, req_roots>>
  PROVE  /\ FrozenLive' = FrozenLive
         /\ Snapshot' = Snapshot
         /\ \A o : (Leaves(o))' = Leaves(o)
<1>1. \A o : (Leaves(o))' = Leaves(o)
  BY DEF Leaves, In, Has
<1>2. Snapshot' = Snapshot
  BY <1>1 DEF Snapshot
<1> QED
  BY <1>1, <1>2 DEF FrozenLive, Has
-----------------------------------------------------------------------------
(***************************************************************************)
(* Between collections, and during one, the program keeps to what is kept. *)
(***************************************************************************)

LEMMA LiveInit == Init => KeptInv
<1> SUFFICES ASSUME Init PROVE KeptInv
  OBVIOUS
<1>1. \A o \in ObjIds : ~Has(a, o) /\ ~Has(b, o) /\ ~Has(c, o) /\ ~Has(new_b, o)
                        /\ b.white = {} /\ gcpc = "idle"
  BY BlankLayer DEF Init
<1>2. Kept = {} /\ b.white = {}
  BY <1>1, BlankLayer DEF Init, Kept, Resolves
<1>3. LiveInv
  BY <1>1, <1>2 DEF Init, LiveInv
<1>4. MarkInv /\ CopiedRefs
  BY DEF Init, MarkInv, CopiedRefs
<1> QED
  BY <1>3, <1>4 DEF KeptInv

\* The program writes contents that are kept into an object that is.
LEMMA PutLive ==
  ASSUME TypeInv, Shape, LiveInv,
         NEW o \in Kept, NEW x \in Contents, Refs(x) \subseteq Kept,
         a' = Put(a, o, x), UNCHANGED <<main, b, c, request, gcpc>>
  PROVE  LiveInv'
<1>0. /\ o \in ObjIds /\ a \in Layer
      /\ UNCHANGED <<roots, held, req_roots>>
      /\ a.at \in [ObjIds -> ObjIds \cup {Absent, Tomb}]
      /\ a.cell \in [ObjIds -> Contents]
  BY KeptLeaves, LayersTyped DEF main, request, Layer
<1>1. a'.at = [a.at EXCEPT ![o] = o] /\ a'.cell = [a.cell EXCEPT ![o] = x]
  BY DEF Put
<1>2. ASSUME NEW q \in ObjIds
      PROVE  /\ Has(a, q)' <=> Has(a, q) \/ q = o
             /\ q # o /\ Has(a, q) => In(a, q)' = In(a, q)
             /\ In(a, o)' = x
  BY <1>0, <1>1 DEF Has, In, Shape, LayersInv
<1>3. FrozenLive' = FrozenLive /\ Snapshot' = Snapshot /\ \A q : (Leaves(q))' = Leaves(q)
  BY <1>0, SameSnapshot
<1>4. Kept' = Kept
  <2>1. CASE gcpc = "idle"
    <3>1. Resolves(o) /\ o \notin b.white
      BY <2>1 DEF Kept
    <3>2. \A q \in ObjIds : Resolves(q)' <=> Resolves(q)
      BY <1>2, <3>1 DEF Resolves, Has
    <3> QED
      BY <2>1, <3>2 DEF Kept
  <2>2. CASE gcpc # "idle"
    <3>1. Fresh' \subseteq Fresh \cup {o} /\ Fresh \subseteq Fresh'
      BY <1>0, <1>2 DEF Fresh
    <3> QED
      BY <1>3, <2>2, <3>1 DEF Kept
  <2> QED
    BY <2>1, <2>2
<1>5. ASSUME NEW q \in ObjIds, Has(a, q)'
      PROVE  q \in Kept /\ Refs(In(a, q)') \subseteq Kept
  BY <1>2, <1>5 DEF LiveInv
<1>6. gcpc = "idle" => \A q \in b.white : a'.at[q] = Tomb
  <2> SUFFICES ASSUME gcpc = "idle", NEW q \in b.white PROVE a'.at[q] = Tomb
    OBVIOUS
  <2>1. q # o /\ q \in ObjIds
    BY LayersTyped DEF Kept, Layer
  <2> QED
    BY <1>0, <1>1, <2>1 DEF LiveInv
<1>7. \A q : (In(b, q))' = In(b, q)
  BY DEF In, Has
<1>8. (\A q \in ObjIds : Has(a, q) => q \in Kept /\ Refs(In(a, q)) \subseteq Kept)'
  BY <1>4, <1>5
<1> QED
  BY <1>0, <1>3, <1>4, <1>6, <1>7, <1>8 DEF LiveInv

\* Steps that only move ids among those the program holds or can read.
LEMMA RootsLive ==
  ASSUME LiveInv, UNCHANGED <<layers, req_roots, gcpc>>, roots' \cup held' \subseteq Kept
  PROVE  LiveInv'
<1>1. FrozenLive' = FrozenLive /\ Snapshot' = Snapshot /\ \A q : (Leaves(q))' = Leaves(q)
  BY SameSnapshot DEF layers
<1>2. \A q : /\ (In(a, q))' = In(a, q) /\ (In(b, q))' = In(b, q)
             /\ Has(a, q)' = Has(a, q) /\ Resolves(q)' = Resolves(q)
  BY DEF In, Has, layers, Resolves
<1>3. Fresh' = Fresh
  BY <1>2 DEF Fresh, layers
<1>4. Kept' = Kept
  BY <1>1, <1>2, <1>3 DEF Kept, layers
<1> QED
  BY <1>1, <1>2, <1>4 DEF LiveInv, layers

LEMMA NewLive ==
  ASSUME TypeInv, Shape, LiveInv, New
  PROVE  LiveInv'
<1> DEFINE n == next_obj_id
<1>0. /\ n \in ObjIds /\ n \notin Known
      /\ a \in Layer
      /\ a.at \in [ObjIds -> ObjIds \cup {Absent, Tomb}]
      /\ a.cell \in [ObjIds -> Contents]
      /\ a' = Put(a, n, Empty)
      /\ roots' = roots \cup {n}
      /\ UNCHANGED <<held, b, c, req_roots, gcpc>>
  BY LayersTyped, ObjTableAssumption DEF New, TypeInv, TypeOK, ObjIds, Known, Layer, request
<1>1. a.at[n] = Absent /\ b.at[n] = Absent /\ c.at[n] = Absent
  BY <1>0 DEF TypeInv, LayerOver
<1>2. a'.at = [a.at EXCEPT ![n] = n] /\ a'.cell = [a.cell EXCEPT ![n] = Empty]
  BY <1>0 DEF Put
<1> HIDE DEF n
<1>3. ASSUME NEW q \in ObjIds
      PROVE  /\ (Has(a, q))' <=> Has(a, q) \/ q = n
             /\ q # n /\ Has(a, q) => (In(a, q))' = In(a, q)
             /\ q = n => (In(a, q))' = Empty
  BY <1>0, <1>2 DEF Has, In, Shape, LayersInv
<1>4. FrozenLive' = FrozenLive /\ Snapshot' = Snapshot /\ \A q : (Leaves(q))' = Leaves(q)
  BY <1>0, SameSnapshot
<1>5. \A q : (In(b, q))' = In(b, q)
  BY <1>0 DEF In, Has
<1>6. ~Has(b, n) /\ Refs(In(b, n)) = {}
  BY <1>1, EmptyIn, ObjTableAssumption DEF Has
<1>7. Kept' = Kept \cup {n}
  <2>1. CASE gcpc = "idle"
    <3>1. n \notin b.white
      BY <1>1, <2>1, ObjTableAssumption DEF LiveInv
    <3>2. \A q \in ObjIds : Resolves(q)' <=> Resolves(q) \/ q = n
      BY <1>0, <1>3 DEF Resolves, Has
    <3> QED
      BY <1>0, <2>1, <3>1, <3>2 DEF Kept
  <2>2. CASE gcpc # "idle"
    <3>1. Fresh' = Fresh \cup {n}
      BY <1>0, <1>1, <1>3 DEF Fresh
    <3> QED
      BY <1>0, <1>4, <2>2, <3>1 DEF Kept
  <2> QED
    BY <2>1, <2>2
<1>8. ASSUME NEW q \in ObjIds, (Has(a, q))'
      PROVE  q \in Kept' /\ (Refs(In(a, q)))' \subseteq Kept'
  <2>1. CASE q = n
    BY <1>3, <1>7, <2>1, EmptyContents DEF Refs
  <2>2. CASE q # n
    BY <1>3, <1>7, <1>8, <2>2 DEF LiveInv, Refs
  <2> QED
    BY <2>1, <2>2
<1>9. gcpc = "idle" => \A q \in b.white : a'.at[q] = Tomb
  <2> SUFFICES ASSUME gcpc = "idle", NEW q \in b.white PROVE a'.at[q] = Tomb
    OBVIOUS
  <2>1. a.at[q] = Tomb /\ q \in ObjIds
    BY LayersTyped DEF LiveInv, Layer
  <2> QED
    BY <1>0, <1>1, <1>2, <2>1, ObjTableAssumption
<1>10. gcpc = "idle" => \A q \in Kept' : Refs(In(b, q)) \subseteq Kept'
  BY <1>6, <1>7 DEF LiveInv
<1>11. (roots \cup held)' \subseteq Kept'
  BY <1>0, <1>7 DEF LiveInv
<1>12. (\A q \in ObjIds : Has(a, q) => q \in Kept /\ Refs(In(a, q)) \subseteq Kept)'
  BY <1>8
<1> QED
  BY <1>0, <1>4, <1>5, <1>9, <1>10, <1>11, <1>12 DEF LiveInv

\* The freeze: what was kept until now is what was live in B and C.
LEMMA CollectLive ==
  ASSUME ~CollectsAroundLocals, TypeInv, Shape, LiveInv, CollectGarbage
  PROVE  LiveInv'
<1>0. /\ gcpc = "idle" /\ gcpc' = "roots" /\ held = {}
      /\ a' = Blank /\ b' = a /\ c' = b /\ req_roots' = roots
      /\ UNCHANGED <<roots, held>>
  BY DEF CollectGarbage, main
<1>1. c = Blank /\ \A o \in ObjIds : ~Has(c, o)
  BY <1>0, BlankLayer DEF Shape, LayersInv
<1>2. FrozenLive' = Kept
  BY <1>0, <1>1 DEF FrozenLive, Kept, Resolves, Has
<1>3. ASSUME NEW o \in Kept
      PROVE  (Leaves(o))' \subseteq Kept
  <2>1. o \in ObjIds
    BY <1>3, KeptLeaves
  <2>2. (In(b, o))' = In(a, o) /\ (In(c, o))' = In(b, o)
    BY <1>0 DEF In, Has
  <2>3. (Leaves(o))' \subseteq Refs(In(a, o)) \cup Refs(In(b, o))
    BY <2>2 DEF Leaves, Refs
  <2>4. Refs(In(a, o)) \subseteq Kept /\ Refs(In(b, o)) \subseteq Kept
    BY <1>0, <1>3, <2>1, EmptyIn DEF LiveInv
  <2> QED
    BY <2>3, <2>4
<1>4. Snapshot' \subseteq Kept' /\ roots \subseteq Snapshot'
  BY <1>0, LayersTyped DEF Kept, Snapshot
<1>5. \A o \in ObjIds : ~Has(a, o)'
  BY <1>0, BlankLayer DEF Has
<1>6. roots \subseteq Kept
  BY DEF LiveInv
<1> QED
  BY <1>0, <1>2, <1>3, <1>4, <1>5, <1>6 DEF LiveInv

\* The integration: what is kept from then on is what was, and what is dark.
LEMMA IntegrateLive ==
  ASSUME TypeInv, Shape, KeptInv, IntegrateGCResponse
  PROVE  LiveInv'
<1> DEFINE i == Invalidate(a, white_list)
<1>0. /\ gcpc = "done" /\ gcpc' = "idle"
      /\ a' = i /\ b' = new_b /\ c' = Blank
      /\ UNCHANGED <<roots, held>>
      /\ gray = {}
  BY DEF IntegrateGCResponse, main, TypeInv
<1>1. /\ i.at = [o \in ObjIds |-> IF o \in white_list THEN Tomb ELSE a.at[o]]
      /\ i.cell = [o \in ObjIds |-> IF o \in white_list THEN Empty ELSE a.cell[o]]
  BY DEF Invalidate
<1> HIDE DEF i
<1>2. /\ new_b.white = white_list
      /\ white_list = {o \in ObjIds : Has(new_b, o) /\ o \notin dark}
      /\ \A o \in ObjIds : Has(new_b, o) <=>
           Has(b, o) \/ (Has(c, o) /\ o \notin c.white \ dark)
      /\ dark \subseteq ObjIds
  BY <1>0, LayersTyped DEF Shape, CopyInv, Copied, PastB, PastC
<1>3. Snapshot \subseteq dark /\ dark \subseteq FrozenLive
  BY <1>0, SnapshotDark DEF KeptInv, MarkInv
<1>4. ASSUME NEW o \in ObjIds
      PROVE  /\ Has(a, o)' <=> Has(a, o) /\ o \notin white_list
             /\ o \notin white_list => (In(a, o))' = In(a, o)
             /\ Has(b, o)' <=> Has(new_b, o)
             /\ (In(b, o))' = In(new_b, o)
             /\ ~Has(c, o)'
  BY <1>0, <1>1, BlankLayer, ObjTableAssumption DEF Has, In, Shape, LayersInv
<1>5. Kept' = {o \in ObjIds : (Has(a, o) \/ Has(new_b, o)) /\ o \notin white_list}
  BY <1>0, <1>2, <1>4 DEF Kept, Resolves
<1>6. dark \subseteq Kept'
  BY <1>2, <1>3, <1>5 DEF FrozenLive
<1>7. Fresh \subseteq Kept'
  BY <1>2, <1>5, ObjTableAssumption DEF Fresh, Has
<1>8. Kept \subseteq Kept'
  BY <1>0, <1>3, <1>6, <1>7 DEF Kept
<1>9. (roots \cup held)' \subseteq Kept'
  BY <1>0, <1>8 DEF KeptInv, LiveInv
<1>10. ASSUME NEW o \in ObjIds, Has(a, o)'
       PROVE  o \in Kept' /\ (Refs(In(a, o)))' \subseteq Kept'
  <2>1. Has(a, o) /\ (In(a, o))' = In(a, o)
    BY <1>4, <1>10
  <2> QED
    BY <1>8, <2>1 DEF KeptInv, LiveInv, Refs
<1>11. \A o \in b'.white : a'.at[o] = Tomb
  BY <1>0, <1>1, <1>2
<1>12. ASSUME NEW o \in Kept'
       PROVE  (Refs(In(b, o)))' \subseteq Kept'
  <2>1. o \in ObjIds /\ o \notin white_list
    BY <1>5, <1>12
  <2>2. (Refs(In(b, o)))' = Refs(In(new_b, o))
    BY <1>4, <2>1 DEF Refs
  <2>3. CASE Has(new_b, o)
    <3>1. o \in dark
      BY <1>2, <2>1, <2>3
    <3> QED
      BY <1>6, <2>1, <2>2, <2>3, <3>1 DEF KeptInv, CopiedRefs
  <2>4. CASE ~Has(new_b, o)
    BY <2>2, <2>4, EmptyIn
  <2> QED
    BY <2>3, <2>4
<1> QED
  BY <1>0, <1>9, <1>10, <1>11, <1>12 DEF LiveInv

LEMMA MainLive ==
  ASSUME ~CollectsAroundLocals, TypeInv, Shape, KeptInv, MainNext
  PROVE  LiveInv'
<1>0. LiveInv /\ LayerTypes /\ OtherTypes /\ roots \cup held \subseteq Kept
  BY TypeParts DEF KeptInv, LiveInv
<1>1. ASSUME NEW o \in ObjIds
      PROVE  o \in Kept => /\ Refs(MutableLayer(o)) \subseteq Kept
                           /\ Refs(Newest(o)) \subseteq Kept
  <2> SUFFICES ASSUME o \in Kept
               PROVE  Refs(MutableLayer(o)) \subseteq Kept /\ Refs(Newest(o)) \subseteq Kept
    OBVIOUS
  <2>1. Refs(In(a, o)) \subseteq Kept /\ Leaves(o) \subseteq Kept
    BY <1>0, KeptLeaves, EmptyIn DEF LiveInv
  <2>2. Refs(View(a, b, c, o)) \subseteq Kept
    BY <1>0, KeptView
  <2> QED
    BY <2>1, <2>2, EmptyContents DEF MutableLayer, Newest, Leaves
<1>2. ASSUME NEW o \in ObjIds, NEW f \in Field, NEW v \in ObjIds, SetField(o, f, v)
      PROVE  LiveInv'
  <2> DEFINE x == [MutableLayer(o) EXCEPT ![f] = v]
  <2>1. /\ o \in Kept /\ v \in Kept
        /\ a' = Put(a, o, x)
        /\ UNCHANGED <<main, b, c, request, gcpc>>
    BY <1>0, <1>2 DEF SetField
  <2>2. x \in Contents /\ Refs(x) \subseteq Refs(MutableLayer(o)) \cup {v}
    BY <1>0, MutableOver, FieldWritten
  <2> HIDE DEF x
  <2> QED
    BY <1>0, <1>1, <2>1, <2>2, PutLive
<1>3. ASSUME NEW o \in ObjIds, NEW p \in ObjIds, Inherit(o, p)
      PROVE  LiveInv'
  <2> DEFINE x == Over(Newest(p), MutableLayer(o))
  <2>1. /\ o \in Kept /\ p \in Kept
        /\ a' = Put(a, o, x)
        /\ UNCHANGED <<main, b, c, request, gcpc>>
    BY <1>0, <1>3 DEF Inherit
  <2>2. x \in Contents /\ Refs(x) \subseteq Refs(Newest(p)) \cup Refs(MutableLayer(o))
    BY <1>0, MutableOver, NewestOver, OverContents
  <2> HIDE DEF x
  <2> QED
    BY <1>0, <1>1, <2>1, <2>2, PutLive
<1>4. ASSUME NEW o \in ObjIds, NEW f \in Field, GetField(o, f)
      PROVE  LiveInv'
  <2> DEFINE x == View(a, b, c, o)
  <2>1. x \in Contents /\ Refs(x) \subseteq Kept
    BY <1>0, <1>4, ViewOver, KeptView DEF LayerTypes, GetField
  <2>2. x[f] # None /\ roots' = roots \cup {x[f]}
        /\ UNCHANGED <<held, layers, req_roots, gcpc>>
    BY <1>4 DEF GetField, request
  <2> HIDE DEF x
  <2>3. x[f] \in Kept
    BY <2>1, <2>2, ContentsRefs
  <2> QED
    BY <1>0, <2>2, <2>3, RootsLive
<1>5. ASSUME NEW o \in ObjIds, Drop(o) \/ PopToLocal(o)
      PROVE  LiveInv'
  <2>1. UNCHANGED <<layers, req_roots, gcpc>> /\ roots' \cup held' \subseteq roots \cup held
    BY <1>5 DEF Drop, PopToLocal, request
  <2> QED
    BY <1>0, <2>1, RootsLive
<1>6. CASE PushLocal \/ FinishCompile
  <2>1. UNCHANGED <<layers, req_roots, gcpc>> /\ roots' \cup held' \subseteq roots \cup held
    BY <1>6 DEF PushLocal, FinishCompile, request
  <2> QED
    BY <1>0, <2>1, RootsLive
<1> QED
  BY <1>0, <1>2, <1>3, <1>4, <1>5, <1>6, NewLive, CollectLive, IntegrateLive DEF MainNext

\* To the program the GC thread's steps change nothing.
LEMMA GcLive ==
  ASSUME LiveInv, gcpc # "idle", gcpc' # "idle", UNCHANGED <<main, layers, request>>
  PROVE  LiveInv'
<1>1. FrozenLive' = FrozenLive /\ Snapshot' = Snapshot /\ \A q : (Leaves(q))' = Leaves(q)
  BY SameSnapshot DEF layers, request
<1>2. \A q : (In(a, q))' = In(a, q) /\ Has(a, q)' = Has(a, q)
  BY DEF In, Has, layers
<1>3. Fresh' = Fresh
  BY <1>2 DEF Fresh, layers
<1>4. Kept' = Kept
  BY <1>1, <1>3 DEF Kept
<1> QED
  BY <1>1, <1>2, <1>4 DEF LiveInv, main, request
-----------------------------------------------------------------------------
(***************************************************************************)
(* Marking and copying.                                                    *)
(***************************************************************************)

LEMMA SameMark ==
  ASSUME MarkInv, UNCHANGED <<b, c, req_roots, gray, dark>>,
         gcpc' \notin {"idle", "roots"} => gcpc \notin {"idle", "roots"}
  PROVE  MarkInv'
<1>1. FrozenLive' = FrozenLive /\ \A q : (Leaves(q))' = Leaves(q)
  BY SameSnapshot
<1> QED
  BY <1>1 DEF MarkInv

LEMMA GcMark ==
  ASSUME TypeInv, Shape, LiveInv, MarkInv, GcNext
  PROVE  MarkInv'
<1>1. CASE MarkRoots
  <2>1. /\ gcpc = "roots" /\ UNCHANGED <<b, c, req_roots>>
        /\ req_exec_phase = "PREPARE_REQUEST"
    BY <1>1 DEF MarkRoots, Shape, LayersInv, layers, request
  <2>2. gray' = req_roots /\ dark' = req_roots
    BY <1>1, <2>1 DEF MarkRoots
  <2>3. FrozenLive' = FrozenLive
    BY <2>1, SameSnapshot
  <2> QED
    BY <2>1, <2>2, <2>3 DEF MarkInv, LiveInv
<1>2. ASSUME NEW o \in ObjIds, GrayObjectLeaves(o)
      PROVE  MarkInv'
  <2>1. /\ gcpc = "leaves" /\ gcpc' = "leaves" /\ o \in gray
        /\ gray' = (gray \ {o}) \cup (Leaves(o) \ dark)
        /\ dark' = dark \cup Leaves(o)
        /\ UNCHANGED <<b, c, req_roots>>
    BY <1>2 DEF GrayObjectLeaves, layers, request
  <2>2. FrozenLive' = FrozenLive /\ \A q : (Leaves(q))' = Leaves(q)
    BY <2>1, SameSnapshot
  <2>3. o \in dark
    BY <2>1 DEF TypeInv, TypeOK
  <2>4. dark' \subseteq FrozenLive
    BY <2>1, <2>3 DEF MarkInv, LiveInv
  <2>5. \A q \in dark' \ gray' : Leaves(q) \subseteq dark'
    BY <2>1, <2>3 DEF MarkInv
  <2> QED
    BY <2>1, <2>2, <2>4, <2>5 DEF MarkInv
<1>3. CASE MarkingDone \/ CopyB \/ CopyC \/ CompareForever
  <2>1. UNCHANGED <<b, c, req_roots, gray, dark>> /\ gcpc \notin {"idle", "roots"}
    BY <1>3 DEF MarkingDone, CopyB, CopyC, CompareForever, layers, request, gc
  <2> QED
    BY <2>1, SameMark
<1> QED
  BY <1>1, <1>2, <1>3 DEF GcNext

LEMMA BlankCopiedRefs ==
  ASSUME new_b' = Blank
  PROVE  CopiedRefs'
  BY BlankLayer DEF CopiedRefs, Has

LEMMA SameCopiedRefs ==
  ASSUME CopiedRefs, UNCHANGED <<new_b, dark>>
  PROVE  CopiedRefs'
  BY DEF CopiedRefs, Has, In, Refs

\* new_b gets an entry for o that leads to contents x.
LEMMA RefsAdded ==
  ASSUME CopyInv, CopiedRefs, new_b \in Layer, dark' = dark, dark \subseteq ObjIds,
         NEW o \in ObjIds, NEW p \in ObjIds, ~Has(new_b, o), p = o \/ new_b.at[p] = p,
         NEW x, o \in dark => Refs(x) \subseteq dark,
         new_b'.at = [new_b.at EXCEPT ![o] = p],
         new_b'.cell[p] = x,
         \A q \in ObjIds : q # p => new_b'.cell[q] = new_b.cell[q],
         Has(new_b, p) => new_b.cell[p] = x
  PROVE  CopiedRefs'
<1>0. new_b.at \in [ObjIds -> ObjIds \cup {Absent, Tomb}]
  BY DEF Layer
<1>1. ASSUME NEW q \in dark, q # o, Has(new_b, q)'
      PROVE  (Refs(In(new_b, q)))' \subseteq dark
  <2>1. new_b'.at[q] = new_b.at[q] /\ Has(new_b, q) /\ q \in ObjIds
    BY <1>0, <1>1 DEF Has
  <2> DEFINE r == new_b.at[q]
  <2>2. r \in ObjIds /\ new_b.at[r] = r
    BY <2>1 DEF Has, CopyInv
  <2>3. new_b'.cell[r] = new_b.cell[r]
    BY <2>2 DEF Has
  <2>4. (In(new_b, q))' = In(new_b, q)
    BY <1>1, <2>1, <2>3 DEF In, Has
  <2> QED
    BY <1>1, <2>1, <2>4 DEF CopiedRefs, Refs
<1>2. (In(new_b, o))' = x
  BY <1>0 DEF In, Has
<1>3. o \in dark => (Refs(In(new_b, o)))' \subseteq dark
  BY <1>2 DEF Refs
<1> QED
  BY <1>1, <1>3 DEF CopiedRefs

LEMMA CopyRefs ==
  ASSUME ~EqualReferents, TypeInv, Shape, RefsInv, MarkInv, CopiedRefs, CopyB \/ CopyC,
         NEW o \in ObjIds, o = cursor
  PROVE  CopiedRefs'
<1>0. /\ CopyInv /\ new_b \in Layer /\ b \in Layer /\ c \in Layer
      /\ UNCHANGED <<b, c, dark>>
      /\ dark \subseteq ObjIds
      /\ new_b.cell \in [ObjIds -> Contents]
  BY LayersTyped DEF Shape, CopyB, CopyC, layers, Layer
<1>1. o \in dark => Leaves(o) \subseteq dark
  BY DEF MarkInv, TypeInv, CopyB, CopyC
<1>2. ASSUME NEW x, x = In(b, o) \/ x = In(c, o), ~Has(new_b, o),
             o \in dark => Refs(x) \subseteq dark,
             NEW p \in EqualCells(o, x), new_b' = Share(o, p)
      PROVE  CopiedRefs'
  <2>1. p \in ObjIds /\ new_b.at[p] = p
    BY <1>0, SharedCell
  <2>2. new_b.cell[p] = x
    BY <1>2, ExactCell DEF CopyB, CopyC
  <2>3. new_b'.at = [new_b.at EXCEPT ![o] = p] /\ new_b'.cell = new_b.cell
    BY <1>0, <1>2, <2>1, ShareLayer
  <2> QED
    BY <1>0, <1>2, <2>1, <2>2, <2>3, RefsAdded
<1>3. ASSUME NEW x \in Contents, ~Has(new_b, o), o \in dark => Refs(x) \subseteq dark,
             new_b' = Clone(o, x)
      PROVE  CopiedRefs'
  <2>1. /\ new_b'.at = [new_b.at EXCEPT ![o] = o]
        /\ new_b'.cell = [new_b.cell EXCEPT ![o] = x]
    BY <1>0, <1>3, CloneLayer
  <2>2. new_b'.cell[o] = x /\ \A q \in ObjIds : q # o => new_b'.cell[q] = new_b.cell[q]
    BY <1>0, <2>1
  <2> QED
    BY <1>0, <1>3, <2>1, <2>2, RefsAdded
<1>4. CASE CopyB
  <2> DEFINE x == In(b, o)
  <2>1. x \in Contents /\ ~Has(new_b, o)
    BY <1>0, <1>4, InLayer, PassedB DEF CopyInv, CopyB
  <2>2. Has(b, o) => Refs(x) \subseteq Leaves(o)
    BY DEF Leaves
  <2>3. \/ UNCHANGED new_b
        \/ Has(b, o) /\ \E p \in EqualCells(o, x) : new_b' = Share(o, p)
        \/ Has(b, o) /\ new_b' = Clone(o, x)
    BY <1>4 DEF CopyB
  <2>4. x = In(b, o) \/ x = In(c, o)
    OBVIOUS
  <2> HIDE DEF x
  <2> QED
    BY <1>0, <1>1, <1>2, <1>3, <2>1, <2>2, <2>3, <2>4, SameCopiedRefs
<1>5. CASE CopyC
  <2> DEFINE x == In(c, o)
  <2>1. x \in Contents
    BY <1>0, InLayer
  <2>2. Has(new_b, o) <=> Has(b, o)
    BY <1>0, <1>5, PassedC DEF CopyInv, Copied, PastB, CopyC
  <2>3. ~Has(b, o) \/ o \in Layered => Refs(x) \subseteq Leaves(o)
    BY DEF Leaves
  <2>4. \/ UNCHANGED new_b
        \/ Has(new_b, o) /\ new_b' = MergeC(o)
        \/ ~Has(new_b, o) /\ \E p \in EqualCells(o, x) : new_b' = Share(o, p)
        \/ ~Has(new_b, o) /\ new_b' = Clone(o, x)
    BY <1>5 DEF CopyC
  <2>5. CASE Has(new_b, o) /\ new_b' = MergeC(o)
    <3>1. CASE ~(o \in Layered /\ o \notin new_b.white)
      BY <1>0, <2>5, <3>1, SameCopiedRefs DEF MergeC
    <3>2. CASE o \in Layered /\ o \notin new_b.white
      <4> DEFINE r == new_b.at[o]
                 y == Over(In(new_b, o), x)
      <4>1. /\ new_b'.at = new_b.at
            /\ new_b'.cell = [new_b.cell EXCEPT ![r] = y]
        BY <1>0, <2>5, <3>2, MergeLayer
      <4>2. o \in dark
        BY <1>0, <2>5, <3>2 DEF CopyInv
      <4>3. Refs(y) \subseteq Refs(In(new_b, o)) \cup Refs(x)
        BY <1>0, <2>1, InLayer, OverContents
      <4>4. Refs(y) \subseteq dark
        BY <1>1, <2>3, <2>5, <3>2, <4>2, <4>3 DEF CopiedRefs
      <4> HIDE DEF y, x
      <4>5. ASSUME NEW q \in dark, Has(new_b, q)'
            PROVE  (Refs(In(new_b, q)))' \subseteq dark
        <5>1. q \in ObjIds /\ Has(new_b, q)
          BY <1>0, <4>1, <4>5 DEF Has
        <5>2. (In(new_b, q))' = IF new_b.at[q] = r THEN y ELSE In(new_b, q)
          BY <1>0, <4>1, <4>5, <5>1 DEF In, Has
        <5> QED
          BY <4>4, <5>1, <5>2 DEF CopiedRefs, Refs
      <4> QED
        BY <1>0, <4>5 DEF CopiedRefs
    <3> QED
      BY <3>1, <3>2
  <2>6. x = In(b, o) \/ x = In(c, o)
    OBVIOUS
  <2> HIDE DEF x
  <2> QED
    BY <1>0, <1>1, <1>2, <1>3, <2>1, <2>2, <2>3, <2>4, <2>5, <2>6, SameCopiedRefs
<1> QED
  BY <1>4, <1>5

LEMMA KeptStep ==
  ASSUME ~CollectsAroundLocals, ~EqualReferents, TypeInv, Shape, RefsInv, KeptInv, [Next]_vars
  PROVE  KeptInv'
<1>0. LiveInv /\ MarkInv /\ CopiedRefs /\ cursor \in ObjIds
  BY DEF KeptInv, TypeInv, TypeOK, ObjIds
<1>1. CASE MainNext
  <2>1. LiveInv'
    BY <1>1, MainLive
  <2>2. \/ UNCHANGED <<b, c, request, gcpc, gc>>
        \/ gcpc' \in {"idle", "roots"} /\ UNCHANGED gc /\ CollectGarbage
        \/ gcpc' \in {"idle", "roots"} /\ new_b' = Blank
    BY <1>1 DEF MainNext, New, SetField, Inherit, GetField, Drop, PopToLocal, PushLocal,
                FinishCompile, CollectGarbage, IntegrateGCResponse, layers
  <2>3. MarkInv'
    BY <1>0, <2>2, SameMark DEF MarkInv, request, gc
  <2>4. CopiedRefs'
    BY <1>0, <2>2, SameCopiedRefs, BlankCopiedRefs DEF gc
  <2> QED
    BY <2>1, <2>3, <2>4 DEF KeptInv
<1>2. CASE GcNext
  <2>1. gcpc # "idle" /\ gcpc' # "idle" /\ UNCHANGED <<main, layers, request>>
    BY <1>2 DEF GcNext, MarkRoots, GrayObjectLeaves, MarkingDone, CopyB, CopyC,
                CompareForever, Visited
  <2>2. LiveInv'
    BY <1>0, <2>1, GcLive
  <2>3. MarkInv'
    BY <1>0, <1>2, GcMark
  <2>4. CASE MarkRoots \/ (\E o \in ObjIds : GrayObjectLeaves(o)) \/ MarkingDone
    <3>1. new_b' = Blank
      BY <2>4 DEF MarkRoots, GrayObjectLeaves, MarkingDone, Shape, CopyInv, Consolidating
    <3> QED
      BY <2>2, <2>3, <3>1, BlankCopiedRefs DEF KeptInv
  <2>5. CASE CopyB \/ CopyC
    BY <1>0, <2>2, <2>3, <2>5, CopyRefs DEF KeptInv
  <2>6. CASE CompareForever
    BY <1>0, <2>2, <2>3, <2>6, SameCopiedRefs DEF KeptInv, CompareForever, gc
  <2> QED
    BY <1>2, <2>4, <2>5, <2>6 DEF GcNext
<1>3. CASE UNCHANGED vars
  <2>1. /\ UNCHANGED <<layers, req_roots, gcpc>> /\ roots' \cup held' \subseteq Kept
        /\ UNCHANGED <<b, c, gray, dark, new_b>>
    BY <1>0, <1>3 DEF vars, main, layers, request, gc, LiveInv
  <2> QED
    BY <1>0, <2>1, RootsLive, SameMark, SameCopiedRefs DEF KeptInv
<1> QED
  BY <1>1, <1>2, <1>3 DEF Next

LEMMA KeptInvariance ==
  ASSUME ~CollectsAroundLocals, ~EqualReferents
  PROVE  Spec => [](TypeInv /\ Shape /\ RefsInv /\ KeptInv)
<1>1. TypeInv /\ Shape /\ RefsInv /\ KeptInv /\ [Next]_vars => KeptInv'
  BY KeptStep
<1> QED
  BY <1>1, LiveInit, RefsInvariance, PTL DEF Spec
-----------------------------------------------------------------------------
LEMMA AccessibleKept ==
  ASSUME TypeInv, Shape, LiveInv
  PROVE  Accessible \subseteq Kept
<1> DEFINE ob == [o \in ObjIds |-> View(a, b, c, o)]
<1>1. Kept \in SUBSET DOMAIN ob /\ roots \cup held \subseteq Kept
  BY KeptLeaves DEF LiveInv
<1>2. \A o \in Kept : Program!Refs(ob[o]) \subseteq Kept
  BY KeptView DEF Program!Refs, Refs
<1> HIDE DEF ob
<1>3. Program!Reachable(roots \cup held, ob) \subseteq Kept
  BY <1>1, <1>2 DEF Program!Reachable
<1> QED
  BY <1>3 DEF Accessible, ob

LEMMA KeptIsSafe ==
  ASSUME TypeInv, Shape, KeptInv, NEW o \in Kept
  PROVE  /\ Resolves(o)
         /\ a.at[o] # Tomb
         /\ o \notin new_b.white
         /\ ~Has(a, o) => o \notin b.white
<1>0. o \in ObjIds /\ LiveInv /\ MarkInv
  BY KeptLeaves DEF KeptInv
<1>1. CASE gcpc = "idle"
  BY <1>0, <1>1, BlankLayer DEF Kept, Shape, LayersInv, CopyInv, Consolidating
<1>2. CASE gcpc # "idle"
  <2>1. Resolves(o)
    BY <1>0, <1>2, SnapshotLive DEF Kept, Fresh, FrozenLive, Resolves
  <2>2. a.at[o] # Tomb /\ o \notin b.white
    BY <1>0, <1>2 DEF Shape, LayersInv
  <2>3. o \notin new_b.white
    <3>1. CASE ~Consolidating
      BY <3>1, BlankLayer DEF Shape, CopyInv
    <3>2. CASE Consolidating
      <4>1. o \in Snapshot => o \in dark
        BY <1>0, <1>2, <3>2, SnapshotDark DEF Consolidating, TypeInv
      <4>2. o \in Fresh => ~Has(new_b, o)
        BY <1>0, ObjTableAssumption DEF Fresh, Has, Shape, CopyInv
      <4> QED
        BY <1>0, <1>2, <4>1, <4>2 DEF Kept, Shape, CopyInv
    <3> QED
      BY <3>1, <3>2
  <2> QED
    BY <2>1, <2>2, <2>3
<1> QED
  BY <1>1, <1>2

\* No object the program can still get at is lost, whatever it reads, writes and
\* drops while a collection runs: it resolves, it is not invalidated, and no
\* collection takes it for white.  Both conditions are on what there is when a
\* collection starts, and neither is kept by the code: objtable_white_cell shows what
\* the program reads taken for white when two objects that fields refer to are equal;
\* what only OP_RETURN's local holds is not among the roots.
THEOREM AccessibleStaysKept ==
  ASSUME ~CollectsAroundLocals, ~EqualReferents
  PROVE  Spec => []AccessibleIsKept
<1>1. TypeInv /\ Shape /\ KeptInv => AccessibleIsKept
  BY AccessibleKept, KeptIsSafe DEF AccessibleIsKept, KeptInv
<1> QED
  BY <1>1, KeptInvariance, PTL

\* Whatever is on the gray stack resolves in the frozen layers, so that
\* grayObjectLeaves() may follow its offset without a test, under the conditions of
\* AccessibleStaysKept.
THEOREM GrayAlwaysResolves ==
  ASSUME ~CollectsAroundLocals, ~EqualReferents
  PROVE  Spec => []GrayResolves
<1>1. TypeInv /\ Shape /\ KeptInv => GrayResolves
  BY DEF TypeInv, TypeOK, KeptInv, MarkInv, FrozenLive, GrayResolves
<1> QED
  BY <1>1, KeptInvariance, PTL

-----------------------------------------------------------------------------
(***************************************************************************)
(* The layered object table with its concurrent collector implements the   *)
(* plain heap: every operation reads and writes what it would there, and   *)
(* freezing, marking, consolidating and integrating are stutters.          *)
(***************************************************************************)

\* What the program reads in every object.
Shown == [o \in ObjIds |-> View(a, b, c, o)]

Held == roots \cup held

Inv == TypeInv /\ Shape /\ KeptInv /\ CoverInv /\ ValueInv
-----------------------------------------------------------------------------
(***************************************************************************)
(* Reachability.                                                           *)
(***************************************************************************)

Closed(S, ob) == \A p \in S : Refs(ob[p]) \subseteq S

LEMMA ReachDef ==
  ASSUME NEW R, NEW ob
  PROVE  /\ Program!Reachable(R, ob) =
              {o \in DOMAIN ob : \A S \in SUBSET DOMAIN ob :
                                   R \subseteq S /\ Closed(S, ob) => o \in S}
         /\ Plain!Reachable(R, ob) = Program!Reachable(R, ob)
         /\ Plain!Live(R, ob) = [o \in Program!Reachable(R, ob) |-> ob[o]]
  BY DEF Program!Reachable, Program!Refs, Plain!Reachable, Plain!Refs, Plain!Live,
         Refs, Closed

\* The reachable objects are the least closed set that holds the roots.
LEMMA ReachClosed ==
  ASSUME NEW R, NEW ob, R \subseteq DOMAIN ob, Closed(DOMAIN ob, ob)
  PROVE  /\ Program!Reachable(R, ob) \subseteq DOMAIN ob
         /\ R \subseteq Program!Reachable(R, ob)
         /\ Closed(Program!Reachable(R, ob), ob)
<1> DEFINE X == {o \in DOMAIN ob : \A S \in SUBSET DOMAIN ob :
                                     R \subseteq S /\ Closed(S, ob) => o \in S}
<1>1. Closed(X, ob)
  BY DEF Closed
<1> QED
  BY <1>1, ReachDef

LEMMA ReachLeast ==
  ASSUME NEW R, NEW ob, NEW S \in SUBSET DOMAIN ob, R \subseteq S, Closed(S, ob)
  PROVE  Program!Reachable(R, ob) \subseteq S
  BY ReachDef

\* Objects outside a closed set that holds the roots do not matter.
LEMMA ReachWithin ==
  ASSUME NEW R, NEW ob, NEW g, DOMAIN g \subseteq DOMAIN ob, R \subseteq DOMAIN g,
         \A p \in DOMAIN g : g[p] = ob[p], Closed(DOMAIN g, ob)
  PROVE  /\ Program!Reachable(R, g) = Program!Reachable(R, ob)
         /\ Program!Reachable(R, ob) \subseteq DOMAIN g
<1> DEFINE A == DOMAIN g
<1>1. Program!Reachable(R, ob) \subseteq A
  BY ReachLeast
<1>2. ASSUME NEW S \in SUBSET A
      PROVE  Closed(S, g) <=> Closed(S, ob)
  BY DEF Closed
<1>3. Program!Reachable(R, ob) \subseteq Program!Reachable(R, g)
  BY <1>1, <1>2, ReachDef
<1>4. ASSUME NEW o \in Program!Reachable(R, g)
      PROVE  o \in Program!Reachable(R, ob)
  <2>1. o \in A
    BY <1>4, ReachDef
  <2>2. ASSUME NEW S \in SUBSET DOMAIN ob, R \subseteq S, Closed(S, ob)
        PROVE  o \in S
    <3>1. S \cap A \in SUBSET A /\ R \subseteq S \cap A
      BY <2>2
    <3>2. Closed(S \cap A, ob)
      BY <2>2 DEF Closed
    <3>3. Closed(S \cap A, g)
      BY <1>2, <3>1, <3>2
    <3> QED
      BY <1>4, <3>1, <3>3, ReachDef
  <2> QED
    BY <2>1, <2>2, ReachDef
<1> QED
  BY <1>1, <1>3, <1>4

\* More roots among the reachable objects reach nothing new.
LEMMA ReachMore ==
  ASSUME NEW R, NEW ob, NEW T, R \subseteq DOMAIN ob, Closed(DOMAIN ob, ob),
         R \subseteq T, T \subseteq Program!Reachable(R, ob)
  PROVE  Program!Reachable(T, ob) = Program!Reachable(R, ob)
<1> DEFINE X == Program!Reachable(R, ob)
<1>1. X \in SUBSET DOMAIN ob /\ Closed(X, ob)
  BY ReachClosed
<1>2. Program!Reachable(T, ob) \subseteq X
  BY <1>1, ReachLeast
<1>3. X \subseteq Program!Reachable(T, ob)
  BY ReachDef
<1> QED
  BY <1>2, <1>3
-----------------------------------------------------------------------------
(***************************************************************************)
(* What the program can see.                                               *)
(***************************************************************************)

LEMMA ShownClosed ==
  ASSUME TypeInv
  PROVE  /\ DOMAIN Shown = ObjIds
         /\ \A o \in ObjIds : Shown[o] \in Contents /\ Refs(Shown[o]) \subseteq ObjIds
         /\ Closed(ObjIds, Shown)
         /\ Held \subseteq ObjIds
<1>1. \A o \in ObjIds : View(a, b, c, o) \in Contents
                        /\ Refs(View(a, b, c, o)) \subseteq ObjIds
  BY ViewOver, LayersTyped, TypeParts DEF LayerTypes
<1> QED
  BY <1>1, LayersTyped DEF Shown, Closed, Held

LEMMA AccessibleIs == Accessible = Program!Reachable(Held, Shown)
  BY DEF Accessible, Held, Shown

LEMMA AccessibleClosed ==
  ASSUME TypeInv
  PROVE  /\ Accessible \subseteq ObjIds
         /\ Held \subseteq Accessible
         /\ Closed(Accessible, Shown)
  BY ShownClosed, ReachClosed, AccessibleIs

LEMMA NextAccessibleIs == Accessible' = Program!Reachable(Held', Shown')
  BY DEF Accessible, Held, Shown, Program!Reachable, Program!Refs

\* The objects of the plain heap.
Objects == [o \in Accessible |-> View(a, b, c, o)]

LEMMA ObjectsShown ==
  ASSUME TypeInv
  PROVE  /\ DOMAIN Objects = Accessible
         /\ \A o \in Accessible : Objects[o] = Shown[o]
  BY AccessibleClosed DEF Objects, Shown

\* Nothing the program can see changes: a stutter.
LEMMA SameSeen ==
  ASSUME TypeInv, TypeInv', Held' = Held,
         \A o \in Accessible : Shown'[o] = Shown[o]
  PROVE  UNCHANGED Plain!vars
<1>0. /\ DOMAIN Shown = ObjIds /\ DOMAIN (Shown') = ObjIds
      /\ Accessible \subseteq ObjIds /\ Held \subseteq Accessible
      /\ Closed(Accessible, Shown)
      /\ DOMAIN Objects = Accessible
      /\ \A o \in Accessible : Objects[o] = Shown[o]
  BY ShownClosed, AccessibleClosed, ObjectsShown DEF Shown
<1>1. Program!Reachable(Held, Objects) = Program!Reachable(Held, Shown)
  BY <1>0, ReachWithin
<1>2. Closed(Accessible, Shown')
  BY <1>0 DEF Closed
<1>3. Program!Reachable(Held, Objects) = Program!Reachable(Held, Shown')
  BY <1>0, <1>2, ReachWithin
<1>4. Accessible' = Program!Reachable(Held', Shown')
  BY NextAccessibleIs
<1>5. Accessible' = Accessible
  BY <1>1, <1>3, <1>4, AccessibleIs
<1>6. \A o \in Accessible : (View(a, b, c, o))' = View(a, b, c, o)
  BY <1>0 DEF Shown
<1> QED
  BY <1>5, <1>6 DEF Plain!vars, Held
-----------------------------------------------------------------------------
(***************************************************************************)
(* The program's operations.                                               *)
(***************************************************************************)

\* Writing into A shows in the object written only.
LEMMA PutShown ==
  ASSUME TypeInv, Shape, NEW o \in ObjIds, NEW x \in Contents,
         a' = Put(a, o, x), UNCHANGED <<b, c>>
  PROVE  /\ \A q \in ObjIds \ {o} : Shown'[q] = Shown[q]
         /\ Shown'[o] = IF o \in Layered THEN Over(x, Over(In(b, o), In(c, o))) ELSE x
<1>1. a \in Layer /\ a.at \in [ObjIds -> ObjIds \cup {Absent, Tomb}]
      /\ a.cell \in [ObjIds -> Contents]
  BY DEF TypeInv, LayerOver, Layer
<1>2. a'.at = [a.at EXCEPT ![o] = o] /\ a'.cell = [a.cell EXCEPT ![o] = x]
  BY DEF Put
<1>3. ASSUME NEW q \in ObjIds
      PROVE  /\ q # o => (Has(a, q))' = Has(a, q) /\ (In(a, q))' = In(a, q)
             /\ (Has(a, o))' /\ (In(a, o))' = x
             /\ (In(b, q))' = In(b, q) /\ (In(c, q))' = In(c, q) /\ (Has(b, q))' = Has(b, q)
  BY <1>1, <1>2 DEF Has, In, Shape, LayersInv
<1>4. ASSUME NEW q \in ObjIds \ {o}
      PROVE  Shown'[q] = Shown[q]
  BY <1>3 DEF Shown, View
<1>5. Shown'[o] = IF o \in Layered THEN Over(x, Over(In(b, o), In(c, o))) ELSE x
  BY <1>3 DEF Shown, View
<1> QED
  BY <1>4, <1>5

\* What a write to an object the program can get at leaves of the plain heap.
LEMMA WriteSeen ==
  ASSUME TypeInv, TypeInv', Held' = Held, NEW o \in Accessible, NEW y,
         \A q \in ObjIds \ {o} : Shown'[q] = Shown[q],
         Shown'[o] = y, Refs(y) \subseteq Accessible
  PROVE  Objects' = Plain!Live(Held, [Objects EXCEPT ![o] = y])
<1> DEFINE g == [Objects EXCEPT ![o] = y]
<1>0. /\ DOMAIN Shown = ObjIds /\ DOMAIN (Shown') = ObjIds
      /\ Accessible \subseteq ObjIds /\ Held \subseteq Accessible
      /\ Closed(Accessible, Shown)
      /\ DOMAIN Objects = Accessible
      /\ \A q \in Accessible : Objects[q] = Shown[q]
  BY ShownClosed, AccessibleClosed, ObjectsShown DEF Shown
<1>1. DOMAIN g = Accessible /\ \A q \in Accessible : g[q] = Shown'[q]
  BY <1>0 DEF Objects
<1> HIDE DEF g
<1>2. Closed(Accessible, Shown')
  <2>1. ASSUME NEW q \in Accessible
        PROVE  Refs(Shown'[q]) \subseteq Accessible
    BY <1>0 DEF Closed
  <2> QED
    BY <2>1 DEF Closed
<1>3. /\ Program!Reachable(Held, g) = Program!Reachable(Held, Shown')
      /\ Program!Reachable(Held, Shown') \subseteq Accessible
  <2>1. /\ DOMAIN g \subseteq DOMAIN (Shown')
        /\ Held \subseteq DOMAIN g
        /\ \A q \in DOMAIN g : g[q] = Shown'[q]
        /\ Closed(DOMAIN g, Shown')
    BY <1>0, <1>1, <1>2
  <2>2. /\ Program!Reachable(Held, g) = Program!Reachable(Held, Shown')
        /\ Program!Reachable(Held, Shown') \subseteq DOMAIN g
    BY <2>1, ReachWithin
  <2> QED
    BY <1>1, <2>2
<1>4. Accessible' = Program!Reachable(Held', Shown')
  BY NextAccessibleIs
<1>5. Plain!Live(Held, g) = [q \in Accessible' |-> g[q]]
  BY <1>3, <1>4, ReachDef
<1>6. Objects' = [q \in Accessible' |-> (View(a, b, c, q))']
  BY DEF Objects
<1>7. ASSUME NEW q \in Accessible'
      PROVE  g[q] = (View(a, b, c, q))'
  <2>1. q \in Accessible /\ q \in ObjIds
    BY <1>0, <1>3, <1>4
  <2>2. Shown'[q] = (View(a, b, c, q))'
    BY <2>1 DEF Shown
  <2> QED
    BY <1>1, <2>1, <2>2
<1>8. Objects' = Plain!Live(Held, g)
  BY <1>5, <1>6, <1>7
<1> QED
  BY <1>8 DEF g

\* Dropping roots, or writing nothing, leaves of the plain heap what they reach.
LEMMA FewerSeen ==
  ASSUME TypeInv, Held' \subseteq Held, UNCHANGED layers
  PROVE  Objects' = Plain!Live(Held', Objects)
<1>0. /\ DOMAIN Shown = ObjIds
      /\ Accessible \subseteq ObjIds /\ Held \subseteq Accessible
      /\ Closed(Accessible, Shown)
      /\ DOMAIN Objects = Accessible
      /\ \A q \in Accessible : Objects[q] = Shown[q]
  BY ShownClosed, AccessibleClosed, ObjectsShown
<1>1. \A q : (View(a, b, c, q))' = View(a, b, c, q)
  BY DEF View, In, Has, layers
<1>2. Shown' = Shown
  BY <1>1 DEF Shown
<1>3. Accessible' = Program!Reachable(Held', Shown)
  <2>1. Accessible' = Program!Reachable(Held', Shown')
    BY NextAccessibleIs
  <2> QED
    BY <1>2, <2>1
<1>4. /\ Program!Reachable(Held', Objects) = Accessible'
      /\ Accessible' \subseteq Accessible
  BY <1>0, <1>3, ReachWithin
<1>5. Plain!Live(Held', Objects) = [q \in Accessible' |-> Objects[q]]
  BY <1>4, ReachDef
<1>6. Objects' = [q \in Accessible' |-> View(a, b, c, q)]
  BY <1>1 DEF Objects
<1>7. \A q \in Accessible' : Objects[q] = View(a, b, c, q)
  BY <1>4 DEF Objects
<1> QED
  BY <1>5, <1>6, <1>7

LEMMA NewSeen ==
  ASSUME Inv, TypeInv', New
  PROVE  Plain!New(next_obj_id)
<1> DEFINE n == next_obj_id
<1>0. /\ n \in ObjIds /\ n \notin Known
      /\ a' = Put(a, n, Empty) /\ UNCHANGED <<b, c>>
      /\ Held' = Held \cup {n}
      /\ TypeInv /\ Shape /\ LiveInv /\ KeptInv
  BY ObjTableAssumption DEF New, TypeInv, TypeOK, ObjIds, Known, Held, Inv, KeptInv
<1> HIDE DEF n
<1>1. ~Has(a, n) /\ ~Has(b, n) /\ ~Has(c, n)
  BY <1>0, ObjTableAssumption DEF TypeInv, LayerOver, Has
<1>2. In(a, n) = Empty /\ In(b, n) = Empty /\ In(c, n) = Empty /\ Over(Empty, Empty) = Empty
  BY <1>1, EmptyContents, OverContents DEF In
<1>3. Shown[n] = Empty
  BY <1>0, <1>2 DEF Shown, View
<1>4. \A q \in ObjIds : Shown'[q] = Shown[q]
  BY <1>0, <1>2, <1>3, PutShown, EmptyContents
<1>5. n \notin Accessible /\ n \notin Held
  BY <1>0, <1>1, AccessibleKept, KeptIsSafe, AccessibleClosed DEF Resolves
<1>6. Shown' = Shown
  BY <1>4 DEF Shown
<1>7. Accessible' = Program!Reachable(Held', Shown)
  <2>1. Accessible' = Program!Reachable(Held', Shown')
    BY NextAccessibleIs
  <2> QED
    BY <1>6, <2>1
<1>8. Accessible' = Accessible \cup {n}
  <2>0. /\ DOMAIN Shown = ObjIds /\ Accessible \subseteq ObjIds
        /\ Held \subseteq Accessible /\ Closed(Accessible, Shown) /\ Closed(ObjIds, Shown)
    BY <1>0, AccessibleClosed, ShownClosed
  <2>1. Closed(Accessible \cup {n}, Shown)
    BY <1>3, <2>0, EmptyContents DEF Closed
  <2>2. Accessible' \subseteq Accessible \cup {n}
    BY <1>0, <1>7, <2>0, <2>1, ReachLeast
  <2>3. Held \cup {n} \subseteq Accessible' /\ Closed(Accessible', Shown)
        /\ Accessible' \subseteq ObjIds
    BY <1>0, <1>7, <2>0, ReachClosed
  <2>4. Accessible \subseteq Accessible'
    BY <2>0, <2>3, ReachLeast, AccessibleIs
  <2> QED
    BY <2>2, <2>3, <2>4
<1>9. /\ DOMAIN Objects = Accessible
      /\ \A q \in Accessible : Objects[q] = View(a, b, c, q) /\ q # n
  BY <1>5 DEF Objects
<1>10. \A q \in Accessible' :
         (View(a, b, c, q))' = IF q = n THEN Empty ELSE Objects[q]
  <2>1. \A q \in ObjIds : (View(a, b, c, q))' = View(a, b, c, q)
    BY <1>4 DEF Shown
  <2>2. Accessible \subseteq ObjIds /\ View(a, b, c, n) = Empty
    BY <1>0, <1>3, AccessibleClosed DEF Shown
  <2> QED
    BY <1>0, <1>8, <1>9, <2>1, <2>2
<1>11. Objects' = [q \in DOMAIN Objects \cup {n} |-> IF q = n THEN Empty ELSE Objects[q]]
  BY <1>8, <1>9, <1>10 DEF Objects
<1>12. n \notin Held /\ Held' = Held \cup {n} /\ n \notin DOMAIN Objects
  BY <1>0, <1>5, <1>9
<1> QED
  BY <1>11, <1>12 DEF Plain!New, Plain!Empty, Empty, Held, Objects, n

LEMMA SetFieldSeen ==
  ASSUME Inv, TypeInv', NEW o \in ObjIds, NEW f \in Field, NEW v \in ObjIds,
         SetField(o, f, v)
  PROVE  Plain!SetField(o, f, v)
<1> DEFINE x == [MutableLayer(o) EXCEPT ![f] = v]
           y == [Shown[o] EXCEPT ![f] = v]
<1>0. /\ o \in Held /\ v \in Held /\ Held' = Held
      /\ a' = Put(a, o, x) /\ UNCHANGED <<b, c>>
      /\ TypeInv /\ Shape
  BY DEF SetField, main, Held, Inv
<1>1. /\ MutableLayer(o) \in Contents /\ x \in Contents
      /\ In(a, o) \in Contents /\ In(b, o) \in Contents /\ In(c, o) \in Contents
      /\ Over(In(b, o), In(c, o)) \in Contents
      /\ Shown[o] \in Contents
  BY <1>0, MutableOver, FieldWritten, LayersTyped, TypeParts, InLayer, OverContents,
     ShownClosed
<1>2. o \in Layered => MutableLayer(o) = In(a, o)
  BY DEF MutableLayer, In
<1>3. o \notin Layered => MutableLayer(o) = Shown[o]
  BY <1>0, ViewRefs DEF MutableLayer, Shown
<1>4. o \in Layered => Shown[o] = Over(In(a, o), Over(In(b, o), In(c, o)))
  BY DEF Shown, View
<1>5. Shown'[o] = IF o \in Layered THEN Over(x, Over(In(b, o), In(c, o))) ELSE x
  BY <1>0, <1>1, PutShown
<1>6. Shown'[o] = y
  <2>1. CASE o \in Layered
    <3> DEFINE z == Over(In(b, o), In(c, o))
    <3>1. Shown'[o] = Over([In(a, o) EXCEPT ![f] = v], z)
      BY <1>2, <1>5, <2>1
    <3>2. y = [Over(In(a, o), z) EXCEPT ![f] = v]
      BY <1>4, <2>1
    <3>3. z \in Contents
      BY <1>1
    <3> HIDE DEF y, z
    <3> QED
      BY <1>1, <3>1, <3>2, <3>3, ObjTableAssumption DEF Over, Contents
  <2>2. CASE o \notin Layered
    BY <1>3, <1>5, <2>2
  <2> QED
    BY <2>1, <2>2
<1>7. o \in Accessible /\ v \in Accessible /\ Refs(Shown[o]) \subseteq Accessible
  BY <1>0, AccessibleClosed DEF Closed
<1>8. Refs(y) \subseteq Accessible
  BY <1>1, <1>7, FieldWritten
<1>9. \A q \in ObjIds \ {o} : Shown'[q] = Shown[q]
  BY <1>0, <1>1, PutShown
<1> HIDE DEF x, y
<1>10. Objects' = Plain!Live(Held, [Objects EXCEPT ![o] = y])
  BY <1>0, <1>6, <1>7, <1>8, <1>9, WriteSeen
<1>11. y = [Objects[o] EXCEPT ![f] = v]
  BY <1>0, <1>7, ObjectsShown DEF y
<1> QED
  BY <1>0, <1>10, <1>11 DEF Plain!SetField, Held, Objects

LEMMA InheritSeen ==
  ASSUME ~InheritsLayers, Inv, TypeInv', NEW o \in ObjIds, NEW p \in ObjIds, Inherit(o, p)
  PROVE  Plain!Inherit(o, p)
<1> DEFINE x == Over(Newest(p), MutableLayer(o))
<1>0. /\ o \in Held /\ p \in Held /\ Held' = Held
      /\ a' = Put(a, o, x) /\ UNCHANGED <<b, c>>
      /\ Shown[o] = Empty /\ Newest(p) = Shown[p]
      /\ TypeInv /\ Shape /\ o \in Layered
  BY ObjTableAssumption DEF Inherit, main, Held, Inv, Shown
<1>1. /\ MutableLayer(o) \in Contents /\ Newest(p) \in Contents /\ x \in Contents
      /\ In(a, o) \in Contents /\ In(b, o) \in Contents /\ In(c, o) \in Contents
      /\ Over(In(b, o), In(c, o)) \in Contents
  BY <1>0, MutableOver, NewestOver, LayersTyped, TypeParts, InLayer, OverContents
<1>2. MutableLayer(o) = In(a, o)
  BY <1>0 DEF MutableLayer, In
<1>3. Over(In(a, o), Over(In(b, o), In(c, o))) = Empty
  BY <1>0 DEF Shown, View
<1>4. In(a, o) = Empty /\ Over(In(b, o), In(c, o)) = Empty
  BY <1>1, <1>3, OverEmpty
<1>5. x = Newest(p)
  BY <1>1, <1>2, <1>4, OverContents
<1>6. Shown'[o] = Over(x, Over(In(b, o), In(c, o)))
  BY <1>0, <1>1, PutShown
<1>7. Shown'[o] = Shown[p]
  BY <1>0, <1>1, <1>4, <1>5, <1>6, OverContents
<1>8. o \in Accessible /\ p \in Accessible /\ Refs(Shown[p]) \subseteq Accessible
  BY <1>0, AccessibleClosed DEF Closed
<1>9. \A q \in ObjIds \ {o} : Shown'[q] = Shown[q]
  BY <1>0, <1>1, PutShown
<1> HIDE DEF x
<1>10. Objects' = Plain!Live(Held, [Objects EXCEPT ![o] = Shown[p]])
  BY <1>0, <1>7, <1>8, <1>9, WriteSeen
<1>11. Shown[p] = Objects[p] /\ Objects[o] = Empty
  BY <1>0, <1>8, ObjectsShown
<1> QED
  BY <1>0, <1>10, <1>11 DEF Plain!Inherit, Plain!Empty, Empty, Held, Objects

LEMMA GetFieldSeen ==
  ASSUME Inv, NEW o \in ObjIds, NEW f \in Field, GetField(o, f)
  PROVE  Plain!GetField(o, f)
<1> DEFINE v == View(a, b, c, o)[f]
<1>0. /\ o \in Held /\ Held' = Held \cup {v} /\ v # None /\ UNCHANGED layers /\ TypeInv
  BY DEF GetField, Held, Inv
<1>1. /\ DOMAIN Shown = ObjIds /\ Held \subseteq ObjIds /\ Closed(ObjIds, Shown)
      /\ Shown[o] \in Contents
      /\ Held \subseteq Accessible /\ Closed(Accessible, Shown)
  BY <1>0, ShownClosed, AccessibleClosed
<1>2. v = Shown[o][f]
  BY DEF Shown
<1> HIDE DEF v
<1>3. v \in Accessible
  BY <1>0, <1>1, <1>2, ContentsRefs DEF Closed
<1>4. Program!Reachable(Held', Shown) = Accessible
  BY <1>0, <1>1, <1>3, ReachMore, AccessibleIs
<1>5. \A q : (View(a, b, c, q))' = View(a, b, c, q)
  BY <1>0 DEF View, In, Has, layers
<1>6. Accessible' = Program!Reachable(Held', Shown)
  BY <1>5 DEF Accessible, Held, Shown, Program!Reachable, Program!Refs
<1>7. Objects' = Objects
  BY <1>4, <1>5, <1>6 DEF Objects
<1>8. Objects[o][f] = v
  BY <1>0, <1>1, <1>2, ObjectsShown
<1> QED
  BY <1>0, <1>7, <1>8 DEF Plain!GetField, Held, Objects

LEMMA DropSeen ==
  ASSUME Inv, NEW o \in ObjIds, Drop(o)
  PROVE  Plain!Drop(o)
<1>1. o \in Held /\ Held' = Held \ {o} /\ UNCHANGED layers /\ TypeInv
  BY DEF Drop, Held, Inv
<1>2. Objects' = Plain!Live(Held', Objects)
  BY <1>1, FewerSeen
<1> QED
  BY <1>1, <1>2 DEF Plain!Drop, Held, Objects
-----------------------------------------------------------------------------
(***************************************************************************)
(* The collector's steps.                                                  *)
(***************************************************************************)

\* Freezing finds C empty, so that shifting the layers shows nothing.
LEMMA CollectSeen ==
  ASSUME Inv, TypeInv', CollectGarbage
  PROVE  UNCHANGED Plain!vars
<1>0. /\ gcpc = "idle" /\ a' = Blank /\ b' = a /\ c' = b
      /\ Held' = Held
      /\ TypeInv /\ Shape
      /\ a \in Layer /\ b \in Layer
  BY LayersTyped DEF CollectGarbage, main, Held, Inv
<1>1. \A o \in ObjIds : ~Has(c, o)
  BY <1>0, BlankLayer DEF Shape, LayersInv
<1>2. ASSUME NEW o \in ObjIds
      PROVE  (View(a, b, c, o))' = View(a, b, c, o)
  <2>1. (View(a, b, c, o))' = View(Blank, a, b, o)
    BY <1>0 DEF View, In, Has
  <2>2. View(Blank, a, b, o) = IF o \in Layered THEN Over(In(a, o), In(b, o))
                               ELSE IF Has(a, o) THEN In(a, o) ELSE In(b, o)
    BY <1>0, OldView
  <2>3. In(c, o) = Empty /\ In(b, o) \in Contents /\ ~Has(c, o)
    BY <1>0, <1>1, InLayer DEF In
  <2>4. Over(In(b, o), In(c, o)) = In(b, o)
    BY <2>3, EmptyContents, OverContents
  <2>5. ~Has(b, o) => In(b, o) = Empty
    BY DEF In
  <2> QED
    BY <2>1, <2>2, <2>3, <2>4, <2>5 DEF View
<1>3. \A o \in Accessible : Shown'[o] = Shown[o]
  BY <1>0, <1>2, AccessibleClosed DEF Shown
<1> QED
  BY <1>0, <1>3, SameSeen

\* What integration puts into place shows the same of every object that is kept.
LEMMA IntegrateSeen ==
  ASSUME ~EqualReferents, Inv, TypeInv', IntegrateGCResponse
  PROVE  UNCHANGED Plain!vars
<1> DEFINE i == Invalidate(a, white_list)
<1>0. /\ gcpc = "done" /\ a' = i /\ b' = new_b /\ c' = Blank
      /\ Held' = Held
      /\ TypeInv /\ Shape /\ LiveInv /\ MarkInv /\ ValueInv
      /\ a \in Layer /\ b \in Layer /\ c \in Layer /\ new_b \in Layer
  BY LayersTyped DEF IntegrateGCResponse, main, Held, Inv, KeptInv
<1>1. /\ i.at = [o \in ObjIds |-> IF o \in white_list THEN Tomb ELSE a.at[o]]
      /\ i.cell = [o \in ObjIds |-> IF o \in white_list THEN Empty ELSE a.cell[o]]
  BY DEF Invalidate
<1> HIDE DEF i
<1>2. ASSUME NEW o \in ObjIds, o \notin white_list
      PROVE  /\ (Has(a, o))' = Has(a, o) /\ (In(a, o))' = In(a, o)
             /\ (Has(b, o))' = Has(new_b, o) /\ (In(b, o))' = In(new_b, o)
             /\ ~(Has(c, o))' /\ (In(c, o))' = Empty
  BY <1>0, <1>1, <1>2, BlankLayer DEF Has, In, Shape, LayersInv
<1>3. ASSUME NEW o \in Accessible
      PROVE  (View(a, b, c, o))' = View(a, b, c, o)
  <2>0. o \in Kept /\ o \in ObjIds
    BY <1>0, AccessibleKept, KeptLeaves
  <2>1. /\ In(a, o) \in Contents /\ In(b, o) \in Contents /\ In(c, o) \in Contents
        /\ In(new_b, o) \in Contents /\ Over(In(new_b, o), Empty) = In(new_b, o)
    BY <1>0, <2>0, InLayer, EmptyContents, OverContents
  <2>2. View(Blank, b, c, o) = IF o \in Layered THEN Over(In(b, o), In(c, o))
                               ELSE IF Has(b, o) THEN In(b, o) ELSE In(c, o)
    BY <1>0, <2>0, OldView
  <2>3. CASE o \in Snapshot
    <3>1. o \in dark /\ o \in FrozenLive
      BY <1>0, <2>3, SnapshotDark, SnapshotLive DEF TypeInv
    <3>2. Has(new_b, o) /\ o \notin white_list
      BY <1>0, <2>0, <3>1 DEF Shape, CopyInv, Copied, PastB, PastC, FrozenLive
    <3>3. In(new_b, o) = View(Blank, b, c, o)
      BY <1>0, <3>1, DoneValues
    <3>4. (View(a, b, c, o))' = IF o \in Layered THEN Over(In(a, o), In(new_b, o))
                                ELSE IF Has(a, o) THEN In(a, o) ELSE In(new_b, o)
      BY <1>2, <2>0, <2>1, <3>2 DEF View
    <3> QED
      BY <2>2, <3>3, <3>4 DEF View
  <2>4. CASE o \in Fresh
    <3>1. Has(a, o) /\ ~Has(b, o) /\ ~Has(c, o)
      BY <2>4, ObjTableAssumption DEF Fresh, Has
    <3>2. ~Has(new_b, o) /\ o \notin white_list
      BY <2>0, <3>1 DEF Inv, Shape, CopyInv
    <3>3. In(b, o) = Empty /\ In(c, o) = Empty /\ In(new_b, o) = Empty
      BY <3>1, <3>2 DEF In
    <3> QED
      BY <1>2, <2>0, <3>1, <3>2, <3>3 DEF View
  <2> QED
    BY <1>0, <2>0, <2>3, <2>4 DEF Kept
<1>4. \A o \in Accessible : Shown'[o] = Shown[o]
  BY <1>0, <1>3, AccessibleClosed DEF Shown
<1> QED
  BY <1>0, <1>4, SameSeen

\* Steps that move no layer and change nothing in what the program holds.
LEMMA IdleSeen ==
  ASSUME UNCHANGED layers, Held' = Held
  PROVE  UNCHANGED Plain!vars
<1>1. \A q : (View(a, b, c, q))' = View(a, b, c, q)
  BY DEF View, In, Has, layers
<1>2. Accessible' = Accessible
  <2>1. Shown' = Shown
    BY <1>1 DEF Shown
  <2>2. Accessible' = Program!Reachable(Held', Shown')
    BY NextAccessibleIs
  <2> QED
    BY <2>1, <2>2, AccessibleIs
<1> QED
  BY <1>1, <1>2 DEF Plain!vars, Held
-----------------------------------------------------------------------------
LEMMA InitSeen == Init => Plain!Init
<1> SUFFICES ASSUME Init PROVE Plain!Init
  OBVIOUS
<1>1. Held = {} /\ TypeInv
  BY TypeInit DEF Init, Held
<1>2. Accessible \subseteq {}
  BY <1>1, ReachLeast, AccessibleIs, ShownClosed DEF Closed
<1>3. Objects = [o \in {} |-> Empty]
  BY <1>2 DEF Objects
<1> QED
  BY <1>1, <1>3 DEF Plain!Init, Plain!Empty, Empty, Objects, Held

LEMMA StepSeen ==
  ASSUME ~InheritsLayers, ~EqualReferents, Inv, TypeInv', [Next]_vars
  PROVE  Plain!Next \/ UNCHANGED Plain!vars
<1>1. CASE New
  <2>1. next_obj_id \in ObjIds
    BY <1>1, ObjTableAssumption DEF New, Inv, TypeInv, TypeOK, ObjIds
  <2> QED
    BY <1>1, <2>1, NewSeen DEF Plain!Next
<1>2. ASSUME NEW o \in ObjIds, NEW f \in Field, NEW v \in ObjIds, SetField(o, f, v)
      PROVE  Plain!Next
  BY <1>2, SetFieldSeen DEF Plain!Next
<1>3. ASSUME NEW o \in ObjIds, NEW p \in ObjIds, Inherit(o, p)
      PROVE  Plain!Next
  BY <1>3, InheritSeen DEF Plain!Next
<1>4. ASSUME NEW o \in ObjIds, NEW f \in Field, GetField(o, f)
      PROVE  Plain!Next
  BY <1>4, GetFieldSeen DEF Plain!Next
<1>5. ASSUME NEW o \in ObjIds, Drop(o)
      PROVE  Plain!Next
  BY <1>5, DropSeen DEF Plain!Next
<1>6. CASE \/ \E o \in ObjIds : PopToLocal(o)
           \/ PushLocal \/ FinishCompile \/ GcNext \/ UNCHANGED vars
  <2>1. UNCHANGED layers /\ Held' = Held
    BY <1>6 DEF PopToLocal, PushLocal, FinishCompile, GcNext, MarkRoots, GrayObjectLeaves,
                MarkingDone, CopyB, CopyC, CompareForever, vars, main, Held
  <2> QED
    BY <2>1, IdleSeen
<1> QED
  BY <1>1, <1>2, <1>3, <1>4, <1>5, <1>6, CollectSeen, IntegrateSeen DEF Next, MainNext

\* The collector is invisible: through the layers, their freezing and the
\* consolidation that runs next to it the program sees the plain heap, where an
\* object keeps what was last written to it for as long as it can be reached.  Beside
\* the conditions of AccessibleStaysKept this takes that no
\* merge of C shows through a shared cell, as it does in the run objtable_shared_merge,
\* and that a superclass has its methods in one layer when it is inherited from.
THEOREM Refinement ==
  ASSUME ~CollectsAroundLocals, ~InheritsLayers, ~EqualReferents, MergesUnseen
  PROVE  Spec => HeapSpec
<1>1. Spec => []Inv
  BY KeptInvariance, ValueInvariance, PTL DEF Inv
<1>2. TypeInv /\ [Next]_vars => TypeInv'
  BY TypeStep
<1>3. Inv /\ TypeInv' /\ [Next]_vars => [Plain!Next]_(Plain!vars)
  BY StepSeen
<1>4. Inv => TypeInv
  BY DEF Inv
<1> QED
  BY <1>1, <1>2, <1>3, <1>4, InitSeen, PTL DEF Spec, HeapSpec, Plain!Spec
=============================================================================
