---------------------------- MODULE ObjTableProofs ----------------------------
(***************************************************************************)
(* Proofs about ObjTable, for any number of objects, any fields, and any   *)
(* assignments a program makes: types, the shape of the layers and what a  *)
(* collection drops.                                                       *)
(***************************************************************************)
EXTENDS ObjTable, TLAPS

(***************************************************************************)
(* The inductive invariant.                                                *)
(***************************************************************************)

\* The ids given out so far.
Known == 1..(next_obj_id - 1)

\* A layer has entries for ids given out only, and refers to no others.
LayerOver(l) ==
  /\ l \in Layer
  /\ \A o \in ObjIds : l.at[o] # Absent => o \in Known
  /\ \A o \in ObjIds : Refs(l.cell[o]) \subseteq Known

TypeInv ==
  /\ TypeOK
  /\ LayerOver(a)
  /\ LayerOver(b)
  /\ LayerOver(c)
  /\ LayerOver(new_b)
  /\ gcpc # "leaves" => gray = {}

Consolidating == gcpc \in {"copy_b", "copy_c", "comparing", "done"}

\* The traversals of B and of C have been past o.
PastB(o) == gcpc \in {"copy_c", "done"} \/ (gcpc = "copy_b" /\ o < cursor)

PastC(o) == gcpc = "done" \/ (gcpc = "copy_c" /\ o < cursor)

\* What the passes have an entry of new_b for.
Copied(o) ==
  \/ PastB(o) /\ Has(b, o)
  \/ PastC(o) /\ Has(c, o) /\ o \notin c.white \ dark

\* No entry of A shares its cell.  An id invalidated in the layer above is flagged
\* below; while a collection runs A is young and has no such ids.
LayersInv ==
  /\ a.white = {}
  /\ \A o \in ObjIds : Has(a, o) => a.at[o] = o
  /\ \A o \in ObjIds : c.at[o] # Tomb
  /\ gcpc = "idle" =>
       /\ c = Blank
       /\ \A o \in ObjIds : b.at[o] # Tomb /\ (a.at[o] = Tomb => o \in b.white)
  /\ gcpc # "idle" =>
       /\ b.white = {}
       /\ \A o \in ObjIds : a.at[o] # Tomb /\ (b.at[o] = Tomb => o \in c.white)
       /\ req_exec_phase = "PREPARE_REQUEST"

\* What shares a cell shares one that is the cell of its own id.  A traversal that
\* got caught in a comparison has copied what it has copied.
CopyInv ==
  /\ ~Consolidating => new_b = Blank
  /\ \A o \in ObjIds :
       /\ new_b.at[o] # Tomb
       /\ gcpc # "comparing" => (Has(new_b, o) <=> Copied(o))
       /\ Has(new_b, o) => Has(b, o) \/ Has(c, o)
       /\ Has(new_b, o) => new_b.at[new_b.at[o]] = new_b.at[o]
  /\ new_b.white = white_list
  /\ white_list = {o \in ObjIds : Has(new_b, o) /\ o \notin dark}

Shape == LayersInv /\ CopyInv
-----------------------------------------------------------------------------
(***************************************************************************)
(* Layers.                                                                 *)
(***************************************************************************)

LEMMA EmptyContents == Empty \in Contents /\ Refs(Empty) = {}
  BY DEF Empty, Contents, Refs

LEMMA ContentsRefs ==
  ASSUME NEW x \in Contents
  PROVE  /\ Refs(x) \subseteq ObjIds
         /\ \A f \in Field : x[f] # None => x[f] \in Refs(x)
  BY DEF Contents, Refs

LEMMA BlankLayer ==
  /\ Blank \in Layer
  /\ \A o \in ObjIds : Blank.at[o] = Absent /\ ~Has(Blank, o) /\ Blank.cell[o] = Empty
  /\ Blank.white = {}
  BY ObjTableAssumption, EmptyContents DEF Blank, Layer, Has

LEMMA InLayer ==
  ASSUME NEW l \in Layer, NEW o \in ObjIds
  PROVE  In(l, o) \in Contents
  BY EmptyContents DEF Layer, In, Has

LEMMA OverContents ==
  ASSUME NEW x \in Contents, NEW y \in Contents
  PROVE  /\ Over(x, y) \in Contents
         /\ Refs(Over(x, y)) \subseteq Refs(x) \cup Refs(y)
         /\ Over(x, Empty) = x
         /\ Over(Empty, y) = y
  BY DEF Over, Contents, Refs, Empty

LEMMA PutLayer ==
  ASSUME NEW l \in Layer, NEW o \in ObjIds, NEW x \in Contents
  PROVE  /\ Put(l, o, x) \in Layer
         /\ Put(l, o, x).white = l.white
         /\ Put(l, o, x).at = [l.at EXCEPT ![o] = o]
         /\ Put(l, o, x).cell = [l.cell EXCEPT ![o] = x]
  BY DEF Put, Layer

LEMMA InvalidateLayer ==
  ASSUME NEW l \in Layer, NEW W \in SUBSET ObjIds
  PROVE  /\ Invalidate(l, W) \in Layer
         /\ Invalidate(l, W).white = l.white
         /\ Invalidate(l, W).at = [o \in ObjIds |-> IF o \in W THEN Tomb ELSE l.at[o]]
         /\ Invalidate(l, W).cell = [o \in ObjIds |-> IF o \in W THEN Empty ELSE l.cell[o]]
  BY EmptyContents DEF Invalidate, Layer

LEMMA CloneLayer ==
  ASSUME new_b \in Layer, NEW o \in ObjIds, NEW x \in Contents
  PROVE  /\ Clone(o, x) \in Layer
         /\ Clone(o, x).white = new_b.white \cup ({o} \ dark)
         /\ Clone(o, x).at = [new_b.at EXCEPT ![o] = o]
         /\ Clone(o, x).cell = [new_b.cell EXCEPT ![o] = x]
  BY PutLayer DEF Clone, Put, Layer

LEMMA ShareLayer ==
  ASSUME new_b \in Layer, NEW o \in ObjIds, NEW p \in ObjIds \cup {Absent, Tomb}
  PROVE  /\ Share(o, p) \in Layer
         /\ Share(o, p).white = new_b.white
         /\ Share(o, p).at = [new_b.at EXCEPT ![o] = p]
         /\ Share(o, p).cell = new_b.cell
  BY DEF Share, Layer

LEMMA MergeLayer ==
  ASSUME new_b \in Layer, c \in Layer, NEW o \in ObjIds, Has(new_b, o),
         o \in Layered, o \notin new_b.white
  PROVE  /\ MergeC(o) \in Layer
         /\ MergeC(o).white = new_b.white
         /\ MergeC(o).at = new_b.at
         /\ MergeC(o).cell =
              [new_b.cell EXCEPT ![new_b.at[o]] = Over(In(new_b, o), In(c, o))]
<1> DEFINE r == new_b.at[o]
           x == Over(In(new_b, o), In(c, o))
<1>1. r \in ObjIds
  BY DEF Has
<1>2. x \in Contents
  BY InLayer, OverContents
<1>3. MergeC(o) = [new_b EXCEPT !.cell = [new_b.cell EXCEPT ![r] = x]]
  BY DEF MergeC, In
<1> DEFINE y == [new_b.cell EXCEPT ![r] = x]
<1>4. y \in [ObjIds -> Contents]
  BY <1>1, <1>2 DEF Layer
<1>5. MergeC(o) = [new_b EXCEPT !.cell = y] /\ y = [new_b.cell EXCEPT ![r] = x]
  BY <1>3
<1> HIDE DEF r, x, y
<1> QED
  BY <1>4, <1>5 DEF Layer, r, x

LEMMA KnownIds == TypeOK => Known \subseteq ObjIds
  BY ObjTableAssumption DEF TypeOK, Known, ObjIds

LEMMA InOver ==
  ASSUME NEW l, LayerOver(l), NEW o \in ObjIds
  PROVE  In(l, o) \in Contents /\ Refs(In(l, o)) \subseteq Known
  BY InLayer, EmptyContents DEF LayerOver, In, Has

LEMMA PutOver ==
  ASSUME NEW l, LayerOver(l), NEW o \in ObjIds, o \in Known,
         NEW x \in Contents, Refs(x) \subseteq Known
  PROVE  LayerOver(Put(l, o, x))
<1>1. l \in Layer
  BY DEF LayerOver
<1>2. l.at \in [ObjIds -> ObjIds \cup {Absent, Tomb}] /\ l.cell \in [ObjIds -> Contents]
  BY <1>1 DEF Layer
<1> DEFINE p == Put(l, o, x)
<1>3. /\ p \in Layer
      /\ p.at = [l.at EXCEPT ![o] = o]
      /\ p.cell = [l.cell EXCEPT ![o] = x]
  BY <1>1, PutLayer
<1> HIDE DEF p
<1>4. ASSUME NEW q \in ObjIds
      PROVE  (p.at[q] # Absent => q \in Known) /\ Refs(p.cell[q]) \subseteq Known
  BY <1>2, <1>3 DEF LayerOver
<1>5. LayerOver(p)
  BY <1>3, <1>4 DEF LayerOver
<1> QED
  BY <1>5 DEF p

LEMMA InvalidateOver ==
  ASSUME NEW l, LayerOver(l), NEW W \in SUBSET ObjIds, W \subseteq Known
  PROVE  LayerOver(Invalidate(l, W))
<1> DEFINE p == Invalidate(l, W)
<1>1. /\ p \in Layer
      /\ p.at = [o \in ObjIds |-> IF o \in W THEN Tomb ELSE l.at[o]]
      /\ p.cell = [o \in ObjIds |-> IF o \in W THEN Empty ELSE l.cell[o]]
  BY InvalidateLayer DEF LayerOver
<1> HIDE DEF p
<1>2. ASSUME NEW q \in ObjIds
      PROVE  (p.at[q] # Absent => q \in Known) /\ Refs(p.cell[q]) \subseteq Known
  BY <1>1, EmptyContents DEF LayerOver
<1>3. LayerOver(p)
  BY <1>1, <1>2 DEF LayerOver
<1> QED
  BY <1>3 DEF p

LEMMA CloneOver ==
  ASSUME LayerOver(new_b), NEW o \in ObjIds, o \in Known,
         NEW x \in Contents, Refs(x) \subseteq Known
  PROVE  LayerOver(Clone(o, x))
<1>1. new_b \in Layer
  BY DEF LayerOver
<1>2. LayerOver(Put(new_b, o, x))
  BY PutOver
<1>3. /\ Clone(o, x) \in Layer
      /\ Clone(o, x).at = [new_b.at EXCEPT ![o] = o]
      /\ Clone(o, x).cell = [new_b.cell EXCEPT ![o] = x]
  BY <1>1, CloneLayer
<1>4. /\ Put(new_b, o, x).at = [new_b.at EXCEPT ![o] = o]
      /\ Put(new_b, o, x).cell = [new_b.cell EXCEPT ![o] = x]
  BY <1>1, PutLayer
<1> QED
  BY <1>2, <1>3, <1>4 DEF LayerOver

LEMMA ShareOver ==
  ASSUME LayerOver(new_b), NEW o \in ObjIds, o \in Known,
         NEW p \in ObjIds \cup {Absent, Tomb}
  PROVE  LayerOver(Share(o, p))
<1>1. new_b \in Layer /\ new_b.at \in [ObjIds -> ObjIds \cup {Absent, Tomb}]
  BY DEF LayerOver, Layer
<1>2. /\ Share(o, p) \in Layer
      /\ Share(o, p).at = [new_b.at EXCEPT ![o] = p]
      /\ Share(o, p).cell = new_b.cell
  BY <1>1, ShareLayer
<1>3. \A q \in ObjIds : Share(o, p).at[q] # Absent => q \in Known
  BY <1>1, <1>2 DEF LayerOver
<1> QED
  BY <1>2, <1>3 DEF LayerOver

LEMMA MergeOver ==
  ASSUME LayerOver(new_b), LayerOver(c), NEW o \in ObjIds, Has(new_b, o)
  PROVE  LayerOver(MergeC(o))
<1>1. CASE ~(o \in Layered /\ o \notin new_b.white)
  BY <1>1 DEF MergeC
<1>2. CASE o \in Layered /\ o \notin new_b.white
  <2> DEFINE x == Over(In(new_b, o), In(c, o))
             m == MergeC(o)
  <2>1. new_b \in Layer /\ c \in Layer /\ new_b.cell \in [ObjIds -> Contents]
    BY DEF LayerOver, Layer
  <2>2. x \in Contents /\ Refs(x) \subseteq Known
    BY InOver, OverContents
  <2>3. /\ m \in Layer
        /\ m.at = new_b.at
        /\ m.cell = [new_b.cell EXCEPT ![new_b.at[o]] = x]
    BY <1>2, <2>1, MergeLayer
  <2> HIDE DEF x, m
  <2>4. \A q \in ObjIds : Refs(m.cell[q]) \subseteq Known
    BY <2>1, <2>2, <2>3 DEF LayerOver
  <2>5. LayerOver(m)
    BY <2>3, <2>4 DEF LayerOver
  <2> QED
    BY <2>5 DEF m
<1> QED
  BY <1>1, <1>2

LEMMA ViewOver ==
  ASSUME NEW x, NEW y, NEW z, LayerOver(x), LayerOver(y), LayerOver(z), NEW o \in ObjIds
  PROVE  View(x, y, z, o) \in Contents /\ Refs(View(x, y, z, o)) \subseteq Known
<1>1. /\ In(x, o) \in Contents /\ Refs(In(x, o)) \subseteq Known
      /\ In(y, o) \in Contents /\ Refs(In(y, o)) \subseteq Known
      /\ In(z, o) \in Contents /\ Refs(In(z, o)) \subseteq Known
  BY InOver
<1>2. /\ Over(In(y, o), In(z, o)) \in Contents
      /\ Refs(Over(In(y, o), In(z, o))) \subseteq Known
  BY <1>1, OverContents
<1>3. /\ Over(In(x, o), Over(In(y, o), In(z, o))) \in Contents
      /\ Refs(Over(In(x, o), Over(In(y, o), In(z, o)))) \subseteq Known
  BY <1>1, <1>2, OverContents
<1> QED
  BY <1>1, <1>3 DEF View

LEMMA BlankOver == LayerOver(Blank)
  BY BlankLayer, EmptyContents DEF LayerOver

-----------------------------------------------------------------------------
(***************************************************************************)
(* Types.                                                                  *)
(***************************************************************************)

LEMMA TypeInit == Init => TypeInv
<1> SUFFICES ASSUME Init PROVE TypeInv
  OBVIOUS
<1>1. LayerOver(a) /\ LayerOver(b) /\ LayerOver(c) /\ LayerOver(new_b)
  BY BlankOver DEF Init
<1>2. TypeOK
  BY <1>1, ObjTableAssumption DEF Init, TypeOK, LayerOver
<1>3. gray = {}
  BY DEF Init
<1> QED
  BY <1>1, <1>2, <1>3 DEF TypeInv

\* What of the types is about the layers.
LayerTypes == LayerOver(a) /\ LayerOver(b) /\ LayerOver(c) /\ LayerOver(new_b)

OtherTypes ==
  /\ next_obj_id \in 1..(N + 1)
  /\ roots \cup held \cup req_roots \subseteq Known
  /\ exec_phase \in {"COMPILE", "INTERPRET"}
  /\ old_exec_phase \in {"COMPILE", "INTERPRET"}
  /\ req_exec_phase \in {"COMPILE", "PREPARE_REQUEST"}
  /\ gcpc \in {"idle", "roots", "leaves", "copy_b", "copy_c", "comparing", "done"}
  /\ gray \subseteq dark
  /\ dark \cup white_list \subseteq Known
  /\ cursor \in 1..N
  /\ gcpc # "leaves" => gray = {}

LEMMA TypeParts == TypeInv <=> LayerTypes /\ OtherTypes
<1>1. TypeInv => LayerTypes /\ OtherTypes
  BY DEF TypeInv, TypeOK, LayerTypes, OtherTypes, Known
<1>2. LayerTypes /\ OtherTypes => TypeOK
  BY DEF TypeOK, LayerTypes, OtherTypes, Known, LayerOver
<1> QED
  BY <1>1, <1>2 DEF TypeInv, LayerTypes, OtherTypes

\* Steps that give out no id and touch no layer.
LEMMA SameLayerTypes ==
  ASSUME LayerTypes, next_obj_id' = next_obj_id, UNCHANGED <<layers, new_b>>
  PROVE  LayerTypes'
  BY DEF LayerTypes, LayerOver, Known, layers

LEMMA WriteTypes ==
  ASSUME LayerTypes, OtherTypes, NEW o \in Known, NEW x \in Contents, Refs(x) \subseteq Known,
         a' = Put(a, o, x), next_obj_id' = next_obj_id, UNCHANGED <<b, c, new_b>>
  PROVE  LayerTypes'
<1>1. Known \subseteq ObjIds
  BY KnownIds, TypeParts DEF TypeInv
<1>2. LayerOver(Put(a, o, x))
  BY <1>1, PutOver DEF LayerTypes
<1> QED
  BY <1>2 DEF LayerTypes, LayerOver, Known

LEMMA NewStep ==
  ASSUME LayerTypes, OtherTypes, New
  PROVE  LayerTypes' /\ OtherTypes'
<1> DEFINE n == next_obj_id
<1>1. n \in Nat /\ n \in ObjIds /\ n \notin Known /\ Known' = Known \cup {n}
      /\ Known' \subseteq ObjIds
  BY ObjTableAssumption DEF New, OtherTypes, Known, ObjIds
<1>2. a \in Layer /\ a.at \in [ObjIds -> ObjIds \cup {Absent, Tomb}]
      /\ a.cell \in [ObjIds -> Contents]
  BY DEF LayerTypes, LayerOver, Layer
<1>3. /\ a' \in Layer
      /\ a'.at = [a.at EXCEPT ![n] = n]
      /\ a'.cell = [a.cell EXCEPT ![n] = Empty]
  BY <1>1, <1>2, PutLayer, EmptyContents DEF New
<1>4. ASSUME NEW q \in ObjIds
      PROVE  (a'.at[q] # Absent => q \in Known') /\ Refs(a'.cell[q]) \subseteq Known'
  BY <1>1, <1>2, <1>3, EmptyContents DEF LayerTypes, LayerOver
<1>5. LayerOver(a)'
  BY <1>3, <1>4 DEF LayerOver
<1>6. LayerOver(b)' /\ LayerOver(c)' /\ LayerOver(new_b)'
  BY <1>1 DEF LayerTypes, LayerOver, New, gc
<1>7. OtherTypes'
  BY <1>1, ObjTableAssumption DEF OtherTypes, New, gc, request, ObjIds
<1> QED
  BY <1>5, <1>6, <1>7 DEF LayerTypes

\* What SetField() and Inherit() write into A.
LEMMA FieldWritten ==
  ASSUME NEW x \in Contents, NEW f \in Field, NEW v \in ObjIds
  PROVE  /\ [x EXCEPT ![f] = v] \in Contents
         /\ Refs([x EXCEPT ![f] = v]) \subseteq Refs(x) \cup {v}
  BY ObjTableAssumption DEF Contents, Refs

LEMMA MutableOver ==
  ASSUME LayerTypes, NEW o \in ObjIds
  PROVE  MutableLayer(o) \in Contents /\ Refs(MutableLayer(o)) \subseteq Known
<1>1. In(a, o) \in Contents /\ Refs(In(a, o)) \subseteq Known
  BY InOver DEF LayerTypes
<1>2. View(a, b, c, o) \in Contents /\ Refs(View(a, b, c, o)) \subseteq Known
  BY ViewOver DEF LayerTypes
<1> QED
  BY <1>1, <1>2, EmptyContents DEF MutableLayer

LEMMA NewestOver ==
  ASSUME LayerTypes, NEW o \in ObjIds
  PROVE  Newest(o) \in Contents /\ Refs(Newest(o)) \subseteq Known
  BY InOver DEF LayerTypes, Newest

LEMMA MainTypes ==
  ASSUME LayerTypes, OtherTypes, MainNext
  PROVE  LayerTypes' /\ OtherTypes'
<1> USE DEF gc, request, layers, main
<1>0. Known \subseteq ObjIds
  BY KnownIds, TypeParts DEF TypeInv
<1>1. ASSUME NEW o \in ObjIds, NEW f \in Field, NEW v \in ObjIds, SetField(o, f, v)
      PROVE  LayerTypes' /\ OtherTypes'
  <2> DEFINE x == [MutableLayer(o) EXCEPT ![f] = v]
  <2>1. o \in Known /\ v \in Known
    BY <1>1 DEF SetField, OtherTypes
  <2>2. x \in Contents /\ Refs(x) \subseteq Known
    BY <2>1, MutableOver, FieldWritten
  <2>3. a' = Put(a, o, x) /\ UNCHANGED <<main, b, c, request, gcpc, gc>>
    BY <1>1 DEF SetField
  <2> HIDE DEF x
  <2>4. LayerTypes'
    BY <2>1, <2>2, <2>3, WriteTypes
  <2> QED
    BY <2>3, <2>4 DEF OtherTypes, Known
<1>2. ASSUME NEW o \in ObjIds, NEW p \in ObjIds, Inherit(o, p)
      PROVE  LayerTypes' /\ OtherTypes'
  <2> DEFINE x == Over(Newest(p), MutableLayer(o))
  <2>1. o \in Known
    BY <1>2 DEF Inherit, OtherTypes
  <2>2. x \in Contents /\ Refs(x) \subseteq Known
    BY MutableOver, NewestOver, OverContents
  <2>3. a' = Put(a, o, x) /\ UNCHANGED <<main, b, c, request, gcpc, gc>>
    BY <1>2 DEF Inherit
  <2> HIDE DEF x
  <2>4. LayerTypes'
    BY <2>1, <2>2, <2>3, WriteTypes
  <2> QED
    BY <2>3, <2>4 DEF OtherTypes, Known
<1>3. ASSUME NEW o \in ObjIds, NEW f \in Field, GetField(o, f)
      PROVE  LayerTypes' /\ OtherTypes'
  <2> DEFINE x == View(a, b, c, o)
  <2>1. x \in Contents /\ Refs(x) \subseteq Known
    BY ViewOver DEF LayerTypes
  <2>2. x[f] # None /\ roots' = roots \cup {x[f]}
        /\ UNCHANGED <<next_obj_id, held, exec_phase, layers, request, gcpc, gc>>
    BY <1>3 DEF GetField
  <2> HIDE DEF x
  <2>3. x[f] \in Known
    BY <2>1, <2>2, ContentsRefs
  <2> QED
    BY <2>2, <2>3, SameLayerTypes DEF OtherTypes, Known
<1>4. ASSUME NEW o \in ObjIds, Drop(o) \/ PopToLocal(o)
      PROVE  LayerTypes' /\ OtherTypes'
  BY <1>4, SameLayerTypes DEF Drop, PopToLocal, OtherTypes, Known
<1>5. CASE PushLocal \/ FinishCompile
  BY <1>5, SameLayerTypes DEF PushLocal, FinishCompile, OtherTypes, Known
<1>6. CASE CollectGarbage
  <2>1. LayerTypes'
    BY <1>6, BlankOver DEF CollectGarbage, LayerTypes, LayerOver, Known
  <2> QED
    BY <1>6, <2>1 DEF CollectGarbage, OtherTypes, Known
<1>7. CASE IntegrateGCResponse
  <2> DEFINE y == Invalidate(a, white_list)
  <2>1. white_list \subseteq Known
    BY DEF OtherTypes
  <2>2. LayerOver(y)
    BY <1>0, <2>1, InvalidateOver DEF LayerTypes
  <2>3. /\ a' = y
        /\ b' = new_b
        /\ c' = Blank
        /\ new_b' = Blank
        /\ white_list' = {}
        /\ dark' = {}
        /\ req_roots' = {}
        /\ gcpc' = "idle"
        /\ UNCHANGED <<main, req_exec_phase, old_exec_phase, gray, cursor>>
        /\ gcpc = "done"
    BY <1>7 DEF IntegrateGCResponse
  <2> HIDE DEF y
  <2>4. Known' = Known
    BY <2>3 DEF Known
  <2>5. LayerOver(a)'
    BY <2>2, <2>3, <2>4 DEF LayerOver
  <2>6. LayerOver(b)'
    BY <2>3, <2>4 DEF LayerOver, LayerTypes
  <2>7. LayerOver(c)' /\ LayerOver(new_b)'
    BY <2>3, <2>4, BlankOver DEF LayerOver
  <2> QED
    BY <2>3, <2>4, <2>5, <2>6, <2>7 DEF OtherTypes, LayerTypes
<1> QED
  BY <1>1, <1>2, <1>3, <1>4, <1>5, <1>6, <1>7, NewStep DEF MainNext

\* The references of what marking grays.
LEMMA LeavesOver ==
  ASSUME LayerTypes, NEW o \in ObjIds
  PROVE  Leaves(o) \subseteq Known
  BY InOver DEF LayerTypes, Leaves

LEMMA VisitedTypes ==
  ASSUME cursor \in 1..N, NEW next_gcpc, Visited(next_gcpc)
  PROVE  cursor' \in 1..N /\ gcpc' \in {gcpc, next_gcpc}
  BY ObjTableAssumption DEF Visited

\* What one step of the consolidation does to new_b and the white list.
LEMMA CloneTypes ==
  ASSUME LayerTypes, OtherTypes, NEW o \in Known, NEW x \in Contents, Refs(x) \subseteq Known,
         new_b' = Clone(o, x),
         white_list' = IF o \in dark THEN white_list ELSE white_list \cup {o},
         UNCHANGED next_obj_id
  PROVE  LayerOver(new_b)' /\ white_list' \subseteq Known
<1>1. o \in ObjIds
  BY KnownIds, TypeParts DEF TypeInv
<1>2. LayerOver(Clone(o, x))
  BY <1>1, CloneOver DEF LayerTypes
<1>3. LayerOver(new_b)'
  BY <1>2 DEF LayerOver, Known
<1> QED
  BY <1>3 DEF OtherTypes

LEMMA ShareTypes ==
  ASSUME LayerTypes, OtherTypes, NEW o \in Known, NEW x, NEW p \in EqualCells(o, x),
         new_b' = Share(o, p), UNCHANGED <<white_list, next_obj_id>>
  PROVE  LayerOver(new_b)' /\ white_list' \subseteq Known
<1>1. o \in ObjIds
  BY KnownIds, TypeParts DEF TypeInv
<1>2. p \in ObjIds \cup {Absent, Tomb}
  BY DEF EqualCells, KlassCells, LayerTypes, LayerOver, Layer
<1>3. LayerOver(Share(o, p))
  BY <1>1, <1>2, ShareOver DEF LayerTypes
<1>4. LayerOver(new_b)'
  BY <1>3 DEF LayerOver, Known
<1> QED
  BY <1>4 DEF OtherTypes

LEMMA MergeTypes ==
  ASSUME LayerTypes, OtherTypes, NEW o \in ObjIds, Has(new_b, o),
         new_b' = MergeC(o), UNCHANGED <<white_list, next_obj_id>>
  PROVE  LayerOver(new_b)' /\ white_list' \subseteq Known
<1>1. LayerOver(MergeC(o))
  BY MergeOver DEF LayerTypes
<1>2. LayerOver(new_b)'
  BY <1>1 DEF LayerOver, Known
<1> QED
  BY <1>2 DEF OtherTypes

LEMMA SameNewTypes ==
  ASSUME LayerTypes, OtherTypes, UNCHANGED <<new_b, white_list, next_obj_id>>
  PROVE  LayerOver(new_b)' /\ white_list' \subseteq Known
  BY DEF LayerTypes, OtherTypes, LayerOver, Known

LEMMA CopyTypes ==
  ASSUME LayerTypes, OtherTypes, CopyB \/ CopyC
  PROVE  LayerOver(new_b)' /\ white_list' \subseteq Known
<1> DEFINE o == cursor
<1>0. /\ o \in ObjIds
      /\ UNCHANGED <<next_obj_id, main, layers, request, gray, dark>>
      /\ b.at[o] # Absent \/ c.at[o] # Absent => o \in Known
  BY DEF CopyB, CopyC, OtherTypes, ObjIds, main, LayerTypes, LayerOver
<1>1. CASE CopyB
  <2> DEFINE x == In(b, o)
  <2>1. x \in Contents /\ Refs(x) \subseteq Known
    BY <1>0, InOver DEF LayerTypes
  <2>2. Has(b, o) => o \in Known
    BY <1>0, ObjTableAssumption DEF Has
  <2>3. \/ UNCHANGED <<new_b, white_list>>
        \/ Has(b, o) /\ UNCHANGED white_list /\ \E p \in EqualCells(o, x) : new_b' = Share(o, p)
        \/ /\ Has(b, o)
           /\ new_b' = Clone(o, x)
           /\ white_list' = IF o \in dark THEN white_list ELSE white_list \cup {o}
    BY <1>1 DEF CopyB
  <2> HIDE DEF o, x
  <2> QED
    BY <1>0, <2>1, <2>2, <2>3, SameNewTypes, ShareTypes, CloneTypes
<1>2. CASE CopyC
  <2> DEFINE x == In(c, o)
  <2>1. x \in Contents /\ Refs(x) \subseteq Known
    BY <1>0, InOver DEF LayerTypes
  <2>2. \/ UNCHANGED <<new_b, white_list>>
        \/ Has(new_b, o) /\ new_b' = MergeC(o) /\ UNCHANGED white_list
        \/ /\ c.at[o] # Absent
           /\ UNCHANGED white_list
           /\ \E p \in EqualCells(o, x) : new_b' = Share(o, p)
        \/ /\ c.at[o] # Absent
           /\ new_b' = Clone(o, x)
           /\ white_list' = IF o \in dark THEN white_list ELSE white_list \cup {o}
    BY <1>2 DEF CopyC
  <2> HIDE DEF o, x
  <2> QED
    BY <1>0, <2>1, <2>2, SameNewTypes, ShareTypes, CloneTypes, MergeTypes
<1> QED
  BY <1>1, <1>2

LEMMA GcTypes ==
  ASSUME LayerTypes, OtherTypes, GcNext
  PROVE  LayerTypes' /\ OtherTypes'
<1> USE DEF request, layers, main
<1>1. CASE MarkRoots
  <2>1. {o \in ObjIds : b.at[o] # Absent \/ c.at[o] # Absent} \subseteq Known
    BY DEF LayerTypes, LayerOver
  <2>2. gray' \subseteq Known
    BY <1>1, <2>1 DEF MarkRoots, OtherTypes
  <2> QED
    BY <1>1, <2>2, SameLayerTypes DEF MarkRoots, OtherTypes, Known
<1>2. ASSUME NEW o \in ObjIds, GrayObjectLeaves(o)
      PROVE  LayerTypes' /\ OtherTypes'
  BY <1>2, LeavesOver, SameLayerTypes DEF GrayObjectLeaves, OtherTypes, Known
<1>3. CASE MarkingDone
  BY <1>3, ObjTableAssumption, SameLayerTypes DEF MarkingDone, OtherTypes, Known
<1>4. CASE CopyB \/ CopyC
  <2>1. LayerOver(new_b)' /\ white_list' \subseteq Known
    BY <1>4, CopyTypes
  <2>2. /\ UNCHANGED <<main, layers, request, gray, dark>>
        /\ gcpc \in {"copy_b", "copy_c"}
        /\ Visited("copy_c") \/ Visited("done")
    BY <1>4 DEF CopyB, CopyC
  <2>3. cursor' \in 1..N /\ gcpc' \in {"copy_b", "copy_c", "done"}
    BY <2>2, VisitedTypes DEF OtherTypes
  <2>4. LayerTypes'
    BY <2>1, <2>2 DEF LayerTypes, LayerOver, Known
  <2> QED
    BY <2>1, <2>2, <2>3, <2>4 DEF OtherTypes, Known
<1>5. CASE CompareForever
  BY <1>5, SameLayerTypes DEF CompareForever, gc, OtherTypes, Known
<1> QED
  BY <1>1, <1>2, <1>3, <1>4, <1>5 DEF GcNext

LEMMA TypeStep == TypeInv /\ [Next]_vars => TypeInv'
<1>0. TypeInv' <=> LayerTypes' /\ OtherTypes'
  BY TypeParts, PTL
<1> SUFFICES ASSUME LayerTypes, OtherTypes, [Next]_vars PROVE LayerTypes' /\ OtherTypes'
  BY <1>0, TypeParts
<1>1. CASE UNCHANGED vars
  BY <1>1, SameLayerTypes DEF vars, main, layers, request, gc, OtherTypes, Known
<1> QED
  BY <1>1, MainTypes, GcTypes DEF Next

LEMMA TypeInvariance == Spec => []TypeInv
  BY TypeInit, TypeStep, PTL DEF Spec

\* Every variable has its type in every state, and no id is in use, in a root, on
\* the gray stack or on the white list, that objtable_add() has not given out.
THEOREM TypeCorrectness == Spec => []TypeOK
<1>1. TypeInv => TypeOK
  BY DEF TypeInv
<1> QED
  BY <1>1, TypeInvariance, PTL
-----------------------------------------------------------------------------
(***************************************************************************)
(* The shape of the layers.                                                *)
(***************************************************************************)

LEMMA ShapeInit == Init => Shape
<1> SUFFICES ASSUME Init PROVE Shape
  OBVIOUS
<1>1. LayersInv
  BY BlankLayer, ObjTableAssumption DEF Init, LayersInv
<1>2. ~Consolidating /\ new_b = Blank /\ white_list = {}
  BY DEF Init, Consolidating
<1>3. \A o \in ObjIds : ~Copied(o)
  BY DEF Init, Copied, PastB, PastC
<1>4. \A o \in ObjIds : new_b.at[o] = Absent /\ ~Has(new_b, o) /\ new_b.white = {}
  BY <1>2, BlankLayer
<1>5. CopyInv
  BY <1>2, <1>3, <1>4, ObjTableAssumption DEF CopyInv, Blank
<1> QED
  BY <1>1, <1>5 DEF Shape

\* Outside the consolidation new_b is blank.
LEMMA BlankCopy ==
  ASSUME ~Consolidating', new_b' = Blank, white_list' = {}
  PROVE  CopyInv'
<1>1. \A o \in ObjIds : ~Copied(o)'
  BY DEF Consolidating, Copied, PastB, PastC
<1>2. \A o \in ObjIds : new_b'.at[o] = Absent /\ ~Has(new_b, o)' /\ new_b'.white = {}
  BY BlankLayer DEF Has
<1> QED
  BY <1>1, <1>2, ObjTableAssumption DEF CopyInv, Blank

\* Steps that leave the GC thread's part alone.
LEMMA SameCopy ==
  ASSUME CopyInv, UNCHANGED <<b, c, gcpc, cursor, dark, new_b, white_list>>
  PROVE  CopyInv'
  BY DEF CopyInv, Consolidating, Copied, PastB, PastC, Has

LEMMA PutShape ==
  ASSUME TypeInv, Shape, NEW o \in ObjIds, NEW x \in Contents,
         a' = Put(a, o, x), UNCHANGED <<b, c, request, gcpc, gc>>
  PROVE  Shape'
<1>1. a \in Layer /\ a.at \in [ObjIds -> ObjIds \cup {Absent, Tomb}]
  BY DEF TypeInv, LayerOver, Layer
<1>2. a'.white = a.white /\ a'.at = [a.at EXCEPT ![o] = o]
  BY DEF Put
<1>3. LayersInv'
  BY <1>1, <1>2, ObjTableAssumption DEF Shape, LayersInv, request, Has
<1>4. CopyInv'
  BY SameCopy DEF Shape, gc
<1> QED
  BY <1>3, <1>4 DEF Shape

LEMMA SameShape ==
  ASSUME Shape, UNCHANGED <<layers, request, gcpc, gc>>
  PROVE  Shape'
<1>1. LayersInv'
  BY DEF Shape, LayersInv, layers, request
<1>2. CopyInv'
  BY SameCopy DEF Shape, layers, gc
<1> QED
  BY <1>1, <1>2 DEF Shape

LEMMA CollectShape ==
  ASSUME TypeInv, Shape, CollectGarbage
  PROVE  Shape'
<1>1. LayersInv'
  BY BlankLayer, ObjTableAssumption DEF CollectGarbage, Shape, LayersInv
<1>2. CopyInv'
  BY BlankCopy, BlankLayer DEF CollectGarbage, Shape, CopyInv, Consolidating, gc
<1> QED
  BY <1>1, <1>2 DEF Shape

LEMMA IntegrateShape ==
  ASSUME TypeInv, Shape, IntegrateGCResponse
  PROVE  Shape'
<1>1. white_list \subseteq ObjIds /\ a \in Layer
  BY KnownIds DEF TypeInv, TypeOK, Known, LayerOver
<1> DEFINE i == Invalidate(a, white_list)
<1>2. /\ i.white = a.white
      /\ i.at = [o \in ObjIds |-> IF o \in white_list THEN Tomb ELSE a.at[o]]
  BY <1>1, InvalidateLayer
<1>3. /\ a' = i
      /\ b' = new_b
      /\ c' = Blank
      /\ new_b' = Blank
      /\ white_list' = {}
      /\ gcpc' = "idle"
      /\ gcpc = "done"
  BY DEF IntegrateGCResponse
<1> HIDE DEF i
<1>4. /\ a'.white = {}
      /\ \A o \in ObjIds :
           /\ a'.at[o] = Tomb => o \in new_b.white
           /\ Has(a, o)' => a'.at[o] = o
  BY <1>2, <1>3, ObjTableAssumption DEF Shape, LayersInv, CopyInv, Has
<1>6. LayersInv'
  BY <1>3, <1>4, BlankLayer, ObjTableAssumption DEF Shape, LayersInv, CopyInv
<1>5. CopyInv'
  BY <1>3, BlankCopy DEF Consolidating
<1> QED
  BY <1>5, <1>6 DEF Shape

LEMMA MainShape ==
  ASSUME TypeInv, Shape, MainNext
  PROVE  Shape'
<1>0. LayerTypes /\ OtherTypes
  BY TypeParts
<1>1. CASE New
  <2>1. next_obj_id \in ObjIds
    BY <1>0, <1>1, ObjTableAssumption DEF New, OtherTypes, ObjIds
  <2> QED
    BY <1>1, <2>1, EmptyContents, PutShape DEF New
<1>2. ASSUME NEW o \in ObjIds, NEW f \in Field, NEW v \in ObjIds, SetField(o, f, v)
      PROVE  Shape'
  <2> DEFINE x == [MutableLayer(o) EXCEPT ![f] = v]
  <2>1. x \in Contents
    BY <1>0, MutableOver, FieldWritten
  <2>2. a' = Put(a, o, x) /\ UNCHANGED <<b, c, request, gcpc, gc>>
    BY <1>2 DEF SetField
  <2> HIDE DEF x
  <2> QED
    BY <2>1, <2>2, PutShape
<1>3. ASSUME NEW o \in ObjIds, NEW p \in ObjIds, Inherit(o, p)
      PROVE  Shape'
  <2> DEFINE x == Over(Newest(p), MutableLayer(o))
  <2>1. x \in Contents
    BY <1>0, MutableOver, NewestOver, OverContents
  <2>2. a' = Put(a, o, x) /\ UNCHANGED <<b, c, request, gcpc, gc>>
    BY <1>3 DEF Inherit
  <2> HIDE DEF x
  <2> QED
    BY <2>1, <2>2, PutShape
<1>4. ASSUME NEW o \in ObjIds, \/ \E f \in Field : GetField(o, f)
                              \/ Drop(o) \/ PopToLocal(o)
      PROVE  Shape'
  BY <1>4, SameShape DEF GetField, Drop, PopToLocal
<1>5. CASE PushLocal \/ FinishCompile
  BY <1>5, SameShape DEF PushLocal, FinishCompile
<1> QED
  BY <1>1, <1>2, <1>3, <1>4, <1>5, CollectShape, IntegrateShape DEF MainNext

\* A traversal that gets past o copies o at most.
LEMMA PassedB ==
  ASSUME TypeInv, CopyB, NEW q \in ObjIds
  PROVE  /\ ~Copied(cursor)
         /\ Copied(q)' <=> Copied(q) \/ (q = cursor /\ Has(b, q))
<1>1. /\ gcpc = "copy_b"
      /\ b' = b /\ c' = c /\ dark' = dark
      /\ \/ cursor < N /\ cursor' = cursor + 1 /\ gcpc' = gcpc
         \/ ~(cursor < N) /\ cursor' = 1 /\ gcpc' = "copy_c"
  BY DEF CopyB, Visited, layers
<1>2. q \in Nat /\ cursor \in Nat /\ N \in Nat /\ 1 <= q /\ q <= N /\ cursor <= N
  BY ObjTableAssumption DEF ObjIds, TypeInv, TypeOK
<1>3. PastB(q)' <=> PastB(q) \/ q = cursor
  BY <1>1, <1>2 DEF PastB
<1>4. ~PastC(q) /\ ~PastC(q)' /\ ~PastC(cursor) /\ ~PastB(cursor)
  BY <1>1, <1>2 DEF PastB, PastC
<1> QED
  BY <1>1, <1>3, <1>4 DEF Copied, Has

LEMMA PassedC ==
  ASSUME TypeInv, CopyC, NEW q \in ObjIds
  PROVE  /\ ~PastC(cursor)
         /\ PastC(q)' <=> PastC(q) \/ q = cursor
         /\ Copied(q)' <=>
              Copied(q) \/ (q = cursor /\ Has(c, q) /\ q \notin c.white \ dark)
<1>1. /\ gcpc = "copy_c"
      /\ b' = b /\ c' = c /\ dark' = dark
      /\ \/ cursor < N /\ cursor' = cursor + 1 /\ gcpc' = gcpc
         \/ ~(cursor < N) /\ cursor' = 1 /\ gcpc' = "done"
  BY DEF CopyC, Visited, layers
<1>2. q \in Nat /\ cursor \in Nat /\ N \in Nat /\ 1 <= q /\ q <= N /\ cursor <= N
  BY ObjTableAssumption DEF ObjIds, TypeInv, TypeOK
<1>3. PastC(q)' <=> PastC(q) \/ q = cursor
  BY <1>1, <1>2 DEF PastC
<1>4. PastB(q) /\ PastB(q)' /\ ~PastC(cursor)
  BY <1>1, <1>2 DEF PastB, PastC
<1>5. (Has(b, q))' = Has(b, q) /\ (Has(c, q) /\ q \notin c.white \ dark)'
                                 = (Has(c, q) /\ q \notin c.white \ dark)
  BY <1>1 DEF Has
<1> QED
  BY <1>3, <1>4, <1>5 DEF Copied

\* new_b gets an entry for o, with a cell of its own or another's.
LEMMA EntryAdded ==
  ASSUME CopyInv, new_b.at \in [ObjIds -> ObjIds \cup {Absent, Tomb}],
         NEW o \in ObjIds, NEW p \in ObjIds, ~Has(new_b, o), p = o \/ new_b.at[p] = p,
         gcpc # "comparing", Consolidating', dark' = dark,
         new_b'.at = [new_b.at EXCEPT ![o] = p],
         new_b'.white = new_b.white \cup ({o} \ dark),
         white_list' = white_list \cup ({o} \ dark),
         \A q \in ObjIds : Copied(q)' <=> Copied(q) \/ q = o
  PROVE  CopyInv'
<1>0. Tomb \notin ObjIds
  BY ObjTableAssumption
<1>1. ASSUME NEW q \in ObjIds
      PROVE  /\ new_b'.at[q] # Tomb
             /\ Has(new_b, q)' <=> Has(new_b, q) \/ q = o
             /\ Has(new_b, q)' => new_b'.at[new_b'.at[q]] = new_b'.at[q]
  <2>1. CASE q = o
    BY <2>1, <1>0 DEF Has
  <2>2. CASE q # o
    BY <2>2 DEF Has, CopyInv
  <2> QED
    BY <2>1, <2>2
<1>2. white_list' = {q \in ObjIds : Has(new_b, q)' /\ q \notin dark'}
  BY <1>1 DEF CopyInv
<1>3. \A q \in ObjIds : (Copied(q))' => (Has(b, q) \/ Has(c, q))'
  BY DEF Copied
<1> QED
  BY <1>1, <1>2, <1>3 DEF CopyInv

LEMMA SameEntries ==
  ASSUME CopyInv, gcpc # "comparing", Consolidating', dark' = dark, new_b'.at = new_b.at,
         new_b'.white = new_b.white, white_list' = white_list,
         \A q \in ObjIds : Copied(q)' <=> Copied(q)
  PROVE  CopyInv'
<1>1. \A q \in ObjIds : (Copied(q))' => (Has(b, q) \/ Has(c, q))'
  BY DEF Copied
<1> QED
  BY <1>1 DEF CopyInv, Has

LEMMA SharedCell ==
  ASSUME CopyInv, NEW o, NEW x, NEW p \in EqualCells(o, x), new_b \in Layer
  PROVE  p \in ObjIds /\ new_b.at[p] = p
  BY DEF EqualCells, KlassCells, CopyInv, Layer, Has

LEMMA GcShape ==
  ASSUME TypeInv, Shape, GcNext
  PROVE  Shape'
<1>0. /\ LayerTypes /\ OtherTypes /\ LayersInv /\ CopyInv /\ cursor \in ObjIds
      /\ new_b \in Layer /\ c \in Layer /\ b \in Layer
      /\ new_b.at \in [ObjIds -> ObjIds \cup {Absent, Tomb}]
  BY TypeParts DEF Shape, OtherTypes, ObjIds, LayerTypes, LayerOver, Layer
<1>1. gcpc # "idle" /\ gcpc' # "idle" /\ UNCHANGED <<layers, request>>
  BY DEF GcNext, MarkRoots, GrayObjectLeaves, MarkingDone, CopyB, CopyC, CompareForever,
         Visited
<1>2. LayersInv'
  BY <1>0, <1>1 DEF LayersInv, layers, request
<1>3. CASE MarkRoots \/ \E o \in ObjIds : GrayObjectLeaves(o)
  <2>1. ~Consolidating /\ ~Consolidating' /\ UNCHANGED <<new_b, white_list>>
    BY <1>3 DEF MarkRoots, GrayObjectLeaves, Consolidating
  <2> QED
    BY <1>0, <1>2, <2>1, BlankCopy, BlankLayer DEF CopyInv, Shape
<1>4. CASE MarkingDone
  <2>1. /\ ~Consolidating /\ gcpc' = "copy_b" /\ cursor' = 1
        /\ UNCHANGED <<new_b, white_list, dark>>
    BY <1>4 DEF MarkingDone, Consolidating
  <2>2. new_b' = Blank /\ white_list' = {}
    BY <1>0, <2>1, BlankLayer DEF CopyInv
  <2>3. \A o \in ObjIds : ~(o < 1)
    BY DEF ObjIds
  <2>4. \A o \in ObjIds : ~Copied(o)'
    BY <2>1, <2>3 DEF Copied, PastB, PastC
  <2> QED
    BY <1>2, <2>1, <2>2, <2>4, BlankLayer DEF CopyInv, Shape, Consolidating
<1>5. CASE CopyB
  <2> DEFINE o == cursor
             x == In(b, o)
  <2>1. /\ \A q \in ObjIds : Copied(q)' <=> Copied(q) \/ (q = o /\ Has(b, q))
        /\ ~Copied(o)
    BY <1>0, <1>5, PassedB
  <2>2. gcpc # "comparing" /\ Consolidating' /\ dark' = dark
    BY <1>5 DEF CopyB, Visited, Consolidating
  <2>3. \/ ~Has(b, o) /\ UNCHANGED <<new_b, white_list>>
        \/ /\ Has(b, o) /\ o \in dark /\ UNCHANGED white_list
           /\ \E p \in EqualCells(o, x) : new_b' = Share(o, p)
        \/ /\ Has(b, o)
           /\ new_b' = Clone(o, x)
           /\ white_list' = IF o \in dark THEN white_list ELSE white_list \cup {o}
    BY <1>5 DEF CopyB
  <2>4. x \in Contents
    BY <1>0, InLayer
  <2>5. ~Has(new_b, o)
    BY <1>0, <1>5, <2>1 DEF CopyInv, CopyB
  <2> HIDE DEF o, x
  <2>6. CASE ~Has(b, o) /\ UNCHANGED <<new_b, white_list>>
    <3>1. \A q \in ObjIds : Copied(q)' <=> Copied(q)
      BY <2>1, <2>6
    <3>2. new_b'.at = new_b.at /\ new_b'.white = new_b.white /\ white_list' = white_list
      BY <2>6
    <3> QED
      BY <1>0, <1>2, <2>2, <3>1, <3>2, SameEntries DEF Shape
  <2>7. ASSUME Has(b, o), o \in dark, UNCHANGED white_list,
               NEW p \in EqualCells(o, x), new_b' = Share(o, p)
        PROVE  CopyInv'
    <3>1. p \in ObjIds /\ new_b.at[p] = p
      BY <1>0, SharedCell
    <3>2. new_b'.at = [new_b.at EXCEPT ![o] = p] /\ new_b'.white = new_b.white
      BY <1>0, <2>7, <3>1, ShareLayer DEF o
    <3> QED
      BY <1>0, <2>1, <2>2, <2>5, <2>7, <3>1, <3>2, EntryAdded DEF o
  <2>8. ASSUME Has(b, o), new_b' = Clone(o, x),
               white_list' = IF o \in dark THEN white_list ELSE white_list \cup {o}
        PROVE  CopyInv'
    <3>1. /\ new_b'.at = [new_b.at EXCEPT ![o] = o]
          /\ new_b'.white = new_b.white \cup ({o} \ dark)
      BY <1>0, <2>4, <2>8, CloneLayer DEF o
    <3> QED
      BY <1>0, <2>1, <2>2, <2>5, <2>8, <3>1, EntryAdded DEF o
  <2> QED
    BY <1>2, <2>3, <2>6, <2>7, <2>8 DEF Shape
<1>6. CASE CopyC
  <2> DEFINE o == cursor
             x == In(c, o)
             kept == Has(c, o) /\ o \notin c.white \ dark
  <2>1. \A q \in ObjIds : Copied(q)' <=> Copied(q) \/ (q = o /\ kept)
    BY <1>0, <1>6, PassedC
  <2>2. gcpc # "comparing" /\ Consolidating' /\ dark' = dark
    BY <1>6 DEF CopyC, Visited, Consolidating
  <2>3. c.at[o] # Absent <=> Has(c, o)
    BY <1>0, ObjTableAssumption DEF LayersInv, Has, Layer
  <2>4. \/ ~kept /\ UNCHANGED <<new_b, white_list>>
        \/ /\ kept /\ UNCHANGED white_list /\ Has(new_b, o)
           /\ new_b' = MergeC(o)
        \/ /\ kept /\ o \in dark /\ UNCHANGED white_list /\ ~Has(new_b, o)
           /\ \E p \in EqualCells(o, x) : new_b' = Share(o, p)
        \/ /\ kept /\ ~Has(new_b, o)
           /\ new_b' = Clone(o, x)
           /\ white_list' = IF o \in dark THEN white_list ELSE white_list \cup {o}
    BY <1>6, <2>3 DEF CopyC
  <2>5. x \in Contents
    BY <1>0, InLayer
  <2> HIDE DEF o, x, kept
  <2>6. CASE ~kept /\ UNCHANGED <<new_b, white_list>>
    <3>1. \A q \in ObjIds : Copied(q)' <=> Copied(q)
      BY <2>1, <2>6
    <3>2. new_b'.at = new_b.at /\ new_b'.white = new_b.white /\ white_list' = white_list
      BY <2>6
    <3> QED
      BY <1>0, <1>2, <2>2, <3>1, <3>2, SameEntries DEF Shape
  <2>7. CASE kept /\ UNCHANGED white_list /\ Has(new_b, o) /\ new_b' = MergeC(o)
    <3>1. new_b'.at = new_b.at /\ new_b'.white = new_b.white
      BY <1>0, <2>7, MergeLayer DEF MergeC, o
    <3>2. \A q \in ObjIds : Copied(q)' <=> Copied(q)
      BY <1>0, <1>6, <2>1, <2>7 DEF CopyInv, CopyC, o
    <3> QED
      BY <1>0, <1>2, <2>2, <2>7, <3>1, <3>2, SameEntries DEF Shape
  <2>8. ASSUME kept, o \in dark, UNCHANGED white_list, ~Has(new_b, o),
               NEW p \in EqualCells(o, x), new_b' = Share(o, p)
        PROVE  CopyInv'
    <3>1. p \in ObjIds /\ new_b.at[p] = p
      BY <1>0, SharedCell
    <3>2. new_b'.at = [new_b.at EXCEPT ![o] = p] /\ new_b'.white = new_b.white
      BY <1>0, <2>8, <3>1, ShareLayer DEF o
    <3> QED
      BY <1>0, <2>1, <2>2, <2>8, <3>1, <3>2, EntryAdded DEF o
  <2>9. ASSUME kept, ~Has(new_b, o), new_b' = Clone(o, x),
               white_list' = IF o \in dark THEN white_list ELSE white_list \cup {o}
        PROVE  CopyInv'
    <3>1. /\ new_b'.at = [new_b.at EXCEPT ![o] = o]
          /\ new_b'.white = new_b.white \cup ({o} \ dark)
      BY <1>0, <2>5, <2>9, CloneLayer DEF o
    <3> QED
      BY <1>0, <2>1, <2>2, <2>9, <3>1, EntryAdded DEF o
  <2> QED
    BY <1>2, <2>4, <2>6, <2>7, <2>8, <2>9 DEF Shape
<1>7. CASE CompareForever
  <2>1. /\ Consolidating' /\ gcpc' = "comparing"
        /\ UNCHANGED <<new_b, white_list, dark, b, c>>
    BY <1>7 DEF CompareForever, Consolidating, gc, layers
  <2> QED
    BY <1>0, <1>2, <2>1 DEF CopyInv, Shape, Has
<1> QED
  BY <1>3, <1>4, <1>5, <1>6, <1>7 DEF GcNext

LEMMA ShapeStep == TypeInv /\ Shape /\ [Next]_vars => Shape'
<1>1. ASSUME Shape, UNCHANGED vars PROVE Shape'
  BY <1>1, SameShape DEF vars
<1> QED
  BY <1>1, MainShape, GcShape DEF Next

LEMMA ShapeInvariance == Spec => [](TypeInv /\ Shape)
  BY TypeInit, TypeStep, ShapeInit, ShapeStep, PTL DEF Spec

\* What the consolidation assumes of its input layers holds of every state:
\* C has no invalidated entry, no entry of B is flagged when it is copied,
\* freezing finds C empty, and what is invalidated in a layer is flagged below.
THEOREM LayersStayWellFormed == Spec => []LayersWellFormed
<1>1. TypeInv /\ Shape => LayersWellFormed
  BY ObjTableAssumption DEF Shape, LayersInv, CopyInv, LayersWellFormed, Has
<1> QED
  BY <1>1, ShapeInvariance, PTL
-----------------------------------------------------------------------------
(***************************************************************************)
(* What a collection drops.                                                *)
(***************************************************************************)

LEMMA PutHas ==
  ASSUME NEW l \in Layer, NEW o \in ObjIds, NEW x, NEW q \in ObjIds
  PROVE  Has(Put(l, o, x), q) <=> Has(l, q) \/ q = o
  BY DEF Put, Has, Layer

LEMMA InvalidateHas ==
  ASSUME NEW l \in Layer, NEW W, NEW q \in ObjIds
  PROVE  Has(Invalidate(l, W), q) <=> Has(l, q) /\ q \notin W
  BY ObjTableAssumption DEF Invalidate, Has, Layer

LEMMA DropStep ==
  ASSUME TypeInv, Shape, [Next]_vars, NEW o \in ObjIds, Resolves(o), ~Resolves(o)'
  PROVE  gcpc = "done" /\ o \in c.white \ dark
<1>1. CASE UNCHANGED layers
  BY <1>1 DEF layers, Resolves, Has
<1>2. ASSUME NEW p \in ObjIds, NEW x, a' = Put(a, p, x), UNCHANGED <<b, c>>
      PROVE  FALSE
  <2>1. Has(a, o)' <=> Has(a, o) \/ o = p
    BY <1>2, PutHas DEF TypeInv, LayerOver, Has
  <2> QED
    BY <1>2, <2>1 DEF Resolves, Has
<1>3. CASE CollectGarbage
  <2>1. gcpc = "idle" /\ b' = a /\ c' = b
    BY <1>3 DEF CollectGarbage
  <2>2. ~Has(c, o)
    BY <2>1, BlankLayer DEF Shape, LayersInv
  <2> QED
    BY <2>1, <2>2 DEF Resolves, Has
<1>4. CASE IntegrateGCResponse
  <2>1. gcpc = "done" /\ b' = new_b /\ a' = Invalidate(a, white_list)
    BY <1>4 DEF IntegrateGCResponse
  <2>2. Has(a, o)' <=> Has(a, o) /\ o \notin white_list
    BY <2>1, InvalidateHas DEF TypeInv, LayerOver, Has
  <2>3. ~Has(new_b, o)
    BY <2>1 DEF Resolves, Has
  <2>4. ~Has(a, o) /\ ~Copied(o)
    BY <2>1, <2>2, <2>3 DEF Shape, CopyInv, Resolves
  <2>5. PastB(o) /\ PastC(o)
    BY <2>1 DEF PastB, PastC
  <2> QED
    BY <2>1, <2>4, <2>5 DEF Copied, Resolves
<1>5. CASE New
  <2>1. next_obj_id \in ObjIds
    BY <1>5, ObjTableAssumption DEF New, TypeInv, TypeOK, ObjIds
  <2> QED
    BY <1>2, <1>5, <2>1 DEF New
<1>6. ASSUME NEW q \in ObjIds, NEW f \in Field, NEW v \in ObjIds, SetField(q, f, v)
      PROVE  FALSE
  BY <1>2, <1>6 DEF SetField
<1>7. ASSUME NEW q \in ObjIds, NEW p \in ObjIds, Inherit(q, p)
      PROVE  FALSE
  BY <1>2, <1>7 DEF Inherit
<1>8. CASE \/ \E q \in ObjIds, f \in Field : GetField(q, f)
           \/ \E q \in ObjIds : Drop(q) \/ PopToLocal(q)
           \/ PushLocal \/ FinishCompile \/ UNCHANGED vars
  BY <1>1, <1>8 DEF GetField, Drop, PopToLocal, PushLocal, FinishCompile, vars
<1>9. CASE GcNext
  BY <1>1, <1>9 DEF GcNext, MarkRoots, GrayObjectLeaves, MarkingDone, CopyB, CopyC,
                    CompareForever
<1> QED
  BY <1>3, <1>4, <1>5, <1>6, <1>7, <1>8, <1>9 DEF Next, MainNext

\* Whatever the program does while a collection runs, an id stops resolving only
\* at an integration, and only if that collection did not reach it and an earlier
\* one had flagged it.
THEOREM OnlyTwiceWhiteIsDropped == Spec => DroppedOnlyWhenWhiteTwice
<1>1. TypeInv /\ Shape /\ [Next]_vars =>
        [\A o \in ObjIds :
           Resolves(o) /\ ~Resolves(o)' => gcpc = "done" /\ o \in c.white \ dark]_vars
  BY DropStep
<1> QED
  BY <1>1, ShapeInvariance, PTL DEF Spec, DroppedOnlyWhenWhiteTwice
-----------------------------------------------------------------------------
(***************************************************************************)
(* Objects that are equal.                                                 *)
(***************************************************************************)

LEMMA LeastIsLeast ==
  ASSUME NEW base \in SUBSET Pairs, NEW val, NEW R \in SUBSET Pairs, base \subseteq R,
         \A q \in Pairs : FieldsAgree(R, KlassOf[q[1]], val[q[1]], val[q[2]]) => q \in R
  PROVE  LeastAgreement(base, val) \subseteq R
  BY DEF LeastAgreement

LEMMA FieldsAgreeMore ==
  ASSUME NEW R, NEW S, R \subseteq S, NEW k, NEW x, NEW y, FieldsAgree(R, k, x, y)
  PROVE  FieldsAgree(S, k, x, y)
  BY DEF FieldsAgree

LEMMA LeastAgrees ==
  ASSUME NEW base \in SUBSET Pairs, NEW val
  PROVE  /\ base \subseteq LeastAgreement(base, val)
         /\ LeastAgreement(base, val) \subseteq Pairs
         /\ \A q \in Pairs :
              FieldsAgree(LeastAgreement(base, val), KlassOf[q[1]], val[q[1]], val[q[2]])
                => q \in LeastAgreement(base, val)
<1> DEFINE least == LeastAgreement(base, val)
<1>1. base \subseteq least /\ least \subseteq Pairs
  BY DEF LeastAgreement
<1>2. ASSUME NEW q \in Pairs, FieldsAgree(least, KlassOf[q[1]], val[q[1]], val[q[2]]),
             NEW R \in SUBSET Pairs, base \subseteq R,
             \A s \in Pairs : FieldsAgree(R, KlassOf[s[1]], val[s[1]], val[s[2]]) => s \in R
      PROVE  q \in R
  <2>1. least \subseteq R
    BY <1>2, LeastIsLeast
  <2> HIDE DEF least
  <2>2. FieldsAgree(R, KlassOf[q[1]], val[q[1]], val[q[2]])
    BY <1>2, <2>1, FieldsAgreeMore
  <2> QED
    BY <1>2, <2>2
<1> QED
  BY <1>1, <1>2 DEF LeastAgreement

\* What fields refer to, in the frozen layers and so in new_b too.
FrozenReferents == Referents(b) \cup Referents(c)

RefsInv ==
  /\ Referents(new_b) \subseteq FrozenReferents
  /\ gcpc # "idle" => EqualReferents \/ ReferentsDiffer(b, c)

LEMMA InReferents ==
  ASSUME NEW l, NEW o \in ObjIds
  PROVE  Refs(In(l, o)) \subseteq Referents(l)
  BY EmptyContents DEF Referents, In, Has

LEMMA BlankReferents == Referents(Blank) = {}
  BY BlankLayer, EmptyContents DEF Referents

\* One cell of new_b is written.
LEMMA CellWritten ==
  ASSUME TypeInv, RefsInv, gcpc # "idle", UNCHANGED <<b, c>>, NEW p \in ObjIds,
         NEW x \in Contents, Refs(x) \subseteq FrozenReferents,
         new_b'.cell = [new_b.cell EXCEPT ![p] = x]
  PROVE  RefsInv'
<1>1. new_b.cell \in [ObjIds -> Contents]
  BY DEF TypeInv, LayerOver, Layer
<1>2. \A q \in ObjIds : Refs(new_b'.cell[q]) \subseteq FrozenReferents
  BY <1>1 DEF RefsInv, Referents
<1> QED
  BY <1>2 DEF RefsInv, Referents, FrozenReferents

LEMMA SameReferents ==
  ASSUME RefsInv, UNCHANGED <<b, c, new_b>>, gcpc = "idle" => gcpc' = "idle"
  PROVE  RefsInv'
  BY DEF RefsInv, FrozenReferents

LEMMA CopyReferents ==
  ASSUME TypeInv, Shape, RefsInv, CopyB \/ CopyC, NEW o \in ObjIds, o = cursor
  PROVE  RefsInv'
<1>0. /\ gcpc # "idle" /\ UNCHANGED <<b, c>>
      /\ new_b \in Layer /\ b \in Layer /\ c \in Layer /\ CopyInv
  BY DEF CopyB, CopyC, layers, TypeInv, LayerOver, Shape
<1>1. ASSUME NEW l \in {b, c}, NEW p \in EqualCells(o, In(l, o)), new_b' = Share(o, p)
      PROVE  RefsInv'
  <2>1. p \in ObjIds
    BY <1>0, SharedCell
  <2>2. new_b'.cell = new_b.cell
    BY <1>0, <1>1, <2>1, ShareLayer
  <2> QED
    BY <1>0, <2>2 DEF RefsInv, Referents, FrozenReferents
<1>2. ASSUME NEW l \in {b, c}, new_b' = Clone(o, In(l, o))
      PROVE  RefsInv'
  <2> DEFINE x == In(l, o)
  <2>1. x \in Contents /\ Refs(x) \subseteq FrozenReferents
    BY <1>0, InLayer, InReferents DEF FrozenReferents
  <2>2. new_b'.cell = [new_b.cell EXCEPT ![o] = x]
    BY <1>0, <1>2, <2>1, CloneLayer
  <2> HIDE DEF x
  <2> QED
    BY <1>0, <2>1, <2>2, CellWritten
<1>3. CASE Has(new_b, o) /\ new_b' = MergeC(o)
  <2> DEFINE x == Over(In(new_b, o), In(c, o))
  <2>1. CASE o \in Layered /\ o \notin new_b.white
    <3>1. /\ In(new_b, o) \in Contents /\ In(c, o) \in Contents
          /\ Refs(In(new_b, o)) \subseteq FrozenReferents
          /\ Refs(In(c, o)) \subseteq FrozenReferents
      BY <1>0, InLayer, InReferents DEF FrozenReferents, RefsInv
    <3>2. x \in Contents /\ Refs(x) \subseteq FrozenReferents
      BY <3>1, OverContents
    <3>3. new_b.at[o] \in ObjIds /\ new_b'.cell = [new_b.cell EXCEPT ![new_b.at[o]] = x]
      BY <1>0, <1>3, <2>1, MergeLayer DEF Has
    <3> HIDE DEF x
    <3> QED
      BY <1>0, <3>2, <3>3, CellWritten
  <2>2. CASE ~(o \in Layered /\ o \notin new_b.white)
    BY <1>0, <1>3, <2>2, SameReferents DEF MergeC
  <2> QED
    BY <2>1, <2>2
<1>4. \/ new_b' = new_b
      \/ Has(new_b, o) /\ new_b' = MergeC(o)
      \/ \E l \in {b, c} : \/ \E p \in EqualCells(o, In(l, o)) : new_b' = Share(o, p)
                          \/ new_b' = Clone(o, In(l, o))
  BY DEF CopyB, CopyC
<1> QED
  BY <1>0, <1>1, <1>2, <1>3, <1>4, SameReferents

LEMMA RefsStep ==
  ASSUME TypeInv, Shape, RefsInv, [Next]_vars
  PROVE  RefsInv'
<1>1. CASE CollectGarbage
  <2>1. new_b' = Blank /\ b' = a /\ c' = b /\ (EqualReferents \/ ReferentsDiffer(a, b))
    BY <1>1 DEF CollectGarbage, Shape, CopyInv, Consolidating, gc
  <2>2. ReferentsDiffer(b, c)' = ReferentsDiffer(b', c')
    BY DEF ReferentsDiffer, EqualObjects, LeastAgreement, FrozenValue, Frozen, In, Has,
           Referents
  <2> QED
    BY <2>1, <2>2, BlankReferents DEF RefsInv
<1>2. CASE IntegrateGCResponse
  BY <1>2, BlankReferents DEF IntegrateGCResponse, RefsInv
<1>3. cursor \in ObjIds
  BY DEF TypeInv, TypeOK, ObjIds
<1>4. CASE GcNext /\ ~(CopyB \/ CopyC)
  BY <1>4, SameReferents DEF GcNext, MarkRoots, GrayObjectLeaves, MarkingDone,
                             CompareForever, layers, gc
<1>5. CASE \/ New
           \/ \E o \in ObjIds, f \in Field, v \in ObjIds : SetField(o, f, v)
           \/ \E o, p \in ObjIds : Inherit(o, p)
           \/ \E o \in ObjIds, f \in Field : GetField(o, f)
           \/ \E o \in ObjIds : Drop(o) \/ PopToLocal(o)
           \/ PushLocal \/ FinishCompile \/ UNCHANGED vars
  BY <1>5, SameReferents DEF New, SetField, Inherit, GetField, Drop, PopToLocal, PushLocal,
                             FinishCompile, vars, layers, gc
<1> QED
  BY <1>1, <1>2, <1>3, <1>4, <1>5, CopyReferents DEF Next, MainNext

LEMMA RefsInvariance == Spec => [](TypeInv /\ Shape /\ RefsInv)
<1>1. Init => RefsInv
  BY BlankReferents DEF Init, RefsInv
<1>2. TypeInv /\ Shape /\ RefsInv /\ [Next]_vars => RefsInv'
  BY RefsStep
<1> QED
  BY <1>1, <1>2, TypeInit, TypeStep, ShapeInit, ShapeStep, PTL DEF Spec

\* While no two objects that fields refer to are equal, a cell is shared only by
\* objects with the very same contents.
LEMMA ExactCell ==
  ASSUME ~EqualReferents, TypeInv, Shape, RefsInv, gcpc # "idle",
         NEW o \in ObjIds, NEW l \in {b, c}, NEW p \in EqualCells(o, In(l, o))
  PROVE  new_b.cell[p] = In(l, o)
<1> DEFINE x == In(l, o)
           y == new_b.cell[p]
           equal == EqualObjects(FrozenValue(b, c))
<1>1. new_b \in Layer /\ b \in Layer /\ c \in Layer /\ p \in ObjIds
  BY SharedCell DEF TypeInv, LayerOver, Shape
<1>2. x \in Contents /\ y \in Contents
  BY <1>1, InLayer DEF Layer
<1>3. Refs(x) \subseteq FrozenReferents /\ Refs(y) \subseteq FrozenReferents
  BY <1>1, InReferents DEF RefsInv, FrozenReferents, Referents
<1>4. \A q \in equal : {q[1], q[2]} \subseteq FrozenReferents => q[1] = q[2]
  BY DEF RefsInv, ReferentsDiffer, FrozenReferents
<1>5. FieldsAgree(equal, KlassOf[o], y, x)
  BY DEF EqualCells
<1>6. equal \subseteq Pairs /\ {} \subseteq Pairs
  BY LeastAgrees DEF EqualObjects
<1> HIDE DEF x, y, equal
<1>7. ASSUME NEW f \in Field, <<y[f], x[f]>> \in equal
      PROVE  y[f] = x[f]
  <2>1. y[f] \in ObjIds /\ x[f] \in ObjIds
    BY <1>6, <1>7 DEF Pairs
  <2>2. y[f] \in Refs(y) /\ x[f] \in Refs(x)
    BY <1>2, <2>1, ContentsRefs, ObjTableAssumption
  <2> QED
    BY <1>3, <1>4, <1>7, <2>2
<1>8. y = x \/ \A f \in Field : y[f] = x[f]
  BY <1>5, <1>7 DEF FieldsAgree
<1>9. y = x
  BY <1>2, <1>8 DEF Contents
<1> QED
  BY <1>9 DEF x, y
-----------------------------------------------------------------------------
(***************************************************************************)
(* What the consolidation writes into new_b.                               *)
(***************************************************************************)

\* When C is merged into a cell of new_b in place, no object that shares the cell
\* may notice: either instances and classes have one field, so that the younger of
\* two layers masks the older, or each is the only one of its type and its
\* immutable part, so that nothing shares its cell.  Neither need hold of a
\* program; the run objtable_shared_merge shows what becomes of the values then.
MergesUnseen ==
  \/ \A f, g \in Field : f = g
  \/ \A o \in Layered, p \in ObjIds : KlassOf[o] = KlassOf[p] => o = p

\* An instance or a class with an empty layer had no field set before.
CoverInv ==
  \A o \in Layered :
    /\ Has(a, o) /\ In(a, o) = Empty => In(b, o) = Empty /\ In(c, o) = Empty
    /\ Has(b, o) /\ In(b, o) = Empty => In(c, o) = Empty

\* Two objects with the same value in B and C.
Alike ==
  LeastAgreement({<<o, o>> : o \in ObjIds}, [o \in ObjIds |-> View(Blank, b, c, o)])

\* Contents with the same references, or with references to objects with the same
\* value, where there are such objects.
SameContents(x, y) ==
  \A f \in Field : x[f] = y[f] \/ (EqualReferents /\ <<x[f], y[f]>> \in Alike)

\* A dark object copied so far has in new_b what it has in B, and once C has been
\* traversed past it, what it has in B and C.
ValueInv ==
  \A o \in ObjIds :
    Has(new_b, o) =>
      /\ KlassOf[new_b.at[o]] = KlassOf[o]
      /\ gcpc # "comparing" /\ o \in dark =>
           SameContents(In(new_b, o), IF PastC(o) THEN View(Blank, b, c, o) ELSE In(b, o))

LEMMA OldView ==
  ASSUME NEW y \in Layer, NEW z \in Layer, NEW o \in ObjIds
  PROVE  /\ View(Blank, y, z, o) =
              IF o \in Layered THEN Over(In(y, o), In(z, o))
              ELSE IF Has(y, o) THEN In(y, o) ELSE In(z, o)
         /\ ~Has(y, o) => View(Blank, y, z, o) = In(z, o)
         /\ ~Has(z, o) => View(Blank, y, z, o) = In(y, o)
<1>1. In(y, o) \in Contents /\ In(z, o) \in Contents
  BY InLayer
<1>2. Over(In(y, o), In(z, o)) \in Contents
  BY <1>1, OverContents
<1>3. ~Has(Blank, o) /\ In(Blank, o) = Empty
  BY BlankLayer DEF In
<1>4. Over(Empty, Over(In(y, o), In(z, o))) = Over(In(y, o), In(z, o))
  BY <1>2, EmptyContents, OverContents
<1>5. Over(In(y, o), Empty) = In(y, o) /\ Over(Empty, In(z, o)) = In(z, o)
  BY <1>1, EmptyContents, OverContents
<1>6. (~Has(y, o) => In(y, o) = Empty) /\ (~Has(z, o) => In(z, o) = Empty)
  BY DEF In
<1> QED
  BY <1>3, <1>4, <1>5, <1>6 DEF View

LEMMA AlikePairs ==
  /\ {<<o, o>> : o \in ObjIds} \in SUBSET Pairs
  /\ Alike \subseteq ObjIds \X ObjIds
<1>1. {<<o, o>> : o \in ObjIds} \in SUBSET Pairs
  BY DEF Pairs
<1>2. Alike \subseteq Pairs
  BY <1>1, LeastAgrees DEF Alike
<1> QED
  BY <1>1, <1>2 DEF Pairs

LEMMA SameAlike ==
  ASSUME UNCHANGED <<b, c>>
  PROVE  Alike' = Alike
  BY DEF Alike, LeastAgreement, View, In, Has

LEMMA SameFrozen ==
  ASSUME UNCHANGED <<b, c>>
  PROVE  /\ \A x, y : SameContents(x, y)' <=> SameContents(x, y)
         /\ \A o : (In(b, o))' = In(b, o) /\ (View(Blank, b, c, o))' = View(Blank, b, c, o)
  BY SameAlike DEF SameContents, In, View, Has

\* What fields refer to are references on both sides or on neither.
LEMMA AlikeOver ==
  ASSUME NEW x \in Contents, NEW y \in Contents, SameContents(x, y), NEW z \in Contents
  PROVE  /\ SameContents(Over(x, z), Over(y, z))
         /\ \A f \in Field : x[f] = None <=> y[f] = None
         /\ y = Empty => x = Empty
         /\ ~EqualReferents => x = y
<1>1. \A f \in Field : x[f] = None <=> y[f] = None
  BY AlikePairs, ObjTableAssumption DEF SameContents
<1>2. SameContents(Over(x, z), Over(y, z))
  BY <1>1 DEF SameContents, Over
<1>3. y = Empty => x = Empty
  BY <1>1 DEF Empty, Contents
<1>4. ~EqualReferents => \A f \in Field : x[f] = y[f]
  BY DEF SameContents
<1>5. ~EqualReferents => x = y
  BY <1>4 DEF Contents
<1> QED
  BY <1>1, <1>2, <1>3, <1>5

\* The comparison looks at the newest frozen layer of what fields refer to, and so
\* takes for equal only what is equal in both.
LEMMA EqualIsAlike ==
  ASSUME MergesUnseen, TypeInv, CoverInv
  PROVE  EqualObjects(FrozenValue(b, c)) \subseteq Alike
<1> DEFINE old == [o \in ObjIds |-> View(Blank, b, c, o)]
           new == FrozenValue(b, c)
           same == {<<o, o>> : o \in ObjIds}
<1>0. b \in Layer /\ c \in Layer
  BY DEF TypeInv, LayerOver
<1>1. /\ same \in SUBSET Pairs
      /\ same \subseteq Alike /\ Alike \subseteq Pairs
      /\ \A q \in Pairs : FieldsAgree(Alike, KlassOf[q[1]], old[q[1]], old[q[2]]) => q \in Alike
  BY AlikePairs, LeastAgrees DEF Alike
<1>2. ASSUME NEW o \in ObjIds
      PROVE  /\ old[o] = View(Blank, b, c, o)
             /\ new[o] = Frozen(b, c, o)
             /\ o \notin Layered => new[o] = old[o]
  BY <1>0, OldView DEF FrozenValue, Frozen
<1>3. ASSUME NEW q \in Pairs, FieldsAgree(Alike, KlassOf[q[1]], new[q[1]], new[q[2]])
      PROVE  q \in Alike
  <2>1. /\ q[1] \in ObjIds /\ q[2] \in ObjIds /\ KlassOf[q[1]] = KlassOf[q[2]]
        /\ q = <<q[1], q[2]>>
    BY DEF Pairs
  <2>2. CASE \A f, g \in Field : f = g
    <3>1. ASSUME NEW o \in Layered, o \in ObjIds
          PROVE  new[o] = old[o]
      <4>1. In(b, o) \in Contents /\ In(c, o) \in Contents
        BY <1>0, <3>1, InLayer
      <4>2. CASE ~Has(b, o)
        BY <1>0, <1>2, <3>1, <4>2, OldView DEF Frozen
      <4>3. CASE Has(b, o)
        <5>1. In(b, o) = Empty => In(c, o) = Empty
          BY <4>3 DEF CoverInv
        <5>2. In(b, o) # Empty => \A f \in Field : In(b, o)[f] # None
          BY <2>2, <4>1 DEF Empty, Contents
        <5>3. Over(In(b, o), In(c, o)) = In(b, o)
          BY <4>1, <5>1, <5>2 DEF Over, Contents
        <5> QED
          BY <1>0, <1>2, <3>1, <4>3, <5>3, OldView DEF Frozen
      <4> QED
        BY <4>2, <4>3
    <3>2. new[q[1]] = old[q[1]] /\ new[q[2]] = old[q[2]]
      BY <1>2, <2>1, <3>1
    <3> HIDE DEF old, new
    <3> QED
      BY <1>1, <1>3, <3>2
  <2>3. CASE \A o \in Layered, p \in ObjIds : KlassOf[o] = KlassOf[p] => o = p
    <3>1. CASE q[1] = q[2]
      BY <1>1, <2>1, <3>1
    <3>2. CASE q[1] # q[2]
      <4>1. q[1] \notin Layered /\ q[2] \notin Layered
        BY <2>1, <2>3, <3>2
      <4>2. new[q[1]] = old[q[1]] /\ new[q[2]] = old[q[2]]
        BY <1>2, <2>1, <4>1
      <4> HIDE DEF old, new
      <4> QED
        BY <1>1, <1>3, <4>2
    <3> QED
      BY <3>1, <3>2
  <2> QED
    BY <2>2, <2>3 DEF MergesUnseen
<1> HIDE DEF new
<1> QED
  BY <1>1, <1>3, LeastIsLeast DEF EqualObjects, new

\* What shares a cell has the value of what is in it.
LEMMA AlikeCell ==
  ASSUME MergesUnseen, TypeInv, Shape, CoverInv, RefsInv, gcpc # "idle",
         NEW o \in ObjIds, NEW l \in {b, c}, NEW p \in EqualCells(o, In(l, o))
  PROVE  SameContents(new_b.cell[p], In(l, o))
<1>1. CASE ~EqualReferents
  BY <1>1, ExactCell DEF SameContents
<1>2. CASE EqualReferents
  <2> DEFINE equal == EqualObjects(FrozenValue(b, c))
  <2>1. equal \subseteq Alike
    BY EqualIsAlike
  <2>2. FieldsAgree(equal, KlassOf[o], new_b.cell[p], In(l, o))
    BY DEF EqualCells
  <2> HIDE DEF equal
  <2> QED
    BY <1>2, <2>1, <2>2 DEF FieldsAgree, SameContents
<1> QED
  BY <1>1, <1>2

LEMMA BlankValues ==
  ASSUME new_b' = Blank
  PROVE  ValueInv'
  BY BlankLayer DEF ValueInv, Has

LEMMA SameValues ==
  ASSUME ValueInv, UNCHANGED <<b, c, gcpc, cursor, dark, new_b>>
  PROVE  ValueInv'
<1>1. \A o : (In(new_b, o))' = In(new_b, o) /\ (PastC(o))' = PastC(o)
  BY DEF In, Has, PastC
<1> QED
  BY <1>1, SameFrozen DEF ValueInv, Has

\* new_b gets an entry for o that leads to what C or B has for it.
LEMMA ValueAdded ==
  ASSUME TypeInv, CopyInv, ValueInv, new_b' \in Layer, UNCHANGED <<b, c, dark>>,
         NEW o \in ObjIds, NEW p \in ObjIds, ~Has(new_b, o), p = o \/ new_b.at[p] = p,
         KlassOf[p] = KlassOf[o],
         NEW x,
         new_b'.at = [new_b.at EXCEPT ![o] = p],
         new_b'.cell[p] = x,
         \A q \in ObjIds : q # p => new_b'.cell[q] = new_b.cell[q],
         Has(new_b, p) => new_b.cell[p] = x, gcpc # "comparing",
         o \in dark =>
           SameContents(x, IF PastC(o)' THEN View(Blank, b, c, o) ELSE In(b, o)),
         \A q \in ObjIds \ {o} : PastC(q)' <=> PastC(q)
  PROVE  ValueInv'
<1>0. new_b.at \in [ObjIds -> ObjIds \cup {Absent, Tomb}]
  BY DEF TypeInv, LayerOver, Layer
<1>1. ASSUME NEW q \in ObjIds, q # o, Has(new_b, q)'
      PROVE  /\ KlassOf[new_b'.at[q]] = KlassOf[q]
             /\ q \in dark =>
                  SameContents(In(new_b, q)',
                               IF PastC(q)' THEN View(Blank, b, c, q) ELSE In(b, q))
  <2>1. new_b'.at[q] = new_b.at[q] /\ Has(new_b, q)
    BY <1>0, <1>1 DEF Has
  <2> DEFINE r == new_b.at[q]
  <2>2. r \in ObjIds /\ new_b.at[r] = r
    BY <2>1 DEF Has, CopyInv
  <2>3. new_b'.cell[r] = new_b.cell[r]
    BY <2>2 DEF Has
  <2>4. In(new_b, q)' = In(new_b, q)
    BY <1>1, <2>1, <2>3 DEF In, Has
  <2> QED
    BY <1>1, <2>1, <2>4 DEF ValueInv
<1>2. /\ new_b'.at[o] = p
      /\ o \in dark =>
           SameContents(In(new_b, o)', IF PastC(o)' THEN View(Blank, b, c, o) ELSE In(b, o))
  BY <1>0 DEF In, Has
<1> QED
  BY <1>1, <1>2, SameFrozen DEF ValueInv

LEMMA CopyBValues ==
  ASSUME MergesUnseen, TypeInv, Shape, CoverInv, RefsInv, ValueInv, CopyB,
         NEW o \in ObjIds, o = cursor
  PROVE  ValueInv'
<1> DEFINE x == In(b, o)
<1>0. /\ CopyInv /\ new_b \in Layer /\ b \in Layer
      /\ UNCHANGED <<b, c, dark>>
      /\ gcpc = "copy_b"
  BY DEF TypeInv, LayerOver, Shape, CopyB, layers
<1>1. \A q \in ObjIds : ~PastC(q) /\ ~PastC(q)'
  <2>1. gcpc = "copy_b"
        /\ (gcpc' = "copy_b" \/ (gcpc' = "copy_c" /\ cursor' = 1))
    BY DEF CopyB, Visited
  <2>2. \A q \in ObjIds : ~(q < 1)
    BY DEF ObjIds
  <2> QED
    BY <2>1, <2>2 DEF PastC
<1>2. ~Has(new_b, o)
  BY <1>0, PassedB DEF CopyInv
<1>3. x \in Contents
  BY <1>0, InLayer
<1>4. \/ new_b' = new_b
      \/ \E p \in EqualCells(o, x) : new_b' = Share(o, p)
      \/ new_b' = Clone(o, x)
  BY DEF CopyB
<1>5. CASE new_b' = new_b
  <2>1. \A q : (In(new_b, q))' = In(new_b, q) /\ (Has(new_b, q))' = Has(new_b, q)
    BY <1>5 DEF In, Has
  <2> QED
    BY <1>0, <1>1, <1>5, <2>1, SameFrozen DEF ValueInv
<1>6. ASSUME NEW p \in EqualCells(o, x), new_b' = Share(o, p)
      PROVE  ValueInv'
  <2>1. p \in ObjIds /\ new_b.at[p] = p
    BY <1>0, SharedCell
  <2> DEFINE y == new_b.cell[p]
  <2>2. KlassOf[p] = KlassOf[o] /\ SameContents(y, x)
    BY <1>0, AlikeCell DEF EqualCells, KlassCells
  <2>3. /\ new_b' \in Layer
        /\ new_b'.at = [new_b.at EXCEPT ![o] = p]
        /\ new_b'.cell = new_b.cell
    BY <1>0, <1>6, <2>1, ShareLayer
  <2>4. SameContents(y, IF PastC(o)' THEN View(Blank, b, c, o) ELSE In(b, o))
    BY <1>1, <2>2
  <2>5. new_b'.cell[p] = y /\ \A q \in ObjIds : q # p => new_b'.cell[q] = new_b.cell[q]
    BY <2>3
  <2> HIDE DEF x, y
  <2> QED
    BY <1>0, <1>1, <1>2, <2>1, <2>2, <2>3, <2>4, <2>5, ValueAdded DEF y
<1>7. CASE new_b' = Clone(o, x)
  <2>1. new_b.cell \in [ObjIds -> Contents]
    BY <1>0 DEF Layer
  <2>2. /\ new_b' \in Layer
        /\ new_b'.at = [new_b.at EXCEPT ![o] = o]
        /\ new_b'.cell = [new_b.cell EXCEPT ![o] = x]
    BY <1>0, <1>3, <1>7, CloneLayer
  <2> HIDE DEF x
  <2>3. SameContents(x, IF PastC(o)' THEN View(Blank, b, c, o) ELSE In(b, o))
    BY <1>1 DEF SameContents, x
  <2>4. new_b'.cell[o] = x /\ \A q \in ObjIds : q # o => new_b'.cell[q] = new_b.cell[q]
    BY <1>0, <2>1, <2>2
  <2> QED
    BY <1>0, <1>1, <1>2, <2>2, <2>3, <2>4, ValueAdded
<1> QED
  BY <1>4, <1>5, <1>6, <1>7

LEMMA CopyCValues ==
  ASSUME MergesUnseen, TypeInv, Shape, CoverInv, RefsInv, ValueInv, CopyC,
         NEW o \in ObjIds, o = cursor
  PROVE  ValueInv'
<1> DEFINE x == In(c, o)
<1>0. /\ CopyInv /\ new_b \in Layer /\ b \in Layer /\ c \in Layer
      /\ UNCHANGED <<b, c, dark>>
      /\ gcpc = "copy_c"
  BY DEF TypeInv, LayerOver, Shape, CopyC, layers
<1>1. /\ ~PastC(o) /\ PastC(o)'
      /\ \A q \in ObjIds \ {o} : PastC(q)' <=> PastC(q)
  BY <1>0, PassedC
<1>2. Has(new_b, o) <=> Has(b, o)
  BY <1>0, <1>1 DEF CopyInv, Copied, PastB
<1>3. x \in Contents
  BY <1>0, InLayer
<1>4. \/ new_b' = new_b /\ (o \in dark => ~Has(c, o))
      \/ Has(new_b, o) /\ new_b' = MergeC(o)
      \/ ~Has(new_b, o) /\ \E p \in EqualCells(o, x) : new_b' = Share(o, p)
      \/ ~Has(new_b, o) /\ new_b' = Clone(o, x)
  BY ObjTableAssumption DEF CopyC, Has
<1>5. In(new_b, o) \in Contents /\ In(b, o) \in Contents /\ In(c, o) \in Contents
  BY <1>0, InLayer
\* o's own contents, and those of the others, are all there is to show.
<1>6. ASSUME UNCHANGED new_b.at,
             \A q \in ObjIds \ {o} : Has(new_b, q) => In(new_b, q)' = In(new_b, q),
             Has(new_b, o) /\ o \in dark => SameContents(In(new_b, o)', View(Blank, b, c, o))
      PROVE  ValueInv'
  BY <1>0, <1>1, <1>6, SameFrozen DEF ValueInv, Has
<1>7. CASE new_b' = new_b /\ (o \in dark => ~Has(c, o))
  <2>1. \A q \in ObjIds : In(new_b, q)' = In(new_b, q)
    BY <1>7 DEF In, Has
  <2>2. Has(new_b, o) /\ o \in dark => SameContents(In(new_b, o), View(Blank, b, c, o))
    BY <1>0, <1>1, <1>7, OldView DEF ValueInv
  <2> QED
    BY <1>0, <1>6, <1>7, <2>1, <2>2
<1>8. CASE Has(new_b, o) /\ new_b' = MergeC(o)
  <2>1. CASE o \in Layered /\ o \notin new_b.white
    <3> DEFINE r == new_b.at[o]
               y == Over(In(new_b, o), In(c, o))
    <3>1. new_b.cell \in [ObjIds -> Contents] /\ r \in ObjIds
      BY <1>0, <1>8 DEF Layer, Has
    <3>2. /\ new_b'.at = new_b.at
          /\ new_b'.cell = [new_b.cell EXCEPT ![r] = y]
      BY <1>0, <1>8, <2>1, MergeLayer
    <3>3. o \in dark /\ SameContents(In(new_b, o), In(b, o))
      BY <1>0, <1>1, <1>8, <2>1 DEF ValueInv, CopyInv
    <3>7. SameContents(y, View(Blank, b, c, o))
      BY <1>0, <1>5, <2>1, <3>3, AlikeOver, OldView
    <3> HIDE DEF y
    <3>4. ASSUME \A f, g \in Field : f = g
          PROVE  y = new_b.cell[r]
      <4>1. In(b, o) = Empty => In(new_b, o) = Empty /\ In(c, o) = Empty
        BY <1>2, <1>5, <1>8, <2>1, <3>3, AlikeOver DEF CoverInv
      <4>2. In(b, o) # Empty => \A f \in Field : In(b, o)[f] # None
        BY <1>5, <3>4 DEF Empty, Contents
      <4>3. In(b, o) # Empty => \A f \in Field : In(new_b, o)[f] # None
        BY <1>5, <3>3, <4>2, AlikeOver
      <4>4. Over(In(new_b, o), In(c, o)) = In(new_b, o)
        BY <1>5, <4>1, <4>3 DEF Over, Contents
      <4>5. In(new_b, o) = new_b.cell[r]
        BY <1>8 DEF In
      <4> QED
        BY <4>4, <4>5 DEF y
    <3>5. ASSUME NEW q \in ObjIds \ {o}, Has(new_b, q)
          PROVE  In(new_b, q)' = In(new_b, q)
      <4>1. KlassOf[new_b.at[q]] = KlassOf[q] /\ KlassOf[r] = KlassOf[o]
        BY <1>0, <1>8, <3>5 DEF ValueInv
      <4>2. new_b.at[q] = r => y = new_b.cell[r]
        BY <1>0, <2>1, <3>4, <4>1 DEF MergesUnseen
      <4> QED
        BY <3>1, <3>2, <4>2, <3>5 DEF In, Has
    <3>6. In(new_b, o)' = y
      BY <1>8, <3>1, <3>2 DEF In, Has
    <3> QED
      BY <1>0, <1>6, <3>2, <3>5, <3>6, <3>7
  <2>2. CASE ~(o \in Layered /\ o \notin new_b.white)
    <3>1. new_b' = new_b
      BY <1>8, <2>2 DEF MergeC
    <3>2. Has(new_b, o) /\ o \in dark => o \notin Layered
      BY <1>0, <2>2 DEF CopyInv
    <3>3. Has(new_b, o) /\ o \in dark => SameContents(In(new_b, o), View(Blank, b, c, o))
      BY <1>0, <1>1, <1>2, <1>8, <3>2, OldView DEF ValueInv
    <3>4. \A q \in ObjIds : In(new_b, q)' = In(new_b, q)
      BY <3>1 DEF In, Has
    <3> QED
      BY <1>0, <1>6, <3>1, <3>3, <3>4
  <2> QED
    BY <2>1, <2>2
<1>9. ~Has(new_b, o) => x = View(Blank, b, c, o)
  BY <1>0, <1>2, OldView
<1>10. ASSUME ~Has(new_b, o), NEW p \in EqualCells(o, x), new_b' = Share(o, p)
       PROVE  ValueInv'
  <2>1. p \in ObjIds /\ new_b.at[p] = p
    BY <1>0, SharedCell
  <2> DEFINE y == new_b.cell[p]
  <2>2. KlassOf[p] = KlassOf[o] /\ SameContents(y, x)
    BY <1>0, AlikeCell DEF EqualCells, KlassCells
  <2>3. /\ new_b' \in Layer
        /\ new_b'.at = [new_b.at EXCEPT ![o] = p]
        /\ new_b'.cell = new_b.cell
    BY <1>0, <1>10, <2>1, ShareLayer
  <2>4. SameContents(y, IF PastC(o)' THEN View(Blank, b, c, o) ELSE In(b, o))
    BY <1>1, <1>9, <1>10, <2>2
  <2>5. new_b'.cell[p] = y /\ \A q \in ObjIds : q # p => new_b'.cell[q] = new_b.cell[q]
    BY <2>3
  <2> HIDE DEF x, y
  <2> QED
    BY <1>0, <1>1, <1>10, <2>1, <2>2, <2>3, <2>4, <2>5, ValueAdded DEF y
<1>11. CASE ~Has(new_b, o) /\ new_b' = Clone(o, x)
  <2>1. new_b.cell \in [ObjIds -> Contents]
    BY <1>0 DEF Layer
  <2>2. /\ new_b' \in Layer
        /\ new_b'.at = [new_b.at EXCEPT ![o] = o]
        /\ new_b'.cell = [new_b.cell EXCEPT ![o] = x]
    BY <1>0, <1>3, <1>11, CloneLayer
  <2>3. SameContents(x, IF PastC(o)' THEN View(Blank, b, c, o) ELSE In(b, o))
    BY <1>1, <1>9, <1>11 DEF SameContents
  <2> HIDE DEF x
  <2>4. new_b'.cell[o] = x /\ \A q \in ObjIds : q # o => new_b'.cell[q] = new_b.cell[q]
    BY <1>0, <2>1, <2>2
  <2> QED
    BY <1>0, <1>1, <1>11, <2>2, <2>3, <2>4, ValueAdded
<1> QED
  BY <1>4, <1>7, <1>8, <1>10, <1>11

LEMMA ValueStep ==
  ASSUME MergesUnseen, TypeInv, Shape, CoverInv, RefsInv, ValueInv, [Next]_vars
  PROVE  ValueInv'
<1>1. CASE UNCHANGED <<b, c, gcpc, gc>>
  BY <1>1, SameValues DEF gc
<1>2. CASE CollectGarbage \/ IntegrateGCResponse \/ MarkRoots
           \/ (\E o \in ObjIds : GrayObjectLeaves(o)) \/ MarkingDone
  <2>1. new_b' = Blank
    BY <1>2 DEF CollectGarbage, IntegrateGCResponse, MarkRoots, GrayObjectLeaves,
                MarkingDone, Shape, CopyInv, Consolidating, gc
  <2> QED
    BY <2>1, BlankValues
<1>3. CASE \/ New
           \/ \E o \in ObjIds, f \in Field, v \in ObjIds : SetField(o, f, v)
           \/ \E o, p \in ObjIds : Inherit(o, p)
           \/ \E o \in ObjIds, f \in Field : GetField(o, f)
           \/ \E o \in ObjIds : Drop(o) \/ PopToLocal(o)
           \/ PushLocal \/ FinishCompile \/ UNCHANGED vars
  BY <1>1, <1>3 DEF New, SetField, Inherit, GetField, Drop, PopToLocal, PushLocal,
                    FinishCompile, vars, layers
<1>4. cursor \in ObjIds
  BY DEF TypeInv, TypeOK, ObjIds
<1>5. CASE CompareForever
  <2>1. gcpc' = "comparing" /\ UNCHANGED new_b
    BY <1>5 DEF CompareForever, gc
  <2> QED
    BY <2>1 DEF ValueInv, Has
<1> QED
  BY <1>2, <1>3, <1>4, <1>5, CopyBValues, CopyCValues DEF Next, MainNext, GcNext

\* What integration puts into place reads as B and C did.
LEMMA DoneValues ==
  ASSUME TypeInv, Shape, ValueInv, gcpc = "done", NEW o \in dark
  PROVE  /\ SameContents(In(new_b, o), View(Blank, b, c, o))
         /\ ~EqualReferents => In(new_b, o) = View(Blank, b, c, o)
         /\ View(Blank, b, c, o) = Empty => In(new_b, o) = Empty
<1>1. o \in ObjIds /\ b \in Layer /\ c \in Layer /\ new_b \in Layer
  BY KnownIds DEF TypeInv, TypeOK, LayerOver, Known
<1>2. PastB(o) /\ PastC(o)
  BY DEF PastB, PastC
<1>3. In(new_b, o) \in Contents /\ View(Blank, b, c, o) \in Contents
  BY <1>1, InLayer, OverContents, OldView
<1>4. CASE Has(new_b, o)
  BY <1>1, <1>2, <1>3, <1>4, AlikeOver DEF ValueInv
<1>5. CASE ~Has(new_b, o)
  <2>1. ~Has(b, o) /\ ~Has(c, o)
    BY <1>1, <1>2, <1>5 DEF Shape, CopyInv, Copied
  <2>2. View(Blank, b, c, o) = In(c, o)
    BY <1>1, <2>1, OldView
  <2> QED
    BY <1>5, <2>1, <2>2 DEF In, SameContents
<1> QED
  BY <1>4, <1>5

LEMMA OverEmpty ==
  ASSUME NEW x \in Contents, NEW y \in Contents, Over(x, y) = Empty
  PROVE  x = Empty /\ y = Empty
<1>1. ASSUME NEW f \in Field
      PROVE  x[f] = None /\ y[f] = None
  BY DEF Over, Empty
<1> QED
  BY <1>1 DEF Contents, Empty

\* A write into an instance or class leaves its layer empty only if there was
\* nothing in it before.
LEMMA PutCover ==
  ASSUME TypeInv, Shape, CoverInv, NEW o \in ObjIds, NEW x \in Contents,
         a' = Put(a, o, x), UNCHANGED <<b, c>>,
         o \in Layered /\ x = Empty => In(b, o) = Empty /\ In(c, o) = Empty
  PROVE  CoverInv'
<1>1. a \in Layer /\ a.at \in [ObjIds -> ObjIds \cup {Absent, Tomb}]
      /\ a.cell \in [ObjIds -> Contents]
  BY DEF TypeInv, LayerOver, Layer
<1>2. a'.at = [a.at EXCEPT ![o] = o] /\ a'.cell = [a.cell EXCEPT ![o] = x]
  BY DEF Put
<1>3. ASSUME NEW q \in ObjIds
      PROVE  /\ q # o => (Has(a, q))' = Has(a, q)
             /\ q # o /\ Has(a, q) => (In(a, q))' = In(a, q)
             /\ (In(a, o))' = x
             /\ (In(b, q))' = In(b, q) /\ (In(c, q))' = In(c, q) /\ (Has(b, q))' = Has(b, q)
  BY <1>1, <1>2 DEF Has, In, Shape, LayersInv
<1>4. Layered \subseteq ObjIds
  BY ObjTableAssumption
<1> QED
  BY <1>3, <1>4 DEF CoverInv

LEMMA SameCover ==
  ASSUME CoverInv, UNCHANGED layers
  PROVE  CoverInv'
  BY DEF CoverInv, Has, In, layers

LEMMA CoverStep ==
  ASSUME TypeInv, Shape, CoverInv, ValueInv, [Next]_vars
  PROVE  CoverInv'
<1>0. LayerTypes /\ OtherTypes /\ Layered \subseteq ObjIds
      /\ a \in Layer /\ b \in Layer /\ c \in Layer
  BY TypeParts, ObjTableAssumption DEF TypeInv, LayerOver
<1>1. CASE New
  <2> DEFINE n == next_obj_id
  <2>1. n \in ObjIds /\ n \notin Known
    BY <1>1, ObjTableAssumption DEF New, TypeInv, TypeOK, ObjIds, Known
  <2>2. ~Has(b, n) /\ ~Has(c, n)
    BY <2>1, ObjTableAssumption DEF TypeInv, LayerOver, Has
  <2>3. In(b, n) = Empty /\ In(c, n) = Empty
    BY <2>2 DEF In
  <2>4. a' = Put(a, n, Empty) /\ UNCHANGED <<b, c>>
    BY <1>1 DEF New
  <2> HIDE DEF n
  <2> QED
    BY <2>1, <2>3, <2>4, EmptyContents, PutCover
<1>2. ASSUME NEW o \in ObjIds, NEW f \in Field, NEW v \in ObjIds, SetField(o, f, v)
      PROVE  CoverInv'
  <2> DEFINE x == [MutableLayer(o) EXCEPT ![f] = v]
  <2>1. x \in Contents
    BY <1>0, MutableOver, FieldWritten
  <2>2. MutableLayer(o) \in Contents
    BY <1>0, MutableOver
  <2>3. x[f] = v
    BY <2>2 DEF Contents
  <2>4. a' = Put(a, o, x) /\ UNCHANGED <<b, c>>
    BY <1>2 DEF SetField
  <2>5. x # Empty
    BY <2>3, ObjTableAssumption DEF Empty
  <2> HIDE DEF x
  <2> QED
    BY <2>1, <2>4, <2>5, PutCover
<1>3. ASSUME NEW o \in ObjIds, NEW p \in ObjIds, Inherit(o, p)
      PROVE  CoverInv'
  <2> DEFINE x == Over(Newest(p), MutableLayer(o))
  <2>1. x \in Contents
    BY <1>0, MutableOver, NewestOver, OverContents
  <2>2. a' = Put(a, o, x) /\ UNCHANGED <<b, c>> /\ View(a, b, c, o) = Empty
    BY <1>3 DEF Inherit
  <2>3. In(a, o) \in Contents /\ In(b, o) \in Contents /\ In(c, o) \in Contents
    BY <1>0, InLayer
  <2>4. o \in Layered => In(b, o) = Empty /\ In(c, o) = Empty
    BY <2>2, <2>3, OverContents, OverEmpty DEF View
  <2> HIDE DEF x
  <2> QED
    BY <2>1, <2>2, <2>4, PutCover
<1>4. CASE CollectGarbage
  <2>1. gcpc = "idle" /\ a' = Blank /\ b' = a /\ c' = b
    BY <1>4 DEF CollectGarbage
  <2>2. \A o \in ObjIds : /\ ~Has(a, o)'
                          /\ (Has(b, o))' = Has(a, o)
                          /\ (In(b, o))' = In(a, o) /\ (In(c, o))' = In(b, o)
    BY <2>1, BlankLayer DEF Has, In
  <2> QED
    BY <1>0, <2>2 DEF CoverInv
<1>5. CASE IntegrateGCResponse
  <2>1. gcpc = "done" /\ a' = Invalidate(a, white_list) /\ b' = new_b /\ c' = Blank
    BY <1>5 DEF IntegrateGCResponse
  <2>2. \A o \in ObjIds : ~Has(c, o)' /\ (In(c, o))' = Empty /\ (In(b, o))' = In(new_b, o)
    BY <2>1, BlankLayer DEF Has, In
  <2>3. ASSUME NEW o \in ObjIds
        PROVE  (Has(a, o))' => Has(a, o) /\ o \notin white_list /\ (In(a, o))' = In(a, o)
    <3>1. /\ a'.at = [q \in ObjIds |-> IF q \in white_list THEN Tomb ELSE a.at[q]]
          /\ a'.cell = [q \in ObjIds |-> IF q \in white_list THEN Empty ELSE a.cell[q]]
      BY <2>1 DEF Invalidate
    <3> QED
      BY <3>1, ObjTableAssumption DEF Has, In, Shape, LayersInv
  <2>4. ASSUME NEW o \in Layered, (Has(a, o))', (In(a, o))' = Empty
        PROVE  In(new_b, o) = Empty
    <3>1. In(b, o) = Empty /\ In(c, o) = Empty /\ o \notin white_list
      BY <1>0, <2>3, <2>4 DEF CoverInv
    <3>2. CASE Has(new_b, o)
      <4>1. o \in dark
        BY <1>0, <3>1, <3>2 DEF Shape, CopyInv
      <4>2. View(Blank, b, c, o) = Over(Empty, Empty)
        BY <1>0, <3>1, OldView
      <4>3. View(Blank, b, c, o) = Empty
        BY <4>2, EmptyContents, OverContents
      <4> QED
        BY <2>1, <4>1, <4>3, DoneValues
    <3>3. CASE ~Has(new_b, o)
      BY <3>3 DEF In
    <3> QED
      BY <3>2, <3>3
  <2> QED
    BY <1>0, <2>2, <2>4 DEF CoverInv
<1>6. CASE \/ \E q \in ObjIds, f \in Field : GetField(q, f)
           \/ \E q \in ObjIds : Drop(q) \/ PopToLocal(q)
           \/ PushLocal \/ FinishCompile \/ UNCHANGED vars \/ GcNext
  <2>1. UNCHANGED layers
    BY <1>6 DEF GetField, Drop, PopToLocal, PushLocal, FinishCompile, vars, GcNext,
                MarkRoots, GrayObjectLeaves, MarkingDone, CopyB, CopyC, CompareForever
  <2> QED
    BY <2>1, SameCover
<1> QED
  BY <1>1, <1>2, <1>3, <1>4, <1>5, <1>6 DEF Next, MainNext

LEMMA ValueInvariance ==
  ASSUME MergesUnseen
  PROVE  Spec => [](TypeInv /\ Shape /\ RefsInv /\ CoverInv /\ ValueInv)
<1>1. Init => CoverInv /\ ValueInv
  BY BlankLayer, ObjTableAssumption DEF Init, CoverInv, ValueInv, Has
<1>2. TypeInv /\ Shape /\ RefsInv /\ CoverInv /\ ValueInv /\ [Next]_vars
        => CoverInv' /\ ValueInv'
  BY CoverStep, ValueStep
<1> QED
  BY <1>1, <1>2, RefsInvariance, PTL DEF Spec

\* Through new_b alone an object reads as its cell.
LEMMA DoneView ==
  ASSUME TypeInv, NEW o \in dark
  PROVE  View(Blank, Blank, new_b, o) = In(new_b, o) /\ o \in ObjIds
<1>1. o \in ObjIds /\ new_b \in Layer /\ Blank \in Layer /\ ~Has(Blank, o)
  BY KnownIds, BlankLayer DEF TypeInv, TypeOK, LayerOver, Known
<1> QED
  BY <1>1, OldView

\* "In the end, the ObjTableLayer contents are the same value-wise": when the
\* consolidation is done a live object has the same value through new_b as through
\* B and C, although dark objects shared the cells of equal ones, of cells with
\* fields that refer to other objects with the same value among them, and C was
\* merged into B on the way.
THEOREM ConsolidationKeepsValues ==
  ASSUME MergesUnseen
  PROVE  Spec => []ConsolidationPreservesValues
<1>1. TypeInv /\ Shape /\ ValueInv => ConsolidationPreservesValues
  <2> SUFFICES ASSUME TypeInv, Shape, ValueInv, gcpc = "done", NEW o \in dark, NEW f \in Field
               PROVE  \/ View(Blank, Blank, new_b, o)[f] = View(Blank, b, c, o)[f]
                      \/ <<View(Blank, Blank, new_b, o)[f], View(Blank, b, c, o)[f]>> \in Alike
    BY DoneView DEF ConsolidationPreservesValues, Alike
  <2>1. SameContents(In(new_b, o), View(Blank, b, c, o))
    BY DoneValues
  <2> QED
    BY <2>1, DoneView DEF SameContents
<1> QED
  BY <1>1, ValueInvariance, PTL

\* When no collection starts with two different objects that fields refer to and that
\* are equal, a live object even has the same references as before.  In the
\* run objtable_white_cell, where that is not so, a live object gets those of a dead one.
THEOREM ConsolidationKeepsReferences ==
  ASSUME MergesUnseen, ~EqualReferents
  PROVE  Spec => []ConsolidationPreservesReferences
<1>1. TypeInv /\ Shape /\ ValueInv => ConsolidationPreservesReferences
  BY DoneValues, DoneView DEF ConsolidationPreservesReferences
<1> QED
  BY <1>1, ValueInvariance, PTL
=============================================================================
