------------------------------ MODULE ObjTable ------------------------------
(***************************************************************************)
(* klox's object table: how an object id resolves through the layers A, B  *)
(* and C, how the interpreter writes to A, and how the collector on the GC *)
(* thread marks and consolidates B and C into a new B while the            *)
(* interpreter goes on.  src/c/cb_integration.cpp and src/c/memory.cpp.    *)
(*                                                                         *)
(* GcHandshake shows that a request is answered once and integrated once,  *)
(* so the handshake is a single variable gcpc here.  B and C do not change *)
(* while a request is outstanding, so the GC thread's copies of the layers *)
(* and the interpreter's are the same variables.                           *)
(***************************************************************************)
EXTENDS Naturals, FiniteSets

CONSTANTS
  N,             \* how many objects may ever be allocated (ids 1..N)
  Field,         \* field names (or method names, or an upvalue's one slot)
  Layered,       \* ids of instances and classes: a layer holds only the fields
                 \* set in it.  Any other object's layer is a whole copy.
  Assigned,      \* the assignments the program makes: <<o, f, v>> for o.f = v
  KlassOf,       \* the type and the immutable part of each object
  ClosureKlass,  \* those of closures, whose upvalues are compared by their ids
  EqualReferents, \* may fields refer to different objects that are equal?
  Inherits,      \* the class declarations with a superclass: <<sub, super>>
  InheritsLayers, \* may a superclass's methods be spread over several layers?
  HoldsInLocals, \* is an object ever held by a C++ local variable only,
  CollectsAroundLocals, \* and does a collection ever start meanwhile?
  None,          \* a field never set
  Absent,        \* no entry in a layer
  Tomb           \* an entry whose offset is CB_NULL: an invalidated id

ObjIds == 1..N

ASSUME ObjTableAssumption ==
  /\ N \in Nat \ {0}
  /\ Layered \subseteq ObjIds
  /\ Assigned \subseteq ObjIds \X Field \X ObjIds
  /\ DOMAIN KlassOf = ObjIds
  /\ Inherits \subseteq Layered \X Layered
  /\ {EqualReferents, InheritsLayers, HoldsInLocals, CollectsAroundLocals} \subseteq BOOLEAN
  /\ None \notin ObjIds
  /\ Absent \notin ObjIds
  /\ Tomb \notin ObjIds
  /\ Absent # Tomb

VARIABLES
  \* the interpreter
  next_obj_id,
  roots,           \* ids in the value stack, the frames and the globals
  held,            \* ids only a C++ local variable holds
  exec_phase,
  a, b, c,         \* the layers
  \* the request
  req_roots,       \* the roots when collectGarbage() froze the regions
  req_exec_phase,
  old_exec_phase,  \* collectGarbage()'s local: the phase it interrupted
  \* the GC thread
  gcpc,            \* where the collection stands; "idle": none is outstanding
  gray,            \* gc.grayStack
  dark,            \* gc_thread_grayset_bst: every id grayed so far
  cursor,          \* the next key of the layer being traversed
  new_b,
  white_list

layers == <<a, b, c>>
main == <<next_obj_id, roots, held, exec_phase>>
request == <<req_roots, req_exec_phase, old_exec_phase>>
gc == <<gray, dark, cursor, new_b, white_list>>
vars == <<main, layers, request, gcpc, gc>>

-----------------------------------------------------------------------------
(***************************************************************************)
(* Layers.  A layer maps an id to the memory cell its offset points at, a  *)
(* cell being named by the id it was made for; ids whose objects were      *)
(* deduplicated share a cell.  white is the set of ids whose entry carries *)
(* ALREADY_WHITE_FLAG.                                                     *)
(***************************************************************************)
Contents == [Field -> ObjIds \cup {None}]

Empty == [f \in Field |-> None]

Layer == [at : [ObjIds -> ObjIds \cup {Absent, Tomb}],
          white : SUBSET ObjIds,
          cell : [ObjIds -> Contents]]

Blank == [at |-> [o \in ObjIds |-> Absent],
          white |-> {},
          cell |-> [o \in ObjIds |-> Empty]]

\* objtablelayer_lookup(): false for no entry and for an invalidated id alike.
Has(l, o) == l.at[o] \in ObjIds

In(l, o) == IF Has(l, o) THEN l.cell[l.at[o]] ELSE Empty

\* objtable_add_at(): an offset of its own for o, over whatever entry is there.
Put(l, o, x) ==
  [at |-> [l.at EXCEPT ![o] = o], white |-> l.white, cell |-> [l.cell EXCEPT ![o] = x]]

\* objtable_invalidate() of every id in W.
Invalidate(l, W) ==
  [at |-> [o \in ObjIds |-> IF o \in W THEN Tomb ELSE l.at[o]],
   white |-> l.white,
   cell |-> [o \in ObjIds |-> IF o \in W THEN Empty ELSE l.cell[o]]]

\* merge_c_instance_fields(), merge_c_class_methods(): y shows through x.
Over(x, y) == [f \in Field |-> IF x[f] # None THEN x[f] ELSE y[f]]

\* What a program reads in o when the layers are x, y and z, newest first:
\* instanceFieldGet() and classMethodGet() ask each layer in turn, everything
\* else dereferences to the newest entry.
View(x, y, z, o) ==
  IF o \in Layered THEN Over(In(x, o), Over(In(y, o), In(z, o)))
  ELSE IF Has(x, o) THEN In(x, o)
  ELSE IF Has(y, o) THEN In(y, o)
  ELSE In(z, o)

\* What objtable_lookup() leads to, in whichever layer has an entry.
Newest(o) == IF Has(a, o) THEN In(a, o) ELSE IF Has(b, o) THEN In(b, o) ELSE In(c, o)

\* objtable_lookup() finds o.
Resolves(o) == Has(a, o) \/ Has(b, o) \/ Has(c, o)

Refs(x) == {x[f] : f \in Field} \ {None}
-----------------------------------------------------------------------------
(***************************************************************************)
(* klox_object_deep_cmp().  It compares type and immutable part, and then  *)
(* the fields, each with klox_value_deep_cmp(), which follows the ids on   *)
(* both sides and compares what they lead to.  An id is no shorter way:    *)
(* an object is compared with itself field by field.  val is what AS_OBJ() *)
(* leads to for each id.                                                   *)
(***************************************************************************)

\* On the GC thread layer A is blank: AS_OBJ() leads to the newest of the frozen
\* entries, and for an instance or a class to that one only.
Frozen(y, z, o) == IF Has(y, o) THEN In(y, o) ELSE In(z, o)

FrozenValue(y, z) == [o \in ObjIds |-> Frozen(y, z, o)]

\* The pairs of objects whose fields are compared at all.
Pairs == {q \in ObjIds \X ObjIds : KlassOf[q[1]] = KlassOf[q[2]]}

\* The fields x and y of two objects of klass k compare as equal, if the pairs of
\* objects that do are R.
FieldsAgree(R, k, x, y) ==
  IF k \in ClosureKlass THEN x = y
  ELSE \A f \in Field : (x[f] = None /\ y[f] = None) \/ <<x[f], y[f]>> \in R

\* The least relation that holds the pairs in base and every pair whose fields
\* agree by it.
LeastAgreement(base, val) ==
  LET closed == {R \in SUBSET Pairs :
                   /\ base \subseteq R
                   /\ \A q \in Pairs :
                        FieldsAgree(R, KlassOf[q[1]], val[q[1]], val[q[2]]) => q \in R}
  IN {p \in Pairs : \A R \in closed : p \in R}

\* The comparison returns 0.  Least, since one that comes back to a pair being
\* compared does not return.
EqualObjects(val) == LeastAgreement({}, val)

\* The comparison may come back to a pair being compared.  Which field is compared
\* first is left open.
EndlessObjects(val) ==
  UNION {R \in SUBSET Pairs :
           \A q \in R : /\ KlassOf[q[1]] \notin ClosureKlass
                        /\ \E f \in Field : <<val[q[1]][f], val[q[2]][f]>> \in R}

Referents(l) == UNION {Refs(l.cell[o]) : o \in ObjIds}

\* No two objects that fields in y and z refer to are equal.
ReferentsDiffer(y, z) ==
  \A q \in EqualObjects(FrozenValue(y, z)) :
    {q[1], q[2]} \subseteq Referents(y) \cup Referents(z) => q[1] = q[2]
-----------------------------------------------------------------------------
Init ==
  /\ next_obj_id = 1
  /\ roots = {}
  /\ held = {}
  /\ exec_phase = "COMPILE"
  /\ a = Blank
  /\ b = Blank
  /\ c = Blank
  /\ req_roots = {}
  /\ req_exec_phase = "COMPILE"
  /\ old_exec_phase = "COMPILE"
  /\ gcpc = "idle"
  /\ gray = {}
  /\ dark = {}
  /\ cursor = 1
  /\ new_b = Blank
  /\ white_list = {}
-----------------------------------------------------------------------------
(***************************************************************************)
(* The interpreter (and, before FinishCompile, the compiler).              *)
(***************************************************************************)

\* Bug form of New: the next id is not moved on.
NewSameId ==
  /\ held = {}
  /\ next_obj_id <= N
  /\ a' = Put(a, next_obj_id, Empty)
  /\ roots' = roots \cup {next_obj_id}
  /\ UNCHANGED <<next_obj_id, held, exec_phase, b, c, request, gcpc, gc>>

\* objtable_add(): a new object goes into A under an id never used before and
\* is put where the collector will see it.
New ==
  /\ held = {}
  /\ next_obj_id <= N
  /\ next_obj_id' = next_obj_id + 1
  /\ a' = Put(a, next_obj_id, Empty)
  /\ roots' = roots \cup {next_obj_id}
  /\ UNCHANGED <<held, exec_phase, b, c, request, gcpc, gc>>

\* The contents resolveAsMutableLayer() leaves in A for o: those already there;
\* otherwise what deriveMutableObjectLayer() makes of the newest entry, which is
\* no field at all for an instance or a class and a copy for all others.
MutableLayer(o) ==
  IF Has(a, o) THEN In(a, o)
  ELSE IF o \in Layered THEN Empty
  ELSE View(a, b, c, o)

\* instanceFieldSet(), classMethodSet(), and the assignments to upvalues and
\* closures: write one field of the mutable layer.  closeUpvalues() does it
\* while OP_RETURN's result is in a local.
SetField(o, f, v) ==
  /\ <<o, f, v>> \in Assigned
  /\ {o, v} \subseteq roots
  /\ held # {} => o \notin Layered
  /\ a' = Put(a, o, [MutableLayer(o) EXCEPT ![f] = v])
  /\ UNCHANGED <<main, b, c, request, gcpc, gc>>

\* OP_INHERIT, which follows OP_CLASS: classMethodsAddAll() adds the methods in
\* the superclass's newest layer, and those only, to the class's mutable layer:
\* methods the superclass has in older layers are not inherited.
Inherit(o, p) ==
  /\ <<o, p>> \in Inherits
  /\ held = {}
  /\ {o, p} \subseteq roots
  /\ View(a, b, c, o) = Empty
  /\ InheritsLayers \/ Newest(p) = View(a, b, c, p)
  /\ a' = Put(a, o, Over(Newest(p), MutableLayer(o)))
  /\ UNCHANGED <<main, b, c, request, gcpc, gc>>

\* Reading a field pushes its value.
GetField(o, f) ==
  /\ held = {}
  /\ o \in roots
  /\ View(a, b, c, o)[f] # None
  /\ roots' = roots \cup {View(a, b, c, o)[f]}
  /\ UNCHANGED <<next_obj_id, held, exec_phase, layers, request, gcpc, gc>>

\* Popping the last reference to o, or overwriting a global.
Drop(o) ==
  /\ held = {}
  /\ o \in roots
  /\ roots' = roots \ {o}
  /\ UNCHANGED <<next_obj_id, held, exec_phase, layers, request, gcpc, gc>>

\* OP_RETURN's "Value result = pop()".
PopToLocal(o) ==
  /\ HoldsInLocals
  /\ exec_phase = "INTERPRET"
  /\ held = {}
  /\ o \in roots
  /\ held' = {o}
  /\ roots' = roots \ {o}
  /\ UNCHANGED <<next_obj_id, exec_phase, layers, request, gcpc, gc>>

\* OP_RETURN's "push(result)".
PushLocal ==
  /\ held # {}
  /\ roots' = roots \cup held
  /\ held' = {}
  /\ UNCHANGED <<next_obj_id, exec_phase, layers, request, gcpc, gc>>

\* interpret(): compilation is over.
FinishCompile ==
  /\ held = {}
  /\ exec_phase = "COMPILE"
  /\ exec_phase' = "INTERPRET"
  /\ UNCHANGED <<next_obj_id, roots, held, layers, request, gcpc, gc>>

\* Bug form of CollectGarbage: no test for an outstanding request.
CollectWhileOutstanding ==
  /\ gcpc \in {"idle", "done"}
  /\ a' = Blank
  /\ b' = a
  /\ c' = b
  /\ req_roots' = roots
  /\ req_exec_phase' = "PREPARE_REQUEST"
  /\ old_exec_phase' = exec_phase
  /\ gcpc' = "roots"
  /\ UNCHANGED <<main, gc>>

\* reallocate_within() finds no request outstanding and calls collectGarbage():
\* freezeARegions() shifts the layers, the request takes the roots, the layers
\* and exec_phase, which has been set to PREPARE_REQUEST by then; exec_phase is
\* what it was when collectGarbage() returns.  While OP_RETURN holds its result
\* the only allocation is that of a mutable layer for an upvalue being closed.
\* EqualReferents chooses the programs, it is not something the code tests.
CollectGarbage ==
  /\ gcpc = "idle"
  /\ held # {} => CollectsAroundLocals /\ \E o \in roots \ Layered : ~Has(a, o)
  /\ EqualReferents \/ ReferentsDiffer(a, b)
  /\ a' = Blank
  /\ b' = a
  /\ c' = b
  /\ req_roots' = roots
  /\ req_exec_phase' = "PREPARE_REQUEST"
  /\ old_exec_phase' = exec_phase
  /\ gcpc' = "roots"
  /\ UNCHANGED <<main, gc>>
-----------------------------------------------------------------------------
(***************************************************************************)
(* The GC thread: gc_perform().                                            *)
(***************************************************************************)

\* Bug form of MarkRoots: one root is overlooked.
MarkRootsButOne ==
  /\ gcpc = "roots"
  /\ gray' = {o \in req_roots : \E p \in req_roots : p > o}
  /\ dark' = gray'
  /\ gcpc' = "leaves"
  /\ UNCHANGED <<main, layers, request, cursor, new_b, white_list>>

\* Gray the roots in the request; for a request made by the compiler, every
\* entry of B and C.
MarkRoots ==
  /\ gcpc = "roots"
  /\ gray' = IF req_exec_phase = "COMPILE"
               THEN {o \in ObjIds : b.at[o] # Absent \/ c.at[o] # Absent}
               ELSE req_roots
  /\ dark' = gray'
  /\ gcpc' = "leaves"
  /\ UNCHANGED <<main, layers, request, cursor, new_b, white_list>>

\* Bug form of Leaves: the backing C layer of an instance or class found in B
\* is not traversed.
LeavesOfNewest(o) == Refs(IF Has(b, o) THEN In(b, o) ELSE In(c, o))

\* What o refers to: its B entry, together with the C entry backing it when o
\* is an instance or a class; else its C entry.
Leaves(o) ==
  IF Has(b, o)
    THEN Refs(In(b, o)) \cup (IF o \in Layered THEN Refs(In(c, o)) ELSE {})
    ELSE Refs(In(c, o))

\* Bug form of GrayObjectLeaves: grayObject() without its test for dark.
GrayObjectLeavesAgain(o) ==
  /\ gcpc = "leaves"
  /\ o \in gray
  /\ gray' = (gray \ {o}) \cup Leaves(o)
  /\ dark' = dark \cup Leaves(o)
  /\ UNCHANGED <<main, layers, request, gcpc, cursor, new_b, white_list>>

\* Pop an id off the gray stack and gray its leaves that are not dark yet.
GrayObjectLeaves(o) ==
  /\ gcpc = "leaves"
  /\ o \in gray
  /\ gray' = (gray \ {o}) \cup (Leaves(o) \ dark)
  /\ dark' = dark \cup Leaves(o)
  /\ UNCHANGED <<main, layers, request, gcpc, cursor, new_b, white_list>>

MarkingDone ==
  /\ gcpc = "leaves"
  /\ gray = {}
  /\ gcpc' = "copy_b"
  /\ cursor' = 1
  /\ UNCHANGED <<main, layers, request, gray, dark, new_b, white_list>>

\* The cells of new_b, the clones of white objects among them, that have o's type
\* and immutable part.
KlassCells(o) ==
  {p \in {new_b.at[q] : q \in ObjIds} \ {Absent} : KlassOf[p] = KlassOf[o]}

\* Bug form of EqualCells: of the objects the fields refer to, only the types and
\* immutable parts are compared.
EqualTypesCells(o, x) ==
  {p \in KlassCells(o) : FieldsAgree(Pairs, KlassOf[o], new_b.cell[p], x)}

\* dedupeObject(): the cells of new_b that klox_object_deep_cmp() finds equal
\* to the object o with contents x.
EqualCells(o, x) ==
  LET equal == EqualObjects(FrozenValue(b, c))
  IN {p \in KlassCells(o) : FieldsAgree(equal, KlassOf[o], new_b.cell[p], x)}

\* The search of the dedupe set for o, or the insertion of its clone, may compare
\* contents x with a cell and not return.
Endless(o, x) ==
  /\ KlassOf[o] \notin ClosureKlass
  /\ LET endless == EndlessObjects(FrozenValue(b, c))
     IN \E p \in KlassCells(o), f \in Field : <<new_b.cell[p][f], x[f]>> \in endless

\* new_b with an entry for o that shares cell p.
Share(o, p) == [new_b EXCEPT !.at[o] = p]

\* new_b with an entry for o and a clone of its contents x; flagged if white.
Clone(o, x) ==
  [Put(new_b, o, x) EXCEPT !.white = @ \cup ({o} \ dark)]

\* The traversal has visited cursor.
Visited(next_gcpc) ==
  IF cursor < N THEN cursor' = cursor + 1 /\ UNCHANGED gcpc
  ELSE cursor' = 1 /\ gcpc' = next_gcpc

\* copy_objtable_b(), one entry of B.  A tombstone is skipped.  A dark object
\* is deduplicated against an equal cell or cloned; an object that is not dark
\* is cloned, flagged, and put on the white list.
CopyB ==
  /\ gcpc = "copy_b"
  /\ LET o == cursor
         x == In(b, o)
     IN \/ /\ ~Has(b, o)
           /\ UNCHANGED <<new_b, white_list>>
        \/ /\ Has(b, o)
           /\ o \in dark
           /\ \E p \in EqualCells(o, x) : new_b' = Share(o, p)
           /\ UNCHANGED white_list
        \/ /\ Has(b, o)
           /\ o \in dark => EqualCells(o, x) = {}
           /\ new_b' = Clone(o, x)
           /\ white_list' = IF o \in dark THEN white_list ELSE white_list \cup {o}
  /\ Visited("copy_c")
  /\ UNCHANGED <<main, layers, request, gray, dark>>

\* Bug form of MergeC: C's fields win over B's.
MergeCOver(o) ==
  [new_b EXCEPT !.cell[new_b.at[o]] = Over(In(c, o), @)]

\* o is in B and in C: an instance's or a class's C contents are merged into
\* the cell new_b has for it, any other C entry is masked.  An entry of new_b
\* that was just flagged is not PURE_OFFSET()ed first: the type read through
\* the odd offset is neither OBJ_CLASS nor OBJ_INSTANCE, so C is masked too.
MergeC(o) ==
  IF o \in Layered /\ o \notin new_b.white
    THEN [new_b EXCEPT !.cell[new_b.at[o]] = Over(@, In(c, o))]
    ELSE new_b

\* Bug form of CopyC: an id flagged in the last collection is dropped even when
\* it is dark again, and one not dark is dropped without having been flagged.
CopyCDropAllWhite ==
  /\ gcpc = "copy_c"
  /\ LET o == cursor
         x == In(c, o)
     IN \/ /\ c.at[o] = Absent \/ o \notin dark
           /\ UNCHANGED new_b
        \/ /\ c.at[o] # Absent
           /\ o \in dark
           /\ new_b' = IF Has(new_b, o) THEN MergeC(o) ELSE Clone(o, x)
  /\ UNCHANGED white_list
  /\ Visited("done")
  /\ UNCHANGED <<main, layers, request, gray, dark>>

\* copy_objtable_c_not_in_b(), one entry of C.  An object that is not dark and
\* was flagged before is dropped.  Otherwise merge with B's entry if there is
\* one, and if not deduplicate or clone as for B.  The merging changes keys of
\* the dedupe set in place, so its lookup may miss an equal cell.
CopyC ==
  /\ gcpc = "copy_c"
  /\ LET o == cursor
         x == In(c, o)
     IN \/ /\ c.at[o] = Absent \/ (o \notin dark /\ o \in c.white)
           /\ UNCHANGED <<new_b, white_list>>
        \/ /\ c.at[o] # Absent
           /\ o \in dark \/ o \notin c.white
           /\ IF Has(new_b, o)
                THEN new_b' = MergeC(o) /\ UNCHANGED white_list
                ELSE \/ /\ o \in dark
                        /\ \E p \in EqualCells(o, x) : new_b' = Share(o, p)
                        /\ UNCHANGED white_list
                     \/ /\ new_b' = Clone(o, x)
                        /\ white_list' =
                             IF o \in dark THEN white_list ELSE white_list \cup {o}
  /\ Visited("done")
  /\ UNCHANGED <<main, layers, request, gray, dark>>

\* The GC thread is caught in a comparison on cursor's turn, in B or in C, until its
\* stack overflows.  Neither the ids on the way nor the depth are looked at.
CompareForever ==
  /\ \/ /\ gcpc = "copy_b"
        /\ Has(b, cursor)
        /\ Endless(cursor, In(b, cursor))
     \/ /\ gcpc = "copy_c"
        /\ Has(c, cursor)
        /\ ~Has(new_b, cursor)
        /\ cursor \in dark \/ cursor \notin c.white
        /\ Endless(cursor, In(c, cursor))
  /\ gcpc' = "comparing"
  /\ UNCHANGED <<main, layers, request, gc>>
-----------------------------------------------------------------------------
\* Bug form of IntegrateGCResponse: the interpreter's writes during the
\* collection are lost with the old layer A.
IntegrateBlankA ==
  /\ gcpc = "done"
  /\ held = {}
  /\ exec_phase = "INTERPRET"
  /\ c' = Blank
  /\ b' = new_b
  /\ a' = Invalidate(Blank, white_list)
  /\ gcpc' = "idle"
  /\ new_b' = Blank
  /\ white_list' = {}
  /\ dark' = {}
  /\ req_roots' = {}
  /\ UNCHANGED <<main, req_exec_phase, old_exec_phase, gray, cursor>>

\* integrateGCResponse(), at an instruction that looks for a response: new_b
\* takes the place of B and C, and freeObject() invalidates the white list in
\* A.  What the GC thread computed is dead from here on and forgotten.
IntegrateGCResponse ==
  /\ gcpc = "done"
  /\ held = {}
  /\ exec_phase = "INTERPRET"
  /\ c' = Blank
  /\ b' = new_b
  /\ a' = Invalidate(a, white_list)
  /\ gcpc' = "idle"
  /\ new_b' = Blank
  /\ white_list' = {}
  /\ dark' = {}
  /\ req_roots' = {}
  /\ UNCHANGED <<main, req_exec_phase, old_exec_phase, gray, cursor>>

MainNext ==
  \/ New
  \/ \E o \in ObjIds, f \in Field, v \in ObjIds : SetField(o, f, v)
  \/ \E o, p \in ObjIds : Inherit(o, p)
  \/ \E o \in ObjIds, f \in Field : GetField(o, f)
  \/ \E o \in ObjIds : Drop(o) \/ PopToLocal(o)
  \/ PushLocal
  \/ FinishCompile
  \/ CollectGarbage
  \/ IntegrateGCResponse

GcNext ==
  \/ MarkRoots
  \/ \E o \in ObjIds : GrayObjectLeaves(o)
  \/ MarkingDone
  \/ CopyB
  \/ CopyC
  \/ CompareForever

Next == MainNext \/ GcNext

\* The GC thread keeps being scheduled; the program may do what it likes.
Spec == Init /\ [][Next]_vars /\ WF_vars(GcNext)
-----------------------------------------------------------------------------
(***************************************************************************)
(* Properties.                                                             *)
(***************************************************************************)

\* Every variable has its type, and no id is in use that objtable_add() has
\* not given out.
TypeOK ==
  /\ next_obj_id \in 1..(N + 1)
  /\ roots \cup held \cup req_roots \subseteq 1..(next_obj_id - 1)
  /\ exec_phase \in {"COMPILE", "INTERPRET"}
  /\ old_exec_phase \in {"COMPILE", "INTERPRET"}
  /\ req_exec_phase \in {"COMPILE", "PREPARE_REQUEST"}
  /\ {a, b, c, new_b} \subseteq Layer
  /\ gcpc \in {"idle", "roots", "leaves", "copy_b", "copy_c", "comparing", "done"}
  /\ gray \subseteq dark
  /\ dark \cup white_list \subseteq 1..(next_obj_id - 1)
  /\ cursor \in 1..N

\* What the asserts and comments of the consolidation state of its input: "Region
\* C should never contain invalidated entries", no entry of B is flagged (assert
\* at the top of copy_objtable_b()), and freezing finds C empty (the FIXME in
\* objtable_freeze()).  An invalidated id in the layer above has a flagged
\* entry below, if any, so it is dropped at the next collection.
LayersWellFormed ==
  /\ \A o \in ObjIds : c.at[o] # Tomb /\ new_b.at[o] # Tomb
  /\ a.white = {}
  /\ gcpc = "idle" => c = Blank /\ \A o \in ObjIds : b.at[o] # Tomb
  /\ gcpc # "idle" => b.white = {}
  /\ \A o \in ObjIds : a.at[o] = Tomb /\ Has(b, o) => o \in b.white
  /\ \A o \in ObjIds : b.at[o] = Tomb /\ Has(c, o) => o \in c.white

\* The objects a program can get at, through any chain of fields.
Program == INSTANCE Heap WITH obj <- [o \in {} |-> Empty]

Accessible ==
  Program!Reachable(roots \cup held,
                    [o \in ObjIds |-> View(a, b, c, o)])

\* No object the program can still get at is lost: it resolves, it is not
\* invalidated, and no collection in progress or past has it as white.  The
\* program may have dropped, reloaded and rearranged references all through
\* the collection, and hold an object in OP_RETURN's local only.
AccessibleIsKept ==
  \A o \in Accessible :
    /\ Resolves(o)
    /\ a.at[o] # Tomb
    /\ o \notin new_b.white
    /\ ~Has(a, o) => o \notin b.white

\* Whatever is on the gray stack resolves in B or C: grayObjectLeaves() follows
\* that offset without a test.
GrayResolves == \A o \in gray : Has(b, o) \/ Has(c, o)

\* "In the end, the ObjTableLayer contents are the same value-wise, but have
\* condensed relocations": in a live object every field reads through new_b as
\* through B and C, or reads as another object with the same value.  Values are
\* those of all layers, not only of the newest, as in the comparison.
ConsolidationPreservesValues ==
  LET old == [o \in ObjIds |-> View(Blank, b, c, o)]
      same == LeastAgreement({<<o, o>> : o \in ObjIds}, old)
  IN gcpc = "done" =>
       \A o \in dark, f \in Field :
         \/ View(Blank, Blank, new_b, o)[f] = old[o][f]
         \/ <<View(Blank, Blank, new_b, o)[f], old[o][f]>> \in same

\* Each field of a live object even refers to the same object as before.  Objects
\* are mutable, and two with the same value can be told apart by a later write;
\* only an object "with a new @offset" is to become of the old one, whose new entry
\* has "the same old #ID".
ConsolidationPreservesReferences ==
  gcpc = "done" =>
    \A o \in dark : View(Blank, Blank, new_b, o) = View(Blank, b, c, o)

\* An id that resolves is only ever dropped by integration, and only if it was
\* not reachable in this collection and had been flagged by one before: white
\* objects survive one collection flagged.
DroppedOnlyWhenWhiteTwice ==
  [][\A o \in ObjIds :
       Resolves(o) /\ ~Resolves(o)' => gcpc = "done" /\ o \in c.white \ dark]_vars

\* The collector is invisible: to the program the layered table is the plain
\* heap, every step of the GC thread and every freeze and integration is a
\* stutter, and every operation reads and writes what it would there.
Plain == INSTANCE Heap
           WITH roots <- roots \cup held,
                obj <- [o \in Accessible |-> View(a, b, c, o)]

HeapSpec == Plain!Spec

\* Marking ends, cycles in the heap or not, and so does the consolidation.
CollectionCompletes == (gcpc = "roots") ~> (gcpc = "done")
=============================================================================
