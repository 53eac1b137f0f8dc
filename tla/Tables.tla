-------------------------------- MODULE Tables --------------------------------
(***************************************************************************)
(* The intern table vm.strings, whose entries are weak references, and the *)
(* table of globals, each laid over the layers A, B and C, with the        *)
(* collector marking one and condensing both while the interpreter interns *)
(* strings and defines, reads and assigns globals.  src/c/table.cpp,       *)
(* src/c/object.cpp, src/c/cb_integration.cpp, src/c/memory.cpp.           *)
(*                                                                         *)
(* The objects here are strings; of the object table only what a           *)
(* collection does to an id is kept (ObjTable has the layers): an id not   *)
(* marked is flagged, and dropped if it is not marked the next time        *)
(* either.  Table layers compare keys by text, as their comparators do.    *)
(***************************************************************************)
EXTENDS Naturals, FiniteSets

CONSTANTS
  Text,             \* the texts of strings
  Variable,         \* those that the program has as names of global variables
  N,                \* how many strings may ever be allocated (ids 1..N)
  ResurrectsWhite,  \* is a string looked up in a collection that the program had
                    \* let go of before?
  Tomb,             \* TOMBSTONE_VAL
  NoText

Ids == 1..N

ASSUME TablesAssumption ==
  /\ N \in Nat
  /\ Variable \subseteq Text
  /\ ResurrectsWhite \in BOOLEAN
  /\ Tomb \notin Ids
  /\ NoText \notin Text

VARIABLES
  \* the interpreter
  text,             \* the text of every string ever allocated, by id
  roots,            \* ids in the stack and in the functions it refers to
  pending,          \* a text copyString() or takeString() has not found
  stopped,          \* did the last instruction end in runtimeError()?
  strings,          \* vm.strings: every layer a set of ids (key and value)
  globals,          \* vm.globals: every layer a function from ids to values
  \* the object table
  resolving,        \* ids objtable_lookup() finds
  flagged,          \* those with ALREADY_WHITE_FLAG
  \* the request and the GC thread
  gcpc,
  req_roots,
  req_ids,          \* the ids there were when the layers were frozen
  dark,
  new_strings_b,
  new_globals_b

main == <<text, roots, pending, stopped>>
tables == <<strings, globals>>
objects == <<resolving, flagged>>
request == <<req_roots, req_ids>>
response == <<dark, new_strings_b, new_globals_b>>
vars == <<main, tables, objects, gcpc, request, response>>

NoGlobals == [k \in {} |-> Tomb]
-----------------------------------------------------------------------------
(***************************************************************************)
(* One layer.                                                              *)
(***************************************************************************)

\* The keys of K that klox_value_deep_comparator() finds equal to k.
Equal(K, k) == {q \in K : text[q] = text[k]}

HasKey(l, k) == Equal(DOMAIN l, k) # {}

At(l, k) == l[CHOOSE q \in Equal(DOMAIN l, k) : TRUE]

\* Layer l laid over layer m.
Over(l, m) == [k \in DOMAIN l \cup DOMAIN m |-> IF k \in DOMAIN l THEN l[k] ELSE m[k]]

Part(l, K) == [k \in K |-> l[k]]

\* cb_bst_insert(): over an entry with an equal key.
Insert(l, k, v) == Over([q \in {k} |-> v], Part(l, DOMAIN l \ Equal(DOMAIN l, k)))

(***************************************************************************)
(* Three layers.                                                           *)
(***************************************************************************)

\* The newest entry for k decides, a tombstone as well.
Newest(k) ==
  IF HasKey(globals.a, k) THEN At(globals.a, k)
  ELSE IF HasKey(globals.b, k) THEN At(globals.b, k)
  ELSE IF HasKey(globals.c, k) THEN At(globals.c, k)
  ELSE Tomb

\* Bug form of Defined: tableGet() without its test for TOMBSTONE_VAL.
HasEntry(k) ==
  HasKey(globals.a, k) \/ HasKey(globals.b, k) \/ HasKey(globals.c, k)

\* tableGet() returns true.
Defined(k) == Newest(k) # Tomb

\* tableSet(), tableDelete(): into A.
PutGlobal(k, v) == globals' = [globals EXCEPT !.a = Insert(@, k, v)]

\* tableFindString(): the ids with text t in the newest layer that has any.
InternedIn(S, t) == {k \in S : text[k] = t}

FindString(t) ==
  IF InternedIn(strings.a, t) # {} THEN InternedIn(strings.a, t)
  ELSE IF InternedIn(strings.b, t) # {} THEN InternedIn(strings.b, t)
  ELSE InternedIn(strings.c, t)

KeysAndValues(l) == DOMAIN l \cup ({l[k] : k \in DOMAIN l} \ {Tomb})

\* The values of the globals a program can read, and their names.
GlobalNames ==
  {k \in UNION {DOMAIN globals.a, DOMAIN globals.b, DOMAIN globals.c} : Defined(k)}

Accessible == roots \cup GlobalNames \cup {Newest(k) : k \in GlobalNames}

NextId == Cardinality(DOMAIN text) + 1

Init ==
  /\ text = [k \in {} |-> NoText]
  /\ roots = {}
  /\ pending = NoText
  /\ stopped = FALSE
  /\ strings = [a |-> {}, b |-> {}, c |-> {}]
  /\ globals = [a |-> NoGlobals, b |-> NoGlobals, c |-> NoGlobals]
  /\ resolving = {}
  /\ flagged = {}
  /\ gcpc = "idle"
  /\ req_roots = {}
  /\ req_ids = {}
  /\ dark = {}
  /\ new_strings_b = {}
  /\ new_globals_b = NoGlobals
-----------------------------------------------------------------------------
(***************************************************************************)
(* The interpreter.                                                        *)
(***************************************************************************)

\* copyString() and takeString() when the text is interned already.  With
\* ResurrectsWhite FALSE a string of a frozen layer is found in a collection
\* only if the program holds it anyway.
InternFound(t) ==
  /\ pending = NoText
  /\ \E k \in FindString(t) :
       /\ \/ gcpc = "idle"
          \/ k \in strings.a \cup Accessible
          \/ ResurrectsWhite
       /\ roots' = roots \cup {k}
  /\ stopped' = FALSE
  /\ UNCHANGED <<text, pending, tables, objects, gcpc, request, response>>

\* They find no such string; what they allocate next may start a collection.
InternMissing(t) ==
  /\ pending = NoText
  /\ FindString(t) = {}
  /\ NextId <= N
  /\ pending' = t
  /\ UNCHANGED <<text, roots, stopped, tables, objects, gcpc, request, response>>

\* allocateString(): a new string, which is entered in A.
AllocateString ==
  /\ pending # NoText
  /\ text' = Over(text, [k \in {NextId} |-> pending])
  /\ roots' = roots \cup {NextId}
  /\ strings' = [strings EXCEPT !.a = @ \cup {NextId}]
  /\ resolving' = resolving \cup {NextId}
  /\ pending' = NoText
  /\ stopped' = FALSE
  /\ UNCHANGED <<globals, flagged, gcpc, request, response>>

\* The last reference from the stack, or a function that is gone.
Drop(k) ==
  /\ pending = NoText
  /\ k \in roots
  /\ roots' = roots \ {k}
  /\ stopped' = FALSE
  /\ UNCHANGED <<text, pending, tables, objects, gcpc, request, response>>

\* OP_DEFINE_GLOBAL and defineNative().
DefineGlobal(k, v) ==
  /\ pending = NoText
  /\ {k, v} \subseteq roots
  /\ text[k] \in Variable
  /\ PutGlobal(k, v)
  /\ stopped' = FALSE
  /\ UNCHANGED <<text, roots, pending, strings, objects, gcpc, request, response>>

\* runtimeError(): resetStack() lets go of everything but the globals.
RuntimeError ==
  /\ roots' = {}
  /\ stopped' = TRUE
  /\ UNCHANGED <<text, pending>>

\* OP_GET_GLOBAL.
GetGlobal(k) ==
  /\ pending = NoText
  /\ k \in roots
  /\ text[k] \in Variable
  /\ \/ /\ Defined(k)
        /\ roots' = roots \cup {Newest(k)}
        /\ stopped' = FALSE
        /\ UNCHANGED <<text, pending>>
     \/ ~Defined(k) /\ RuntimeError
  /\ UNCHANGED <<tables, objects, gcpc, request, response>>

\* OP_SET_GLOBAL: tableSet() says whether the key was new; then it is an error
\* and tableDelete() writes a tombstone over the entry.
SetGlobal(k, v) ==
  /\ pending = NoText
  /\ {k, v} \subseteq roots
  /\ text[k] \in Variable
  /\ \/ /\ Defined(k)
        /\ PutGlobal(k, v)
        /\ stopped' = FALSE
        /\ UNCHANGED <<text, roots, pending>>
     \/ /\ ~Defined(k)
        /\ PutGlobal(k, Tomb)
        /\ RuntimeError
  /\ UNCHANGED <<strings, objects, gcpc, request, response>>

\* collectGarbage(): freezeARegions() shifts both tables' layers.
CollectGarbage ==
  /\ gcpc = "idle"
  /\ strings' = [a |-> {}, b |-> strings.a, c |-> strings.b]
  /\ globals' = [a |-> NoGlobals, b |-> globals.a, c |-> globals.b]
  /\ req_roots' = roots
  /\ req_ids' = resolving
  /\ gcpc' = "mark"
  /\ UNCHANGED <<main, objects, response>>
-----------------------------------------------------------------------------
(***************************************************************************)
(* The GC thread: the parts of gc_perform() that concern the tables.       *)
(***************************************************************************)

\* Bug form of Mark: the values of globals are not grayed.
MarkKeys ==
  /\ gcpc = "mark"
  /\ dark' = req_roots \cup DOMAIN globals.b \cup DOMAIN globals.c
  /\ gcpc' = "strings_b"
  /\ UNCHANGED <<main, tables, objects, request, new_strings_b, new_globals_b>>

\* The request's roots; grayTable(): every key and value of the frozen layers
\* of the globals, masked ones as well.  vm.strings is weak and left out.
Mark ==
  /\ gcpc = "mark"
  /\ dark' = req_roots \cup KeysAndValues(globals.b) \cup KeysAndValues(globals.c)
  /\ gcpc' = "strings_b"
  /\ UNCHANGED <<main, tables, objects, request, new_strings_b, new_globals_b>>

\* copy_strings_b().
CopyStringsB ==
  /\ gcpc = "strings_b"
  /\ new_strings_b' = strings.b \cap dark
  /\ gcpc' = "strings_c"
  /\ UNCHANGED <<main, tables, objects, request, dark, new_globals_b>>

\* Bug form of CopyStringsC: entries that B does not mask are left out.
CopyStringsCInB ==
  /\ gcpc = "strings_c"
  /\ new_strings_b' =
       new_strings_b \cup {k \in strings.c \cap dark : Equal(strings.b, k) # {}}
  /\ gcpc' = "globals_b"
  /\ UNCHANGED <<main, tables, objects, request, dark, new_globals_b>>

\* copy_strings_c_not_in_b().
CopyStringsC ==
  /\ gcpc = "strings_c"
  /\ new_strings_b' =
       new_strings_b \cup {k \in strings.c \cap dark : Equal(strings.b, k) = {}}
  /\ gcpc' = "globals_b"
  /\ UNCHANGED <<main, tables, objects, request, dark, new_globals_b>>

\* copy_globals_b(): tombstones are copied too.
CopyGlobalsB ==
  /\ gcpc = "globals_b"
  /\ new_globals_b' = globals.b
  /\ gcpc' = "globals_c"
  /\ UNCHANGED <<main, tables, objects, request, dark, new_strings_b>>

\* Bug form of CopyGlobalsC: C's entries win over B's.
CopyGlobalsCOverB ==
  /\ gcpc = "globals_c"
  /\ LET K == {k \in DOMAIN globals.b : ~HasKey(globals.c, k)}
     IN new_globals_b' = Over(globals.c, Part(globals.b, K))
  /\ gcpc' = "done"
  /\ UNCHANGED <<main, tables, objects, request, dark, new_strings_b>>

\* copy_globals_c_not_in_b().
CopyGlobalsC ==
  /\ gcpc = "globals_c"
  /\ LET K == {k \in DOMAIN globals.c : ~HasKey(globals.b, k)}
     IN new_globals_b' = Over(new_globals_b, Part(globals.c, K))
  /\ gcpc' = "done"
  /\ UNCHANGED <<main, tables, objects, request, dark, new_strings_b>>

\* integrateGCResponse(): the condensed tables take the place of B and C.  Ids
\* not marked are flagged and freed, those that were flagged before are gone.
IntegrateGCResponse ==
  /\ gcpc = "done"
  /\ pending = NoText
  /\ strings' = [strings EXCEPT !.b = new_strings_b, !.c = {}]
  /\ globals' = [globals EXCEPT !.b = new_globals_b, !.c = NoGlobals]
  /\ resolving' = resolving \ (flagged \ dark)
  /\ flagged' = (req_ids \ flagged) \ dark
  /\ gcpc' = "idle"
  /\ req_roots' = {}
  /\ req_ids' = {}
  /\ dark' = {}
  /\ new_strings_b' = {}
  /\ new_globals_b' = NoGlobals
  /\ UNCHANGED main

MainNext ==
  \/ \E t \in Text : InternFound(t) \/ InternMissing(t)
  \/ AllocateString
  \/ \E k \in Ids : Drop(k) \/ GetGlobal(k)
  \/ \E k, v \in Ids : DefineGlobal(k, v) \/ SetGlobal(k, v)
  \/ CollectGarbage
  \/ IntegrateGCResponse

GcNext ==
  \/ Mark
  \/ CopyStringsB
  \/ CopyStringsC
  \/ CopyGlobalsB
  \/ CopyGlobalsC

Next == MainNext \/ GcNext

Spec == Init /\ [][Next]_vars
-----------------------------------------------------------------------------
(***************************************************************************)
(* Properties.                                                             *)
(***************************************************************************)

\* A layer of globals over the ids given out so far.
GlobalsLayer(l) ==
  /\ DOMAIN l \subseteq DOMAIN text
  /\ \A k \in DOMAIN l : l[k] \in DOMAIN text \cup {Tomb}

\* Every variable has its type.
TypeOK ==
  /\ DOMAIN text \subseteq Ids
  /\ \A k \in DOMAIN text : text[k] \in Text
  /\ UNION {roots, resolving, flagged, req_roots, req_ids, dark} \subseteq DOMAIN text
  /\ UNION {strings.a, strings.b, strings.c, new_strings_b} \subseteq DOMAIN text
  /\ pending \in Text \cup {NoText}
  /\ stopped \in BOOLEAN
  /\ \A l \in {globals.a, globals.b, globals.c, new_globals_b} : GlobalsLayer(l)
  /\ gcpc \in {"idle", "mark", "strings_b", "strings_c", "globals_b", "globals_c", "done"}

\* Neither thread ever follows an id that has no object any more: not the
\* program, and not the comparator of either table, which dereferences the keys
\* it passes on its way in any layer, live or about to be condensed.
KeysResolve ==
  UNION {Accessible, strings.a, strings.b, strings.c, new_strings_b,
         DOMAIN globals.a, DOMAIN globals.b, DOMAIN globals.c,
         DOMAIN new_globals_b}
    \subseteq resolving

\* Strings are compared by id (valuesEqual()) because there is one object for
\* every text: interning the text of a string the program can get at yields
\* that string, whatever was collected since it was made.
InterningIsUnique == \A k \in Accessible : FindString(text[k]) = {k}

\* "Skip those ObjIDs which are not marked dark (and are therefore unreachable
\* from the roots of the VM state)" (copy_strings_b()): what the condensed
\* intern table leaves out, the program cannot get at.
SkippedAreUnreachable ==
  gcpc = "done" =>
    Accessible \cap ((strings.b \cup strings.c) \ new_strings_b) = {}

\* What the program sees: strings by their texts, globals by their names.
VisibleStrings == {text[k] : k \in roots}

VisibleGlobals ==
  [t \in {text[k] : k \in GlobalNames} |->
     text[Newest(CHOOSE k \in GlobalNames : text[k] = t)]]

\* The layers, tombstones, string ids and collections are invisible.
Plain == INSTANCE Names WITH strings <- VisibleStrings, globals <- VisibleGlobals

NamesSpec == Plain!Spec
=============================================================================
