-------------------------------- MODULE Heap --------------------------------
(***************************************************************************)
(* The object heap as a Lox program sees it: objects with fields, held by  *)
(* the roots (value stack, frames, globals), and nothing else.  There is   *)
(* no collector, no region and no layer here; an object simply stops       *)
(* existing when nothing reachable refers to it.  ObjTable implements this *)
(* specification: everything the collector does maps to a stutter.         *)
(***************************************************************************)
CONSTANTS
  ObjIds,     \* object identities
  Field,      \* field names
  None        \* the value of a field that was never set

VARIABLES
  roots,      \* objects the program holds directly
  obj         \* the fields of every reachable object

vars == <<roots, obj>>

Contents == [Field -> ObjIds \cup {None}]

Empty == [f \in Field |-> None]

\* The objects the contents x refer to.
Refs(x) == {x[f] : f \in Field} \ {None}

\* The objects reachable from the set R when objects have the contents ob:
\* what every set that holds R and is closed under references has in common.
Reachable(R, ob) ==
  {o \in DOMAIN ob :
     \A S \in SUBSET DOMAIN ob :
       (R \subseteq S /\ \A p \in S : Refs(ob[p]) \subseteq S) => o \in S}

Live(R, ob) == [o \in Reachable(R, ob) |-> ob[o]]

Init ==
  /\ roots = {}
  /\ obj = [o \in {} |-> Empty]

New(o) ==
  /\ o \notin roots
  /\ roots' = roots \cup {o}
  /\ o \notin DOMAIN obj
  /\ obj' = [p \in DOMAIN obj \cup {o} |-> IF p = o THEN Empty ELSE obj[p]]

SetField(o, f, v) ==
  /\ {o, v} \subseteq roots
  /\ UNCHANGED roots
  /\ obj' = Live(roots, [obj EXCEPT ![o] = [@ EXCEPT ![f] = v]])

\* A class declaration with a superclass: o starts with what p has.
Inherit(o, p) ==
  /\ {o, p} \subseteq roots
  /\ UNCHANGED roots
  /\ obj[o] = Empty
  /\ obj' = Live(roots, [obj EXCEPT ![o] = obj[p]])

GetField(o, f) ==
  /\ o \in roots
  /\ roots \subseteq roots'
  /\ obj[o][f] # None
  /\ roots' = roots \cup {obj[o][f]}
  /\ UNCHANGED obj

Drop(o) ==
  /\ o \in roots
  /\ roots' = roots \ {o}
  /\ obj' = Live(roots', obj)

Next ==
  \E o \in ObjIds :
    \/ New(o)
    \/ \E f \in Field, v \in ObjIds : SetField(o, f, v)
    \/ \E p \in ObjIds : Inherit(o, p)
    \/ \E f \in Field : GetField(o, f)
    \/ Drop(o)

Spec == Init /\ [][Next]_vars
=============================================================================
