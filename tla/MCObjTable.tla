----------------------------- MODULE MCObjTable -----------------------------
\* ObjTable on small instances for TLC; see the .cfg files.
EXTENDS ObjTable

CONSTANTS f, g, k1, k2, k3

\* Every object of a klass of its own: nothing is ever deduplicated.
DistinctKlasses == <<k1, k2>>

\* Objects 1 and 2 of one klass, object 3 of another.
TwoOfAKlass == <<k1, k1, k3>>

\* Objects 1 and 2 of one klass, 3 and 4 of another.
TwoAndTwo == <<k1, k1, k2, k2>>

\* Objects 1 and 2 refer to each other, 1 also to itself, and 1 has a second field.
CyclicWithSecondField == {<<1, f, 1>>, <<1, f, 2>>, <<1, g, 2>>, <<2, f, 1>>}

\* Objects 1 and 2 refer to object 3.
FlatStores == {1, 2} \X Field \X {3}

\* Object 1 refers to 3 and object 2 to 4.
Nested == {<<1, f, 3>>, <<2, f, 4>>}

\* Object 2 refers to 4, and object 3 to itself, by which it differs from 4.
TreeAndLoop == {<<2, f, 4>>, <<3, f, 3>>}

\* Class 2 inherits from class 1.
SubOfOther == {<<2, 1>>}

\* Where a program is that has made four objects, stored 3 in 1 and perhaps 4 in 2,
\* dropped 3 and 4, and was not collected yet.
TwoTrees ==
  /\ next_obj_id = 5
  /\ roots = {1, 2}
  /\ held = {}
  /\ exec_phase = "INTERPRET"
  /\ \E v \in {4, None} :
       a = [Blank EXCEPT !.at = [o \in ObjIds |-> o], !.cell[1][f] = 3, !.cell[2][f] = v]
  /\ b = Blank
  /\ c = Blank
  /\ req_roots = {}
  /\ req_exec_phase = "COMPILE"
  /\ old_exec_phase = "COMPILE"
  /\ gcpc = "idle"
  /\ gray = {}
  /\ dark = {}
  /\ cursor = 1
  /\ new_b = Blank
  /\ white_list = {}

TwoTreesSpec == TwoTrees /\ [][Next]_vars
=============================================================================
