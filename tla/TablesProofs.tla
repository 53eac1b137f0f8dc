----------------------------- MODULE TablesProofs -----------------------------
(***************************************************************************)
(* Proofs about Tables, for any set of texts and any number of strings:    *)
(* types, that neither thread follows an id whose object is gone, and,     *)
(* unless a string is resurrected, that interning is unique and that the   *)
(* tables implement Names.                                                 *)
(***************************************************************************)
EXTENDS Tables, TLAPS, FiniteSetTheorems

(***************************************************************************)
(* The inductive invariant.  Types alone say nothing of which ids resolve; *)
(* Kept follows the ids through a collection.  An id flagged at the end of *)
(* one is dropped at the end of the next unless it is marked; so whatever  *)
(* the program holds of the flagged must be in the snapshot the marking    *)
(* starts from, and no key of the intern table may be flagged at all.      *)
(***************************************************************************)

\* Ids are given out in order.
IdsInOrder ==
  /\ Cardinality(DOMAIN text) \in Nat
  /\ DOMAIN text = 1..Cardinality(DOMAIN text)
  /\ pending # NoText => Cardinality(DOMAIN text) < N

ThreeLayers(t) == t = [a |-> t.a, b |-> t.b, c |-> t.c]

TypeInv ==
  /\ TypeOK
  /\ IdsInOrder
  /\ ThreeLayers(strings)
  /\ ThreeLayers(globals)

FrozenGlobals == KeysAndValues(globals.b) \cup KeysAndValues(globals.c)

\* What the program holds, and what of the globals newer entries mask.
Held == roots \cup KeysAndValues(globals.a) \cup FrozenGlobals

Interned == strings.a \cup strings.b \cup strings.c

Snapshot == req_roots \cup FrozenGlobals

\* Nothing is left of a collection when none is outstanding.
IdleInv ==
  gcpc = "idle" =>
    /\ strings.c = {}
    /\ globals.c = NoGlobals
    /\ new_strings_b = {}
    /\ new_globals_b = NoGlobals

CollectingInv ==
  gcpc # "idle" =>
    /\ strings.a \cap req_ids = {}
    /\ Held \cap flagged \subseteq Snapshot

MarkedInv ==
  /\ gcpc \notin {"idle", "mark"} => Snapshot \subseteq dark
  /\ gcpc \notin {"idle", "mark", "strings_b"} => new_strings_b \subseteq dark

ResponseInv ==
  /\ new_strings_b \subseteq strings.b \cup strings.c
  /\ KeysAndValues(new_globals_b) \subseteq FrozenGlobals

Kept ==
  /\ Held \cup Interned \subseteq resolving
  /\ Interned \cap flagged = {}
  /\ IdleInv
  /\ CollectingInv
  /\ MarkedInv
  /\ ResponseInv

(***************************************************************************)
(* Interning is unique because all layers together have one string for a   *)
(* text, and have every string the program holds.  A collection keeps this *)
(* only if what the program holds of the frozen layers was in the snapshot: *)
(* a resurrected string is not.                                            *)
(***************************************************************************)

Distinct == \A k, q \in Interned : text[k] = text[q] => k = q

PendingIsMissing == pending # NoText => \A k \in Interned : text[k] # pending

FrozenStrings == strings.b \cup strings.c

\* What is marked reaches the condensed table.
CopiedInv ==
  /\ gcpc \in {"strings_c", "globals_b", "globals_c", "done"} =>
       strings.b \cap dark \subseteq new_strings_b
  /\ gcpc \in {"globals_b", "globals_c", "done"} =>
       strings.c \cap dark \subseteq new_strings_b

FrozenInv ==
  gcpc # "idle" =>
    /\ strings.a \cap FrozenStrings = {}
    /\ Held \cap FrozenStrings \subseteq Snapshot

InternInv ==
  /\ Held \subseteq Interned
  /\ Distinct
  /\ PendingIsMissing
  /\ FrozenInv
  /\ CopiedInv

IInv == TypeInv /\ Kept /\ (~ResurrectsWhite => InternInv)
-----------------------------------------------------------------------------
(***************************************************************************)
(* Layers.                                                                 *)
(***************************************************************************)

\* To be a layer over the ids in D is to have no keys and values but those.
LEMMA LayerIds ==
  ASSUME NEW l, NEW D
  PROVE  KeysAndValues(l) \subseteq D
           <=> /\ DOMAIN l \subseteq D
               /\ \A k \in DOMAIN l : l[k] \in D \cup {Tomb}
  BY DEF KeysAndValues

LEMMA NoKeys == KeysAndValues(NoGlobals) = {}
  BY DEF KeysAndValues, NoGlobals

LEMMA PartKeys ==
  ASSUME NEW l, NEW K \in SUBSET DOMAIN l
  PROVE  KeysAndValues(Part(l, K)) \subseteq KeysAndValues(l)
  BY DEF KeysAndValues, Part

LEMMA OverKeys ==
  ASSUME NEW l, NEW m
  PROVE  KeysAndValues(Over(l, m)) \subseteq KeysAndValues(l) \cup KeysAndValues(m)
  BY DEF KeysAndValues, Over

\* Inserting brings in the key and the value, unless that is a tombstone.
LEMMA InsertKeys ==
  ASSUME NEW l, NEW k, NEW v
  PROVE  KeysAndValues(Insert(l, k, v))
           \subseteq KeysAndValues(l) \cup {k} \cup ({v} \ {Tomb})
<1> DEFINE entry == [q \in {k} |-> v]
           rest == Part(l, DOMAIN l \ Equal(DOMAIN l, k))
<1>1. KeysAndValues(rest) \subseteq KeysAndValues(l)
  BY PartKeys
<1>2. KeysAndValues(entry) \subseteq {k} \cup ({v} \ {Tomb})
  BY DEF KeysAndValues
<1>3. KeysAndValues(Over(entry, rest)) \subseteq KeysAndValues(entry) \cup KeysAndValues(rest)
  BY OverKeys
<1>4. Insert(l, k, v) = Over(entry, rest)
  BY DEF Insert
<1> QED
  BY <1>1, <1>2, <1>3, <1>4

LEMMA AtIsValue ==
  ASSUME NEW l, NEW k, HasKey(l, k), At(l, k) # Tomb
  PROVE  At(l, k) \in KeysAndValues(l)
<1> DEFINE q == CHOOSE q \in Equal(DOMAIN l, k) : TRUE
<1>1. q \in Equal(DOMAIN l, k)
  BY DEF HasKey
<1>2. q \in DOMAIN l
  BY <1>1 DEF Equal
<1> QED
  BY <1>2 DEF At, KeysAndValues

\* A global that is defined has a value some layer holds.
LEMMA NewestIsHeld ==
  ASSUME NEW k, Defined(k)
  PROVE  Newest(k) \in Held
  BY AtIsValue DEF Defined, Newest, Held, FrozenGlobals

LEMMA AccessibleIsHeld == Accessible \subseteq Held
<1>1. GlobalNames \subseteq Held
  BY DEF GlobalNames, Held, FrozenGlobals, KeysAndValues
<1>2. \A k \in GlobalNames : Newest(k) \in Held
  BY NewestIsHeld DEF GlobalNames
<1> QED
  BY <1>1, <1>2 DEF Accessible, Held

LEMMA FoundIsInterned == \A t : FindString(t) \subseteq Interned
  BY DEF FindString, InternedIn, Interned
-----------------------------------------------------------------------------
(***************************************************************************)
(* Types.                                                                  *)
(***************************************************************************)

LEMMA TypeInit == Init => TypeInv
<1> SUFFICES ASSUME Init PROVE TypeInv
  OBVIOUS
<1>1. DOMAIN text = {} /\ Cardinality(DOMAIN text) = 0
  BY FS_EmptySet DEF Init
<1>2. TypeOK
  BY <1>1 DEF Init, TypeOK, GlobalsLayer, NoGlobals
<1>3. IdsInOrder
  BY <1>1 DEF Init, IdsInOrder
<1>4. ThreeLayers(strings) /\ ThreeLayers(globals)
  BY DEF Init, ThreeLayers
<1> QED
  BY <1>2, <1>3, <1>4 DEF TypeInv

\* The next id follows those given out.
LEMMA NextIdIsNew ==
  ASSUME TypeInv
  PROVE  /\ NextId \in Nat \ {0}
         /\ NextId \notin DOMAIN text
         /\ pending # NoText => NextId \in Ids
  BY TablesAssumption DEF TypeInv, IdsInOrder, NextId, Ids

\* A value read from the globals is an id given out.
LEMMA HeldIsGivenOut ==
  ASSUME TypeInv
  PROVE  Held \cup Interned \cup KeysAndValues(new_globals_b) \subseteq DOMAIN text
<1>1. ASSUME NEW l, GlobalsLayer(l)
      PROVE  KeysAndValues(l) \subseteq DOMAIN text
  BY <1>1, LayerIds DEF GlobalsLayer
<1>2. \A l \in {globals.a, globals.b, globals.c, new_globals_b} : GlobalsLayer(l)
  BY DEF TypeInv, TypeOK
<1> QED
  BY <1>1, <1>2 DEF TypeInv, TypeOK, Held, FrozenGlobals, Interned

\* The globals' layers after an insertion.
LEMMA PutKeepsType ==
  ASSUME TypeInv, NEW k \in DOMAIN text, NEW v \in DOMAIN text \cup {Tomb},
         PutGlobal(k, v), UNCHANGED text
  PROVE  /\ GlobalsLayer(globals.a)'
         /\ ThreeLayers(globals)'
         /\ globals'.b = globals.b
         /\ globals'.c = globals.c
         /\ globals'.a = Insert(globals.a, k, v)
<1>1. globals' = [a |-> Insert(globals.a, k, v), b |-> globals.b, c |-> globals.c]
  BY DEF TypeInv, ThreeLayers, PutGlobal
<1>2. KeysAndValues(globals.a) \subseteq DOMAIN text
  <2>1. GlobalsLayer(globals.a)
    BY DEF TypeInv, TypeOK
  <2> QED
    BY <2>1, LayerIds DEF GlobalsLayer
<1>3. KeysAndValues(Insert(globals.a, k, v)) \subseteq DOMAIN text
  BY <1>2, InsertKeys
<1>4. GlobalsLayer(globals.a)'
  BY <1>1, <1>3, LayerIds DEF GlobalsLayer
<1> QED
  BY <1>1, <1>4 DEF ThreeLayers

\* Operations that move references only.
LEMMA OnlyRootsChange ==
  ASSUME TypeInv, roots' \subseteq DOMAIN text, stopped' \in BOOLEAN,
         UNCHANGED <<text, pending, tables, objects, gcpc, request, response>>
  PROVE  TypeInv'
<1>1. \A l \in {globals.a, globals.b, globals.c, new_globals_b}' : GlobalsLayer(l)'
  BY DEF TypeInv, TypeOK, GlobalsLayer, tables, response
<1>2. /\ UNION {roots, resolving, flagged, req_roots, req_ids, dark}' \subseteq DOMAIN text'
      /\ UNION {strings.a, strings.b, strings.c, new_strings_b}' \subseteq DOMAIN text'
  BY DEF TypeInv, TypeOK, tables, objects, request, response
<1>3. /\ DOMAIN text' \subseteq Ids
      /\ \A k \in DOMAIN text' : text'[k] \in Text
      /\ pending' \in Text \cup {NoText}
      /\ gcpc' \in {"idle", "mark", "strings_b", "strings_c", "globals_b", "globals_c", "done"}
  BY DEF TypeInv, TypeOK
<1>4. IdsInOrder'
  BY DEF TypeInv, IdsInOrder
<1>5. ThreeLayers(strings)' /\ ThreeLayers(globals)'
  BY DEF TypeInv, ThreeLayers, tables
<1> QED
  BY <1>1, <1>2, <1>3, <1>4, <1>5 DEF TypeInv, TypeOK

LEMMA TypeStep == TypeInv /\ [Next]_vars => TypeInv'
<1> SUFFICES ASSUME TypeInv, [Next]_vars PROVE TypeInv'
  OBVIOUS
<1> USE DEF TypeInv, IdsInOrder, ThreeLayers
<1>1. ASSUME NEW t \in Text, InternFound(t) PROVE TypeInv'
  <2>1. roots' \subseteq DOMAIN text
    BY <1>1, FoundIsInterned, HeldIsGivenOut DEF InternFound, TypeOK
  <2> QED
    BY <1>1, <2>1, OnlyRootsChange DEF InternFound
<1>2. ASSUME NEW t \in Text, InternMissing(t) PROVE TypeInv'
  BY <1>2, TablesAssumption
    DEF InternMissing, NextId, TypeOK, GlobalsLayer, tables, objects, request, response
<1>3. ASSUME AllocateString PROVE TypeInv'
  <2> DEFINE n == Cardinality(DOMAIN text)
  <2>1. n \in Nat /\ n < N /\ NextId = n + 1 /\ N \in Nat
    BY <1>3, TablesAssumption DEF AllocateString, NextId
  <2>2. DOMAIN text' = DOMAIN text \cup {NextId}
    BY <1>3 DEF AllocateString, Over
  <2>3. DOMAIN text' = 1..(n + 1)
    BY <2>1, <2>2
  <2>4. Cardinality(1..(n + 1)) = n + 1
    BY <2>1, FS_Interval
  <2>5. IdsInOrder'
    BY <1>3, <2>1, <2>3, <2>4 DEF AllocateString
  <2>6. \A k \in DOMAIN text' : text'[k] \in Text
    <3>1. pending \in Text
      BY <1>3 DEF AllocateString, TypeOK
    <3>2. \A k \in DOMAIN text : text[k] \in Text
      BY DEF TypeOK
    <3> QED
      BY <1>3, <3>1, <3>2 DEF AllocateString, Over
  <2>7. strings' = [a |-> strings.a \cup {NextId}, b |-> strings.b, c |-> strings.c]
    BY <1>3 DEF AllocateString
  <2>8. /\ UNION {roots, resolving, flagged, req_roots, req_ids, dark}' \subseteq DOMAIN text'
        /\ UNION {strings.a, strings.b, strings.c, new_strings_b}' \subseteq DOMAIN text'
    BY <1>3, <2>2, <2>7 DEF AllocateString, TypeOK, request, response
  <2>9. \A l \in {globals.a, globals.b, globals.c, new_globals_b}' : GlobalsLayer(l)'
    BY <1>3, <2>2 DEF AllocateString, TypeOK, GlobalsLayer, response
  <2>10. DOMAIN text' \subseteq Ids
    BY <2>1, <2>3 DEF Ids
  <2> QED
    BY <1>3, <2>5, <2>6, <2>7, <2>8, <2>9, <2>10 DEF AllocateString, TypeOK
<1>4. ASSUME NEW k \in Ids, Drop(k) PROVE TypeInv'
  <2>1. roots' \subseteq DOMAIN text
    BY <1>4 DEF Drop, TypeOK
  <2> QED
    BY <1>4, <2>1, OnlyRootsChange DEF Drop
<1>5. ASSUME NEW k \in Ids, GetGlobal(k) PROVE TypeInv'
  <2>1. Defined(k) => Newest(k) \in DOMAIN text
    BY NewestIsHeld, HeldIsGivenOut
  <2>2. roots' \subseteq DOMAIN text
    BY <1>5, <2>1 DEF GetGlobal, RuntimeError, TypeOK
  <2>3. text' = text /\ pending' = pending /\ stopped' \in BOOLEAN
    BY <1>5 DEF GetGlobal, RuntimeError
  <2> QED
    BY <1>5, <2>2, <2>3, OnlyRootsChange DEF GetGlobal
<1>6. ASSUME NEW k \in Ids, NEW v \in Ids, DefineGlobal(k, v) PROVE TypeInv'
  <2>1. {k, v} \subseteq DOMAIN text /\ PutGlobal(k, v) /\ UNCHANGED text
    BY <1>6 DEF DefineGlobal, TypeOK
  <2>2. /\ GlobalsLayer(globals.a)'
        /\ ThreeLayers(globals)'
        /\ globals'.b = globals.b
        /\ globals'.c = globals.c
    BY <2>1, PutKeepsType
  <2> QED
    BY <1>6, <2>2 DEF DefineGlobal, TypeOK, GlobalsLayer, objects, request, response
<1>7. ASSUME NEW k \in Ids, NEW v \in Ids, SetGlobal(k, v) PROVE TypeInv'
  <2>1. {k, v} \subseteq DOMAIN text
    BY <1>7 DEF SetGlobal, TypeOK
  <2>2. UNCHANGED text /\ (PutGlobal(k, v) \/ PutGlobal(k, Tomb))
    BY <1>7 DEF SetGlobal, RuntimeError
  <2>3. /\ GlobalsLayer(globals.a)'
        /\ ThreeLayers(globals)'
        /\ globals'.b = globals.b
        /\ globals'.c = globals.c
    BY <2>1, <2>2, PutKeepsType
  <2>4. roots' \subseteq DOMAIN text /\ pending' = pending /\ stopped' \in BOOLEAN
    BY <1>7 DEF SetGlobal, RuntimeError, TypeOK
  <2> QED
    BY <1>7, <2>2, <2>3, <2>4 DEF SetGlobal, TypeOK, GlobalsLayer, objects, request, response
<1>8. ASSUME CollectGarbage PROVE TypeInv'
  BY <1>8 DEF CollectGarbage, TypeOK, GlobalsLayer, NoGlobals, main, objects, response
<1>9. ASSUME IntegrateGCResponse PROVE TypeInv'
  <2>1. /\ strings' = [a |-> strings.a, b |-> new_strings_b, c |-> {}]
        /\ globals' = [a |-> globals.a, b |-> new_globals_b, c |-> NoGlobals]
    BY <1>9 DEF IntegrateGCResponse
  <2>2. \A l \in {globals.a, globals.b, globals.c, new_globals_b}' : GlobalsLayer(l)'
    BY <1>9, <2>1 DEF IntegrateGCResponse, TypeOK, GlobalsLayer, NoGlobals, main
  <2>3. /\ UNION {roots, resolving, flagged, req_roots, req_ids, dark}' \subseteq DOMAIN text'
        /\ UNION {strings.a, strings.b, strings.c, new_strings_b}' \subseteq DOMAIN text'
    BY <1>9, <2>1 DEF IntegrateGCResponse, TypeOK, main
  <2> QED
    BY <1>9, <2>1, <2>2, <2>3 DEF IntegrateGCResponse, TypeOK, main
<1>10. ASSUME Mark PROVE TypeInv'
  <2>1. dark' \subseteq DOMAIN text
    BY <1>10, HeldIsGivenOut DEF Mark, TypeOK, Held, FrozenGlobals
  <2> QED
    BY <1>10, <2>1 DEF Mark, TypeOK, GlobalsLayer, main, tables, objects, request
<1>11. ASSUME CopyStringsB PROVE TypeInv'
  BY <1>11 DEF CopyStringsB, TypeOK, GlobalsLayer, main, tables, objects, request
<1>12. ASSUME CopyStringsC PROVE TypeInv'
  BY <1>12 DEF CopyStringsC, TypeOK, GlobalsLayer, main, tables, objects, request
<1>13. ASSUME CopyGlobalsB PROVE TypeInv'
  BY <1>13 DEF CopyGlobalsB, TypeOK, GlobalsLayer, main, tables, objects, request
<1>14. ASSUME CopyGlobalsC PROVE TypeInv'
  BY <1>14 DEF CopyGlobalsC, Over, Part, TypeOK, GlobalsLayer, main, tables, objects, request
<1>15. CASE UNCHANGED vars
  BY <1>15 DEF vars, TypeOK, GlobalsLayer, main, tables, objects, request, response
<1> QED
  BY <1>1, <1>2, <1>3, <1>4, <1>5, <1>6, <1>7, <1>8, <1>9, <1>10, <1>11, <1>12, <1>13, <1>14,
     <1>15 DEF Next, MainNext, GcNext
-----------------------------------------------------------------------------
(***************************************************************************)
(* What resolves.                                                          *)
(***************************************************************************)

LEMMA KeptInit == Init => Kept
  BY NoKeys DEF Init, Kept, Held, FrozenGlobals, Interned, IdleInv, CollectingInv, MarkedInv,
    ResponseInv

\* The interpreter's operations other than AllocateString let it hold nothing that
\* it did not hold before, but for what the intern table has.
LEMMA KeptByInterpreter ==
  ASSUME Kept,
         Held' \subseteq Held \cup Interned,
         FrozenGlobals' = FrozenGlobals, globals'.c = globals.c,
         UNCHANGED <<strings, objects, gcpc, request, response>>
  PROVE  Kept'
<1> USE DEF objects, request, response
<1>1. Interned' = Interned
  BY DEF Interned
<1>2. (Held \cup Interned \subseteq resolving)' /\ (Interned \cap flagged = {})'
  BY <1>1 DEF Kept
<1>3. IdleInv' /\ ResponseInv'
  BY DEF Kept, IdleInv, ResponseInv
<1>4. Snapshot' = Snapshot
  BY DEF Snapshot
<1>5. CollectingInv'
  BY <1>4 DEF Kept, CollectingInv
<1>6. MarkedInv'
  BY <1>4 DEF Kept, MarkedInv
<1> QED
  BY <1>2, <1>3, <1>5, <1>6 DEF Kept

LEMMA KeptByPut ==
  ASSUME TypeInv, Kept, NEW k \in roots, NEW v \in roots \cup {Tomb}, PutGlobal(k, v),
         roots' \subseteq roots,
         UNCHANGED <<text, strings, objects, gcpc, request, response>>
  PROVE  Kept'
<1>1. k \in DOMAIN text /\ v \in DOMAIN text \cup {Tomb} /\ UNCHANGED text
  BY DEF TypeInv, TypeOK
<1>2. /\ globals'.b = globals.b
      /\ globals'.c = globals.c
      /\ globals'.a = Insert(globals.a, k, v)
  BY <1>1, PutKeepsType
<1>3. KeysAndValues(globals'.a) \subseteq KeysAndValues(globals.a) \cup roots
  BY <1>2, InsertKeys
<1>4. FrozenGlobals' = FrozenGlobals
  BY <1>2 DEF FrozenGlobals
<1>5. Held' \subseteq Held
  BY <1>3, <1>4 DEF Held
<1> QED
  BY <1>2, <1>4, <1>5, KeptByInterpreter

LEMMA KeptByAllocation ==
  ASSUME TypeInv, Kept, AllocateString
  PROVE  Kept'
<1>1. /\ Held' = Held \cup {NextId}
      /\ FrozenGlobals' = FrozenGlobals
      /\ globals' = globals
      /\ strings' = [a |-> strings.a \cup {NextId}, b |-> strings.b, c |-> strings.c]
      /\ resolving' = resolving \cup {NextId}
      /\ UNCHANGED <<flagged, gcpc, req_roots, req_ids, dark, new_strings_b, new_globals_b>>
  BY DEF AllocateString, TypeInv, ThreeLayers, Held, FrozenGlobals, request, response
<1>2. Interned' = Interned \cup {NextId}
  BY <1>1 DEF Interned
<1>3. NextId \notin flagged /\ NextId \notin req_ids
  BY NextIdIsNew DEF TypeInv, TypeOK
<1>4. (Held \cup Interned \subseteq resolving)' /\ (Interned \cap flagged = {})'
  BY <1>1, <1>2, <1>3 DEF Kept
<1>5. IdleInv' /\ ResponseInv'
  BY <1>1 DEF Kept, IdleInv, ResponseInv
<1>6. Snapshot' = Snapshot
  BY <1>1 DEF Snapshot
<1>7. CollectingInv'
  BY <1>1, <1>3, <1>6 DEF Kept, CollectingInv
<1>8. MarkedInv'
  BY <1>1, <1>6 DEF Kept, MarkedInv
<1> QED
  BY <1>4, <1>5, <1>7, <1>8 DEF Kept

\* The snapshot has everything the program holds but the newest layers, which are
\* empty at that moment.
LEMMA KeptByFreeze ==
  ASSUME TypeInv, Kept, CollectGarbage
  PROVE  Kept'
<1>1. /\ gcpc = "idle" /\ gcpc' = "mark"
      /\ strings' = [a |-> {}, b |-> strings.a, c |-> strings.b]
      /\ globals' = [a |-> NoGlobals, b |-> globals.a, c |-> globals.b]
      /\ req_roots' = roots
      /\ UNCHANGED <<roots, resolving, flagged, new_strings_b, new_globals_b>>
  BY DEF CollectGarbage, main, objects, response
<1>2. Interned' \subseteq Interned
  BY <1>1 DEF Interned
<1>3. KeysAndValues(NoGlobals) = {}
  BY NoKeys
<1>4. FrozenGlobals' \subseteq KeysAndValues(globals.a) \cup KeysAndValues(globals.b)
  BY <1>1 DEF FrozenGlobals
<1>5. Held' \subseteq Held /\ Held' \subseteq Snapshot'
  BY <1>1, <1>3, <1>4 DEF Held, Snapshot, FrozenGlobals
<1>6. (Held \cup Interned \subseteq resolving)' /\ (Interned \cap flagged = {})'
  BY <1>1, <1>2, <1>5 DEF Kept
<1>7. new_strings_b = {} /\ new_globals_b = NoGlobals
  BY <1>1 DEF Kept, IdleInv
<1>8. ResponseInv'
  BY <1>1, <1>3, <1>7 DEF ResponseInv
<1>9. IdleInv' /\ CollectingInv' /\ MarkedInv'
  BY <1>1, <1>5 DEF IdleInv, CollectingInv, MarkedInv
<1> QED
  BY <1>6, <1>8, <1>9 DEF Kept

\* What is dropped was flagged and not marked, what is flagged was there at the
\* freeze and not marked; the program holds neither of the first, and the intern
\* table has neither.
LEMMA KeptByIntegration ==
  ASSUME TypeInv, Kept, IntegrateGCResponse
  PROVE  Kept'
<1>1. /\ gcpc = "done" /\ gcpc' = "idle"
      /\ strings' = [a |-> strings.a, b |-> new_strings_b, c |-> {}]
      /\ globals' = [a |-> globals.a, b |-> new_globals_b, c |-> NoGlobals]
      /\ roots' = roots
      /\ resolving' = resolving \ (flagged \ dark)
      /\ flagged' = (req_ids \ flagged) \ dark
      /\ new_strings_b' = {} /\ new_globals_b' = NoGlobals
  BY DEF IntegrateGCResponse, TypeInv, ThreeLayers, main
<1>2. KeysAndValues(NoGlobals) = {}
  BY NoKeys
<1>3. FrozenGlobals' \subseteq FrozenGlobals
  BY <1>1, <1>2 DEF Kept, ResponseInv, FrozenGlobals
<1>4. Held' \subseteq Held
  BY <1>1, <1>3 DEF Held
<1>5. Interned' \subseteq strings.a \cup new_strings_b /\ Interned' \subseteq Interned
  BY <1>1 DEF Kept, ResponseInv, Interned
<1>6. Held \cap flagged \subseteq dark
  BY <1>1 DEF Kept, CollectingInv, MarkedInv
<1>7. strings.a \cap req_ids = {} /\ new_strings_b \subseteq dark
  BY <1>1 DEF Kept, CollectingInv, MarkedInv
<1>8. (Held \cup Interned \subseteq resolving)'
  BY <1>1, <1>4, <1>5, <1>6 DEF Kept
<1>9. (Interned \cap flagged = {})'
  BY <1>1, <1>5, <1>7
<1>10. IdleInv' /\ CollectingInv' /\ MarkedInv'
  BY <1>1 DEF IdleInv, CollectingInv, MarkedInv
<1>11. ResponseInv'
  BY <1>1, <1>2 DEF ResponseInv
<1> QED
  BY <1>8, <1>9, <1>10, <1>11 DEF Kept

LEMMA KeptByGcThread ==
  ASSUME TypeInv, Kept, GcNext
  PROVE  Kept'
<1>1. UNCHANGED <<main, tables, objects, request>> /\ gcpc # "idle" /\ gcpc' # "idle"
  BY DEF GcNext, Mark, CopyStringsB, CopyStringsC, CopyGlobalsB, CopyGlobalsC
<1>2. Held' = Held /\ Interned' = Interned /\ FrozenGlobals' = FrozenGlobals
  BY <1>1 DEF Held, Interned, FrozenGlobals, main, tables
<1>3. Snapshot' = Snapshot
  BY <1>1, <1>2 DEF Snapshot, request
<1>4. /\ (Held \cup Interned \subseteq resolving)'
      /\ (Interned \cap flagged = {})'
      /\ CollectingInv' /\ IdleInv'
  BY <1>1, <1>2, <1>3 DEF Kept, CollectingInv, IdleInv, objects, tables, request
<1>5. strings' = strings /\ globals' = globals
  BY <1>1 DEF tables
<1>6. CASE Mark
  <2>1. Snapshot \subseteq dark'
    BY <1>6 DEF Mark, Snapshot, FrozenGlobals
  <2>2. MarkedInv'
    BY <1>3, <1>6, <2>1 DEF Mark, MarkedInv
  <2>3. ResponseInv'
    BY <1>2, <1>5, <1>6 DEF Mark, Kept, ResponseInv
  <2> QED
    BY <1>4, <2>2, <2>3 DEF Kept
<1>7. CASE CopyStringsB
  <2>1. MarkedInv'
    BY <1>3, <1>7 DEF CopyStringsB, Kept, MarkedInv
  <2>2. ResponseInv'
    BY <1>2, <1>5, <1>7 DEF CopyStringsB, Kept, ResponseInv
  <2> QED
    BY <1>4, <2>1, <2>2 DEF Kept
<1>8. CASE CopyStringsC
  <2>1. MarkedInv'
    BY <1>3, <1>8 DEF CopyStringsC, Kept, MarkedInv
  <2>2. ResponseInv'
    BY <1>2, <1>5, <1>8 DEF CopyStringsC, Kept, ResponseInv
  <2> QED
    BY <1>4, <2>1, <2>2 DEF Kept
<1>9. CASE CopyGlobalsB
  <2>1. MarkedInv'
    BY <1>3, <1>9 DEF CopyGlobalsB, Kept, MarkedInv
  <2>2. KeysAndValues(new_globals_b') \subseteq FrozenGlobals
    BY <1>9 DEF CopyGlobalsB, FrozenGlobals
  <2>3. ResponseInv'
    BY <1>2, <1>5, <1>9, <2>2 DEF CopyGlobalsB, Kept, ResponseInv
  <2> QED
    BY <1>4, <2>1, <2>3 DEF Kept
<1>10. CASE CopyGlobalsC
  <2> DEFINE K == {k \in DOMAIN globals.c : ~HasKey(globals.b, k)}
  <2>1. MarkedInv'
    BY <1>3, <1>10 DEF CopyGlobalsC, Kept, MarkedInv
  <2>2. new_globals_b' = Over(new_globals_b, Part(globals.c, K))
    BY <1>10 DEF CopyGlobalsC
  <2>3. KeysAndValues(Part(globals.c, K)) \subseteq FrozenGlobals
    BY PartKeys DEF FrozenGlobals
  <2>4. KeysAndValues(new_globals_b) \subseteq FrozenGlobals
    BY DEF Kept, ResponseInv
  <2>5. KeysAndValues(new_globals_b') \subseteq FrozenGlobals
    <3> HIDE DEF K
    <3> QED
      BY <2>2, <2>3, <2>4, OverKeys
  <2>6. ResponseInv'
    BY <1>2, <1>5, <1>10, <2>5 DEF CopyGlobalsC, Kept, ResponseInv
  <2> QED
    BY <1>4, <2>1, <2>6 DEF Kept
<1> QED
  BY <1>6, <1>7, <1>8, <1>9, <1>10 DEF GcNext

LEMMA KeptStep == TypeInv /\ Kept /\ [Next]_vars => Kept'
<1> SUFFICES ASSUME TypeInv, Kept, [Next]_vars PROVE Kept'
  OBVIOUS
<1>1. ASSUME NEW t \in Text, InternFound(t) PROVE Kept'
  <2>1. roots' \subseteq roots \cup Interned
    BY <1>1, FoundIsInterned DEF InternFound
  <2>2. Held' \subseteq Held \cup Interned /\ FrozenGlobals' = FrozenGlobals
    BY <1>1, <2>1 DEF InternFound, Held, FrozenGlobals, tables
  <2> QED
    BY <1>1, <2>2, KeptByInterpreter DEF InternFound, tables
<1>2. ASSUME NEW t \in Text, InternMissing(t) PROVE Kept'
  <2>1. Held' = Held /\ FrozenGlobals' = FrozenGlobals
    BY <1>2 DEF InternMissing, Held, FrozenGlobals, tables
  <2> QED
    BY <1>2, <2>1, KeptByInterpreter DEF InternMissing, tables
<1>3. ASSUME NEW k \in Ids, Drop(k) PROVE Kept'
  <2>1. Held' \subseteq Held /\ FrozenGlobals' = FrozenGlobals
    BY <1>3 DEF Drop, Held, FrozenGlobals, tables
  <2> QED
    BY <1>3, <2>1, KeptByInterpreter DEF Drop, tables
<1>4. ASSUME NEW k \in Ids, GetGlobal(k) PROVE Kept'
  <2>1. roots' \subseteq Held
    BY <1>4, NewestIsHeld DEF GetGlobal, RuntimeError, Held
  <2>2. Held' \subseteq Held /\ FrozenGlobals' = FrozenGlobals
    BY <1>4, <2>1 DEF GetGlobal, Held, FrozenGlobals, tables
  <2> QED
    BY <1>4, <2>2, KeptByInterpreter DEF GetGlobal, tables
<1>5. ASSUME NEW k \in Ids, NEW v \in Ids, DefineGlobal(k, v) PROVE Kept'
  BY <1>5, KeptByPut DEF DefineGlobal
<1>6. ASSUME NEW k \in Ids, NEW v \in Ids, SetGlobal(k, v) PROVE Kept'
  <2>1. /\ k \in roots /\ v \in roots
        /\ PutGlobal(k, v) \/ PutGlobal(k, Tomb)
        /\ roots' \subseteq roots
        /\ UNCHANGED <<text, strings, objects, gcpc, request, response>>
    BY <1>6 DEF SetGlobal, RuntimeError
  <2> QED
    BY <2>1, KeptByPut
<1>7. CASE UNCHANGED vars
  BY <1>7, KeptByInterpreter
    DEF vars, main, tables, Held, FrozenGlobals
<1> QED
  BY <1>1, <1>2, <1>3, <1>4, <1>5, <1>6, <1>7,
     KeptByAllocation, KeptByFreeze, KeptByIntegration, KeptByGcThread DEF Next, MainNext
-----------------------------------------------------------------------------
(***************************************************************************)
(* One object for every text.                                              *)
(***************************************************************************)

LEMMA InternInit == Init => InternInv
  BY NoKeys DEF Init, InternInv, Held, FrozenGlobals, Interned, Distinct, PendingIsMissing,
    CopiedInv, FrozenInv

\* Operations but AllocateString; in a collection they take no reference to a
\* frozen string that the program does not have.
LEMMA InternedByInterpreter ==
  ASSUME InternInv,
         Held' \subseteq Held \cup Interned,
         gcpc # "idle" => Held' \cap FrozenStrings \subseteq Held,
         FrozenGlobals' = FrozenGlobals,
         PendingIsMissing',
         UNCHANGED <<text, strings, objects, gcpc, request, response>>
  PROVE  InternInv'
<1> USE DEF objects, request, response
<1>1. Interned' = Interned /\ FrozenStrings' = FrozenStrings
  BY DEF Interned, FrozenStrings
<1>2. Held' \subseteq Interned'
  BY <1>1 DEF InternInv, Interned
<1>3. Distinct'
  BY <1>1 DEF InternInv, Distinct
<1>4. Snapshot' = Snapshot
  BY DEF Snapshot
<1>5. FrozenInv'
  BY <1>1, <1>4 DEF InternInv, FrozenInv
<1>6. CopiedInv'
  BY DEF InternInv, CopiedInv
<1> QED
  BY <1>2, <1>3, <1>5, <1>6 DEF InternInv

LEMMA InternedByPut ==
  ASSUME TypeInv, InternInv, NEW k \in roots, NEW v \in roots \cup {Tomb}, PutGlobal(k, v),
         roots' \subseteq roots,
         UNCHANGED <<text, pending, strings, objects, gcpc, request, response>>
  PROVE  InternInv'
<1>1. k \in DOMAIN text /\ v \in DOMAIN text \cup {Tomb} /\ UNCHANGED text
  BY DEF TypeInv, TypeOK
<1>2. /\ globals'.b = globals.b
      /\ globals'.c = globals.c
      /\ globals'.a = Insert(globals.a, k, v)
  BY <1>1, PutKeepsType
<1>3. KeysAndValues(globals'.a) \subseteq KeysAndValues(globals.a) \cup roots
  BY <1>2, InsertKeys
<1>4. FrozenGlobals' = FrozenGlobals
  BY <1>2 DEF FrozenGlobals
<1>5. Held' \subseteq Held
  BY <1>3, <1>4 DEF Held
<1>6. PendingIsMissing'
  BY DEF InternInv, PendingIsMissing, Interned
<1> QED
  BY <1>4, <1>5, <1>6, InternedByInterpreter

\* The text was missing when it was looked up, and still is.
LEMMA InternedByAllocation ==
  ASSUME TypeInv, InternInv, AllocateString
  PROVE  InternInv'
<1>1. /\ Held' = Held \cup {NextId}
      /\ FrozenGlobals' = FrozenGlobals
      /\ strings' = [a |-> strings.a \cup {NextId}, b |-> strings.b, c |-> strings.c]
      /\ pending # NoText /\ pending' = NoText
      /\ UNCHANGED <<gcpc, req_roots, req_ids, dark, new_strings_b, new_globals_b>>
  BY DEF AllocateString, TypeInv, ThreeLayers, Held, FrozenGlobals, request, response
<1>2. Interned' = Interned \cup {NextId} /\ FrozenStrings' = FrozenStrings
  BY <1>1 DEF Interned, FrozenStrings
<1>3. Interned \subseteq DOMAIN text /\ NextId \notin DOMAIN text
  BY NextIdIsNew, HeldIsGivenOut
<1>4. text'[NextId] = pending /\ \A k \in Interned : text'[k] = text[k]
  BY <1>3 DEF AllocateString, Over
<1>5. Distinct'
  BY <1>1, <1>2, <1>4 DEF InternInv, Distinct, PendingIsMissing
<1>6. PendingIsMissing'
  BY <1>1 DEF PendingIsMissing
<1>7. Snapshot' = Snapshot
  BY <1>1 DEF Snapshot
<1>8. NextId \notin FrozenStrings
  BY <1>3 DEF Interned, FrozenStrings
<1>9. FrozenInv'
  BY <1>1, <1>2, <1>3, <1>7, <1>8 DEF InternInv, FrozenInv
<1>10. CopiedInv'
  BY <1>1 DEF InternInv, CopiedInv
<1> QED
  BY <1>1, <1>2, <1>5, <1>6, <1>9, <1>10 DEF InternInv

LEMMA InternedByFreeze ==
  ASSUME TypeInv, Kept, InternInv, CollectGarbage
  PROVE  InternInv'
<1>1. /\ gcpc = "idle" /\ gcpc' = "mark"
      /\ strings' = [a |-> {}, b |-> strings.a, c |-> strings.b]
      /\ globals' = [a |-> NoGlobals, b |-> globals.a, c |-> globals.b]
      /\ req_roots' = roots
      /\ UNCHANGED <<text, pending, roots>>
  BY DEF CollectGarbage, main, objects, response
<1>2. Interned' = Interned
  BY <1>1 DEF Interned, Kept, IdleInv
<1>3. KeysAndValues(NoGlobals) = {}
  BY NoKeys
<1>4. Held' \subseteq Held /\ Held' \subseteq Snapshot'
  BY <1>1, <1>3 DEF Held, Snapshot, FrozenGlobals
<1>5. Distinct' /\ PendingIsMissing'
  BY <1>1, <1>2 DEF InternInv, Distinct, PendingIsMissing
<1>6. CopiedInv'
  BY <1>1 DEF CopiedInv
<1> QED
  BY <1>1, <1>2, <1>4, <1>5, <1>6 DEF InternInv, FrozenInv

\* What the program holds is in A, or was marked and copied.
LEMMA InternedByIntegration ==
  ASSUME TypeInv, Kept, InternInv, IntegrateGCResponse
  PROVE  InternInv'
<1>1. /\ gcpc = "done" /\ gcpc' = "idle"
      /\ pending' = NoText
      /\ strings' = [a |-> strings.a, b |-> new_strings_b, c |-> {}]
      /\ globals' = [a |-> globals.a, b |-> new_globals_b, c |-> NoGlobals]
      /\ roots' = roots
      /\ text' = text
  BY DEF IntegrateGCResponse, TypeInv, ThreeLayers, main
<1>2. KeysAndValues(NoGlobals) = {}
  BY NoKeys
<1>3. FrozenGlobals' \subseteq FrozenGlobals
  BY <1>1, <1>2 DEF Kept, ResponseInv, FrozenGlobals
<1>4. Held' \subseteq Held
  BY <1>1, <1>3 DEF Held
<1>5. Interned' = strings.a \cup new_strings_b /\ Interned' \subseteq Interned
  BY <1>1 DEF Kept, ResponseInv, Interned
<1>6. Held \cap FrozenStrings \subseteq dark
  BY <1>1 DEF InternInv, FrozenInv, Kept, MarkedInv
<1>7. FrozenStrings \cap dark \subseteq new_strings_b
  BY <1>1 DEF InternInv, CopiedInv, FrozenStrings
<1>8. Held' \subseteq Interned'
  BY <1>4, <1>5, <1>6, <1>7 DEF InternInv, Interned, FrozenStrings
<1>9. Distinct' /\ PendingIsMissing'
  BY <1>1, <1>5 DEF InternInv, Distinct, PendingIsMissing
<1>10. CopiedInv'
  BY <1>1 DEF CopiedInv
<1> QED
  BY <1>1, <1>8, <1>9, <1>10 DEF InternInv, FrozenInv

LEMMA InternedByGcThread ==
  ASSUME TypeInv, Kept, InternInv, GcNext
  PROVE  InternInv'
<1>1. UNCHANGED <<main, tables, objects, request>> /\ gcpc # "idle"
  BY DEF GcNext, Mark, CopyStringsB, CopyStringsC, CopyGlobalsB, CopyGlobalsC
<1>2. Held' = Held /\ Interned' = Interned /\ FrozenGlobals' = FrozenGlobals
  BY <1>1 DEF Held, Interned, FrozenGlobals, main, tables
<1>3. Snapshot' = Snapshot /\ FrozenStrings' = FrozenStrings
  BY <1>1, <1>2 DEF Snapshot, FrozenStrings, request, tables
<1>4. /\ Held' \subseteq Interned' /\ Distinct' /\ PendingIsMissing'
      /\ FrozenInv'
  BY <1>1, <1>2, <1>3 DEF InternInv, FrozenInv, Distinct, PendingIsMissing, main, tables
<1>5. strings' = strings
  BY <1>1 DEF tables
<1>6. CASE Mark
  BY <1>4, <1>6 DEF Mark, InternInv, CopiedInv
<1>7. CASE CopyStringsB
  BY <1>4, <1>5, <1>7 DEF CopyStringsB, InternInv, CopiedInv
<1>8. CASE CopyStringsC
  \* B masks an entry of C only by being the same string.
  <2>1. strings.b \cap dark \subseteq new_strings_b
    BY <1>8 DEF CopyStringsC, InternInv, CopiedInv
  <2>2. ASSUME NEW k \in strings.c \cap dark, k \notin new_strings_b
        PROVE  Equal(strings.b, k) = {}
    BY <2>1, <2>2 DEF InternInv, Distinct, Interned, Equal
  <2>3. strings.c \cap dark \subseteq new_strings_b'
    BY <1>8, <2>2 DEF CopyStringsC
  <2> QED
    BY <1>4, <1>5, <1>8, <2>1, <2>3 DEF CopyStringsC, InternInv, CopiedInv
<1>9. CASE CopyGlobalsB
  BY <1>4, <1>5, <1>9 DEF CopyGlobalsB, InternInv, CopiedInv
<1>10. CASE CopyGlobalsC
  BY <1>4, <1>5, <1>10 DEF CopyGlobalsC, InternInv, CopiedInv
<1> QED
  BY <1>6, <1>7, <1>8, <1>9, <1>10 DEF GcNext

LEMMA InternStep ==
  ASSUME ~ResurrectsWhite
  PROVE  TypeInv /\ Kept /\ InternInv /\ [Next]_vars => InternInv'
<1> SUFFICES ASSUME TypeInv, Kept, InternInv, [Next]_vars PROVE InternInv'
  OBVIOUS
<1>1. ASSUME UNCHANGED <<text, pending, strings>> PROVE PendingIsMissing'
  BY <1>1 DEF InternInv, PendingIsMissing, Interned
<1>2. ASSUME NEW t \in Text, InternFound(t) PROVE InternInv'
  <2>1. PICK k \in FindString(t) :
          /\ gcpc = "idle" \/ k \in strings.a \cup Accessible
          /\ roots' = roots \cup {k}
    BY <1>2 DEF InternFound
  <2>2. k \in Interned
    BY <2>1, FoundIsInterned
  <2>3. UNCHANGED <<text, pending, strings, globals, objects, gcpc, request, response>>
    BY <1>2 DEF InternFound, tables
  <2>4. Held' = Held \cup {k} /\ FrozenGlobals' = FrozenGlobals
    BY <2>1, <2>3 DEF Held, FrozenGlobals
  <2>5. gcpc # "idle" => k \in Held \/ k \notin FrozenStrings
    BY <2>1, AccessibleIsHeld DEF InternInv, FrozenInv
  <2> QED
    BY <1>1, <2>2, <2>3, <2>4, <2>5, InternedByInterpreter
<1>3. ASSUME NEW t \in Text, InternMissing(t) PROVE InternInv'
  <2>1. Held' = Held /\ FrozenGlobals' = FrozenGlobals
    BY <1>3 DEF InternMissing, Held, FrozenGlobals, tables
  <2>2. \A k \in Interned : text[k] # t
    BY <1>3 DEF InternMissing, FindString, InternedIn, Interned
  <2>3. PendingIsMissing'
    BY <1>3, <2>2 DEF InternMissing, PendingIsMissing, Interned, tables
  <2> QED
    BY <1>3, <2>1, <2>3, InternedByInterpreter DEF InternMissing, tables
<1>4. ASSUME NEW k \in Ids, Drop(k) PROVE InternInv'
  <2>1. Held' \subseteq Held /\ FrozenGlobals' = FrozenGlobals
    BY <1>4 DEF Drop, Held, FrozenGlobals, tables
  <2> QED
    BY <1>1, <1>4, <2>1, InternedByInterpreter DEF Drop, tables
<1>5. ASSUME NEW k \in Ids, GetGlobal(k) PROVE InternInv'
  <2>1. roots' \subseteq Held /\ UNCHANGED <<text, pending>>
    BY <1>5, NewestIsHeld DEF GetGlobal, RuntimeError, Held
  <2>2. Held' \subseteq Held /\ FrozenGlobals' = FrozenGlobals
    BY <1>5, <2>1 DEF GetGlobal, Held, FrozenGlobals, tables
  <2> QED
    BY <1>1, <1>5, <2>1, <2>2, InternedByInterpreter DEF GetGlobal, tables
<1>6. ASSUME NEW k \in Ids, NEW v \in Ids, DefineGlobal(k, v) PROVE InternInv'
  BY <1>6, InternedByPut DEF DefineGlobal
<1>7. ASSUME NEW k \in Ids, NEW v \in Ids, SetGlobal(k, v) PROVE InternInv'
  <2>1. /\ k \in roots /\ v \in roots
        /\ PutGlobal(k, v) \/ PutGlobal(k, Tomb)
        /\ roots' \subseteq roots
        /\ UNCHANGED <<text, pending, strings, objects, gcpc, request, response>>
    BY <1>7 DEF SetGlobal, RuntimeError
  <2> QED
    BY <2>1, InternedByPut
<1>8. CASE UNCHANGED vars
  BY <1>1, <1>8, InternedByInterpreter DEF vars, main, tables, Held, FrozenGlobals
<1> QED
  BY <1>2, <1>3, <1>4, <1>5, <1>6, <1>7, <1>8, InternedByAllocation, InternedByFreeze,
     InternedByIntegration, InternedByGcThread DEF Next, MainNext

LEMMA FoundAgain ==
  ASSUME Distinct, NEW k \in Interned
  PROVE  FindString(text[k]) = {k}
  BY DEF Distinct, Interned, FindString, InternedIn

-----------------------------------------------------------------------------
\* Every variable of the tables keeps its type, and ids are given out in order.
THEOREM TypeCorrectness == Spec => []TypeOK
<1>1. TypeInv => TypeOK
  BY DEF TypeInv
<1> QED
  BY <1>1, TypeInit, TypeStep, PTL DEF Spec

\* Neither the program nor a table's comparator ever follows an id whose object is
\* gone, whatever is interned, defined, undefined, let go of and looked up again.
THEOREM KeysAlwaysResolve == Spec => []KeysResolve
<1>1. Kept => KeysResolve
  <2>1. Accessible \subseteq Held
    BY AccessibleIsHeld
  <2>2. DOMAIN globals.a \cup DOMAIN globals.b \cup DOMAIN globals.c \subseteq Held
    BY DEF Held, FrozenGlobals, KeysAndValues
  <2>3. Kept => DOMAIN new_globals_b \subseteq Held /\ new_strings_b \subseteq Interned
    BY DEF Kept, ResponseInv, Held, KeysAndValues, Interned
  <2> QED
    BY <2>1, <2>2, <2>3 DEF Kept, KeysResolve, Interned
<1> QED
  BY <1>1, TypeInit, TypeStep, KeptInit, KeptStep, PTL DEF Spec

\* Unless a string is resurrected in a collection, valuesEqual() may compare strings by
\* id: the text of a string the program can get at always yields that string.
THEOREM UniqueInterning ==
  ASSUME ~ResurrectsWhite
  PROVE  Spec => []InterningIsUnique
<1>1. InternInv => InterningIsUnique
  BY AccessibleIsHeld, FoundAgain DEF InternInv, InterningIsUnique
<1> QED
  BY <1>1, TypeInit, TypeStep, KeptInit, KeptStep, InternInit, InternStep, PTL DEF Spec

\* And then what the condensed intern table leaves out is unreachable, as
\* copy_strings_b() says.
THEOREM SkippedStrings ==
  ASSUME ~ResurrectsWhite
  PROVE  Spec => []SkippedAreUnreachable
<1>1. Kept /\ InternInv => SkippedAreUnreachable
  BY AccessibleIsHeld
    DEF Kept, MarkedInv, InternInv, FrozenInv, CopiedInv, FrozenStrings, SkippedAreUnreachable
<1> QED
  BY <1>1, TypeInit, TypeStep, KeptInit, KeptStep, InternInit, InternStep, PTL DEF Spec

-----------------------------------------------------------------------------
(***************************************************************************)
(* Tables implements Names, unless a string is resurrected.                *)
(*                                                                         *)
(* Because interning is unique (InternInv), looking a key up by its text   *)
(* and looking it up by its id come to the same.  So the layers are        *)
(* functions on ids laid over each other (Direct), which a collection does *)
(* not change; names and values are told apart by their texts.             *)
(***************************************************************************)

Dom == DOMAIN globals.a \cup DOMAIN globals.b \cup DOMAIN globals.c

\* The newest value of a global, by the id of its name.
Direct(k) ==
  IF k \in DOMAIN globals.a THEN globals.a[k]
  ELSE IF k \in DOMAIN globals.b THEN globals.b[k]
  ELSE IF k \in DOMAIN globals.c THEN globals.c[k]
  ELSE Tomb

Bound == {k \in Dom : Direct(k) # Tomb}

\* The condensed layer is B laid over C.
CondensedInv ==
  /\ gcpc = "globals_c" => new_globals_b = globals.b
  /\ gcpc = "done" =>
       /\ DOMAIN new_globals_b = DOMAIN globals.b \cup DOMAIN globals.c
       /\ \A k \in DOMAIN new_globals_b :
            new_globals_b[k] = IF k \in DOMAIN globals.b THEN globals.b[k] ELSE globals.c[k]
-----------------------------------------------------------------------------
(***************************************************************************)
(* Lookup by text and by id.                                               *)
(***************************************************************************)

LEMMA KeysAreInterned ==
  ASSUME InternInv
  PROVE  /\ Dom \subseteq Interned
         /\ \A k \in Bound : Direct(k) \in Interned
         /\ roots \subseteq Interned
<1>1. Dom \subseteq Held
  BY DEF Dom, Held, FrozenGlobals, KeysAndValues
<1>2. \A k \in Bound : Direct(k) \in Held
  BY DEF Bound, Direct, Held, FrozenGlobals, KeysAndValues
<1>3. roots \subseteq Held
  BY DEF Held
<1> QED
  BY <1>1, <1>2, <1>3 DEF InternInv

LEMMA LookupInLayer ==
  ASSUME Distinct, NEW l, DOMAIN l \subseteq Interned, NEW k \in Interned
  PROVE  /\ HasKey(l, k) <=> k \in DOMAIN l
         /\ k \in DOMAIN l => At(l, k) = l[k]
<1>1. Equal(DOMAIN l, k) = {q \in {k} : q \in DOMAIN l}
  BY DEF Distinct, Equal
<1> QED
  BY <1>1 DEF HasKey, At

LEMMA LookupIsDirect ==
  ASSUME InternInv
  PROVE  \A k \in Interned : Newest(k) = Direct(k)
<1> TAKE k \in Interned
<1>1. /\ DOMAIN globals.a \subseteq Interned
      /\ DOMAIN globals.b \subseteq Interned
      /\ DOMAIN globals.c \subseteq Interned
  BY KeysAreInterned DEF Dom
<1>2. Distinct
  BY DEF InternInv
<1> QED
  BY <1>1, <1>2, LookupInLayer DEF Newest, Direct

LEMMA NamesAreBound ==
  ASSUME InternInv
  PROVE  GlobalNames = Bound
<1>1. GlobalNames = {k \in Dom : Newest(k) # Tomb}
  BY DEF GlobalNames, Dom, Defined
<1> QED
  BY <1>1, KeysAreInterned, LookupIsDirect DEF Bound

\* The table of globals as the program sees it.
BindingsAreVisible ==
  /\ VisibleGlobals = [t \in DOMAIN VisibleGlobals |-> VisibleGlobals[t]]
  /\ DOMAIN VisibleGlobals = {text[k] : k \in Bound}
  /\ \A k \in Bound : VisibleGlobals[text[k]] = text[Direct(k)]

LEMMA Visible == InternInv => BindingsAreVisible
<1> SUFFICES ASSUME InternInv PROVE BindingsAreVisible
  OBVIOUS
<1>1. GlobalNames = Bound
  BY NamesAreBound
<1>2. ASSUME NEW k \in Bound
      PROVE  (CHOOSE q \in Bound : text[q] = text[k]) = k
  <2>1. \A q \in Bound : text[q] = text[k] => q = k
    BY KeysAreInterned DEF Bound, InternInv, Distinct
  <2> QED
    BY <2>1
<1>3. \A k \in Bound : Newest(k) = Direct(k)
  BY KeysAreInterned, LookupIsDirect DEF Bound
<1>4. \A k \in Bound : VisibleGlobals[text[k]] = text[Direct(k)]
  <2> TAKE k \in Bound
  <2>1. VisibleGlobals[text[k]] = text[Newest(CHOOSE q \in Bound : text[q] = text[k])]
    BY <1>1 DEF VisibleGlobals
  <2> QED
    BY <1>2, <1>3, <2>1
<1> QED
  BY <1>1, <1>4 DEF VisibleGlobals, BindingsAreVisible

LEMMA VisibleNext == InternInv' => BindingsAreVisible'
  BY Visible, PTL

\* What leaves the bindings as they are is not seen.
LEMMA SameBindings ==
  ASSUME InternInv, InternInv', Bound' = Bound,
         \A k \in Bound : /\ Direct(k)' = Direct(k)
                          /\ text'[k] = text[k]
                          /\ text'[Direct(k)] = text[Direct(k)]
  PROVE  VisibleGlobals' = VisibleGlobals
<1> USE Visible, VisibleNext DEF BindingsAreVisible
<1>1. DOMAIN VisibleGlobals' = DOMAIN VisibleGlobals
  OBVIOUS
<1>2. \A t \in DOMAIN VisibleGlobals : VisibleGlobals'[t] = VisibleGlobals[t]
  OBVIOUS
<1> QED
  BY <1>1, <1>2

\* What the interpreter binds, k to v, is seen as a binding of text[k] to text[v], and
\* nothing else is seen to change.
LEMMA NewBinding ==
  ASSUME InternInv, InternInv', UNCHANGED text,
         NEW k \in Interned, NEW v \in Interned,
         Bound' = Bound \cup {k},
         Direct(k)' = v,
         \A q \in Bound \ {k} : Direct(q)' = Direct(q)
  PROVE  VisibleGlobals' =
           [x \in DOMAIN VisibleGlobals \cup {text[k]} |->
              IF x = text[k] THEN text[v] ELSE VisibleGlobals[x]]
<1> USE Visible, VisibleNext DEF BindingsAreVisible
<1>1. DOMAIN VisibleGlobals' = DOMAIN VisibleGlobals \cup {text[k]}
  OBVIOUS
<1>2. VisibleGlobals'[text[k]] = text[v]
  OBVIOUS
<1>3. \A q \in Bound : text[q] # text[k] => VisibleGlobals'[text[q]] = VisibleGlobals[text[q]]
  OBVIOUS
<1>4. \A x \in DOMAIN VisibleGlobals : x # text[k] => VisibleGlobals'[x] = VisibleGlobals[x]
  BY <1>3
<1> QED
  BY <1>1, <1>2, <1>4

LEMMA PutIsDirect ==
  ASSUME TypeInv, InternInv, NEW k \in roots, NEW v, PutGlobal(k, v), UNCHANGED text
  PROVE  /\ Dom' = Dom \cup {k}
         /\ Direct(k)' = v
         /\ \A q \in Dom : q # k => Direct(q)' = Direct(q)
<1>1. globals' = [a |-> Insert(globals.a, k, v), b |-> globals.b, c |-> globals.c]
  BY DEF TypeInv, ThreeLayers, PutGlobal
<1>2. k \in Interned /\ DOMAIN globals.a \subseteq Interned /\ Distinct
  BY KeysAreInterned DEF Dom, InternInv
<1>3. /\ DOMAIN Insert(globals.a, k, v) = DOMAIN globals.a \cup {k}
      /\ Insert(globals.a, k, v)[k] = v
      /\ \A q \in DOMAIN globals.a \ {k} : Insert(globals.a, k, v)[q] = globals.a[q]
  <2> DEFINE l == globals.a
  <2>1. k \in Interned /\ DOMAIN l \subseteq Interned /\ Distinct
    BY <1>2
  <2> HIDE DEF l
  <2>2. /\ DOMAIN Insert(l, k, v) = DOMAIN l \cup {k}
        /\ Insert(l, k, v)[k] = v
        /\ \A q \in DOMAIN l \ {k} : Insert(l, k, v)[q] = l[q]
    <3>1. Equal(DOMAIN l, k) \subseteq {k}
      BY <2>1 DEF Distinct, Equal
    <3> QED
      BY <3>1 DEF Insert, Over, Part
  <2> QED
    BY <2>2 DEF l
<1> QED
  BY <1>1, <1>3 DEF Direct, Dom

-----------------------------------------------------------------------------
(***************************************************************************)
(* A collection.                                                           *)
(***************************************************************************)

LEMMA CondensedStep ==
  ASSUME TypeInv, InternInv, CondensedInv, [Next]_vars
  PROVE  CondensedInv'
<1>1. ASSUME UNCHANGED <<gcpc, new_globals_b>>, globals'.b = globals.b, globals'.c = globals.c
      PROVE  CondensedInv'
  BY <1>1 DEF CondensedInv
<1>2. ASSUME NEW k, NEW v, PutGlobal(k, v), UNCHANGED <<gcpc, new_globals_b>>
      PROVE  CondensedInv'
  BY <1>1, <1>2 DEF PutGlobal, TypeInv, ThreeLayers
<1>3. ASSUME MainNext PROVE CondensedInv'
  <2> USE DEF response, tables
  <2>1. ASSUME NEW t \in Text, InternFound(t) \/ InternMissing(t) PROVE CondensedInv'
    BY <1>1, <2>1 DEF InternFound, InternMissing
  <2>2. CASE AllocateString
    BY <1>1, <2>2 DEF AllocateString
  <2>3. ASSUME NEW k \in Ids, Drop(k) \/ GetGlobal(k) PROVE CondensedInv'
    BY <1>1, <2>3 DEF Drop, GetGlobal
  <2>4. ASSUME NEW k \in Ids, NEW v \in Ids, DefineGlobal(k, v) \/ SetGlobal(k, v)
        PROVE  CondensedInv'
    BY <1>2, <2>4 DEF DefineGlobal, SetGlobal
  <2>5. CASE CollectGarbage
    BY <2>5 DEF CollectGarbage, CondensedInv
  <2>6. CASE IntegrateGCResponse
    BY <2>6 DEF IntegrateGCResponse, CondensedInv
  <2> QED
    BY <1>3, <2>1, <2>2, <2>3, <2>4, <2>5, <2>6 DEF MainNext
<1>4. CASE Mark \/ CopyStringsB \/ CopyStringsC
  BY <1>4 DEF Mark, CopyStringsB, CopyStringsC, CondensedInv
<1>5. CASE CopyGlobalsB
  BY <1>5 DEF CopyGlobalsB, CondensedInv, tables
<1>6. CASE CopyGlobalsC
  <2> DEFINE K == {k \in DOMAIN globals.c : ~HasKey(globals.b, k)}
  <2>1. /\ new_globals_b' = Over(globals.b, Part(globals.c, K))
        /\ gcpc' = "done" /\ globals' = globals
    BY <1>6 DEF CopyGlobalsC, CondensedInv, tables
  <2>2. /\ DOMAIN globals.b \subseteq Interned /\ DOMAIN globals.c \subseteq Interned
        /\ Distinct
    BY KeysAreInterned DEF Dom, InternInv
  <2>3. K = DOMAIN globals.c \ DOMAIN globals.b
    BY <2>2, LookupInLayer
  <2> QED
    BY <2>1, <2>3 DEF Over, Part, CondensedInv
<1>7. CASE UNCHANGED vars
  BY <1>1, <1>7 DEF vars, response, tables
<1> QED
  BY <1>3, <1>4, <1>5, <1>6, <1>7 DEF Next, GcNext

\* No step of a collection is seen in the globals.
LEMMA ShiftIsUnseen ==
  ASSUME TypeInv, Kept, CondensedInv, CollectGarbage \/ IntegrateGCResponse
  PROVE  Dom' = Dom /\ \A k \in Dom : Direct(k)' = Direct(k)
<1>1. CASE CollectGarbage
  <2>1. globals.c = NoGlobals
    BY <1>1 DEF CollectGarbage, Kept, IdleInv
  <2>2. globals' = [a |-> NoGlobals, b |-> globals.a, c |-> globals.b]
    BY <1>1 DEF CollectGarbage
  <2> QED
    BY <2>1, <2>2 DEF Dom, Direct, NoGlobals
<1>2. CASE IntegrateGCResponse
  <2>1. globals' = [a |-> globals.a, b |-> new_globals_b, c |-> NoGlobals]
    BY <1>2 DEF IntegrateGCResponse, TypeInv, ThreeLayers
  <2>2. /\ DOMAIN new_globals_b = DOMAIN globals.b \cup DOMAIN globals.c
        /\ \A k \in DOMAIN new_globals_b :
             new_globals_b[k] = IF k \in DOMAIN globals.b THEN globals.b[k] ELSE globals.c[k]
    BY <1>2 DEF IntegrateGCResponse, CondensedInv
  <2> QED
    BY <2>1, <2>2 DEF Dom, Direct, NoGlobals
<1> QED
  BY <1>1, <1>2

-----------------------------------------------------------------------------
(***************************************************************************)
(* Every step is one of Names or is not seen.                              *)
(***************************************************************************)

LEMMA SameEntries ==
  ASSUME TypeInv, InternInv, InternInv', Dom' = Dom,
         \A k \in Dom : Direct(k)' = Direct(k),
         \A k \in DOMAIN text : text'[k] = text[k]
  PROVE  VisibleGlobals' = VisibleGlobals
<1>1. Bound' = Bound
  BY DEF Bound
<1>2. \A k \in Bound : k \in DOMAIN text /\ Direct(k) \in DOMAIN text
  BY DEF Bound, Dom, Direct, TypeInv, TypeOK, GlobalsLayer
<1>3. \A k \in Bound : k \in Dom
  BY DEF Bound
<1> QED
  BY <1>1, <1>2, <1>3, SameBindings

LEMMA SameGlobals ==
  ASSUME TypeInv, InternInv, InternInv', UNCHANGED globals,
         \A k \in DOMAIN text : text'[k] = text[k]
  PROVE  VisibleGlobals' = VisibleGlobals
<1>1. Dom' = Dom /\ \A k \in Dom : Direct(k)' = Direct(k)
  BY DEF Dom, Direct
<1> QED
  BY <1>1, SameEntries

LEMMA RootsAreStrings ==
  ASSUME TypeInv, NEW k \in roots
  PROVE  k \in DOMAIN text /\ text[k] \in Text /\ text[k] \in VisibleStrings
  BY DEF TypeInv, TypeOK, VisibleStrings

\* What defines or assigns a global in the program: k's text is bound to v's.
LEMMA PutIsVisible ==
  ASSUME TypeInv, InternInv, InternInv', UNCHANGED text,
         NEW k \in roots, NEW v \in roots, PutGlobal(k, v)
  PROVE  VisibleGlobals' =
           [x \in DOMAIN VisibleGlobals \cup {text[k]} |->
              IF x = text[k] THEN text[v] ELSE VisibleGlobals[x]]
<1>1. k \in Interned /\ v \in Interned
  BY KeysAreInterned
<1>2. v # Tomb
  BY RootsAreStrings, TablesAssumption DEF TypeInv, TypeOK
<1>3. /\ Dom' = Dom \cup {k}
      /\ Direct(k)' = v
      /\ \A q \in Dom : q # k => Direct(q)' = Direct(q)
  BY PutIsDirect
<1>4. Bound' = Bound \cup {k}
  BY <1>2, <1>3 DEF Bound
<1>5. \A q \in Bound \ {k} : Direct(q)' = Direct(q)
  BY <1>3 DEF Bound
<1> QED
  BY <1>1, <1>3, <1>4, <1>5, NewBinding

\* A tombstone over a global that is not defined is not seen.
LEMMA TombIsUnseen ==
  ASSUME TypeInv, InternInv, InternInv', UNCHANGED text,
         NEW k \in roots, k \notin Bound, PutGlobal(k, Tomb)
  PROVE  VisibleGlobals' = VisibleGlobals
<1>1. /\ Dom' = Dom \cup {k}
      /\ Direct(k)' = Tomb
      /\ \A q \in Dom : q # k => Direct(q)' = Direct(q)
  BY PutIsDirect
<1>2. Bound' = Bound
  BY <1>1 DEF Bound
<1>3. \A q \in Bound : Direct(q)' = Direct(q)
  BY <1>1 DEF Bound
<1> QED
  BY <1>2, <1>3, SameBindings

\* The program finds a global by its id exactly if it is bound to a text.
LEMMA DefinedIsVisible ==
  ASSUME TypeInv, InternInv, NEW k \in roots
  PROVE  /\ Defined(k) <=> k \in Bound
         /\ k \in Bound <=> text[k] \in DOMAIN VisibleGlobals
         /\ k \in Bound => text[Newest(k)] = VisibleGlobals[text[k]]
<1>1. k \in Interned /\ Bound \subseteq Interned
  BY KeysAreInterned DEF Bound
<1>2. Newest(k) = Direct(k)
  BY <1>1, LookupIsDirect
<1>3. k \notin Dom => Direct(k) = Tomb
  BY DEF Dom, Direct
<1>4. Defined(k) <=> k \in Bound
  BY <1>2, <1>3 DEF Defined, Bound
<1>5. \A q \in Bound : text[q] = text[k] => q = k
  BY <1>1 DEF InternInv, Distinct
<1> QED
  BY <1>2, <1>4, <1>5, Visible DEF BindingsAreVisible

LEMMA StepIsVisible ==
  ASSUME ~ResurrectsWhite, TypeInv, Kept, InternInv, InternInv', CondensedInv, [Next]_vars
  PROVE  [Plain!Next]_(Plain!vars)
<1> USE DEF main, tables
<1>1. ASSUME NEW t \in Text, InternFound(t) PROVE Plain!Make(t)
  <2>1. PICK k \in FindString(t) : roots' = roots \cup {k}
    BY <1>1 DEF InternFound
  <2>2. text[k] = t
    BY <2>1 DEF FindString, InternedIn
  <2>3. UNCHANGED <<text, globals>> /\ stopped' = FALSE
    BY <1>1 DEF InternFound
  <2>4. VisibleStrings' = VisibleStrings \cup {t}
    BY <2>1, <2>2, <2>3 DEF VisibleStrings
  <2>5. VisibleGlobals' = VisibleGlobals
    BY <2>3, SameGlobals
  <2> QED
    BY <2>3, <2>4, <2>5 DEF Plain!Make
<1>2. ASSUME NEW t \in Text, InternMissing(t) PROVE UNCHANGED Plain!vars
  <2>1. UNCHANGED <<text, globals, roots, stopped>>
    BY <1>2 DEF InternMissing
  <2> QED
    BY <2>1, SameGlobals DEF VisibleStrings, Plain!vars
<1>3. ASSUME AllocateString PROVE \E t \in Text : Plain!Make(t)
  <2>1. /\ NextId \notin DOMAIN text
        /\ text' = Over(text, [k \in {NextId} |-> pending])
        /\ roots' = roots \cup {NextId}
        /\ UNCHANGED globals /\ stopped' = FALSE
    BY <1>3, NextIdIsNew DEF AllocateString
  <2>2. pending \in Text
    BY <1>3 DEF AllocateString, TypeInv, TypeOK
  <2>3. text'[NextId] = pending /\ \A k \in DOMAIN text : text'[k] = text[k]
    BY <2>1 DEF Over
  <2>4. VisibleStrings' = VisibleStrings \cup {pending}
    BY <2>1, <2>3, RootsAreStrings DEF VisibleStrings
  <2>5. VisibleGlobals' = VisibleGlobals
    BY <2>1, <2>3, SameGlobals
  <2> QED
    BY <2>1, <2>2, <2>4, <2>5 DEF Plain!Make
<1>4. ASSUME NEW k \in Ids, Drop(k) PROVE \E t \in Text : Plain!Drop(t)
  <2>1. /\ k \in roots /\ roots' = roots \ {k}
        /\ UNCHANGED <<text, globals>> /\ stopped' = FALSE
    BY <1>4 DEF Drop
  <2>2. \A q \in roots : text[q] = text[k] => q = k
    BY <2>1, KeysAreInterned DEF InternInv, Distinct
  <2>3. VisibleStrings' = VisibleStrings \ {text[k]}
    BY <2>1, <2>2 DEF VisibleStrings
  <2>4. VisibleGlobals' = VisibleGlobals
    BY <2>1, SameGlobals
  <2>5. text[k] \in Text
    BY <2>1, RootsAreStrings
  <2> QED
    BY <2>1, <2>3, <2>4, <2>5 DEF Plain!Drop
<1>5. ASSUME NEW k \in Ids, GetGlobal(k)
      PROVE  \E t \in Text : Plain!Get(t) \/ Plain!Undefined(t)
  <2>1. k \in roots /\ UNCHANGED <<text, globals>>
    BY <1>5 DEF GetGlobal, RuntimeError
  <2>2. text[k] \in Text /\ text[k] \in VisibleStrings
    BY <2>1, RootsAreStrings
  <2>3. VisibleGlobals' = VisibleGlobals
    BY <2>1, SameGlobals
  <2>4. CASE Defined(k)
    <3>1. roots' = roots \cup {Newest(k)} /\ stopped' = FALSE
      BY <1>5, <2>4 DEF GetGlobal
    <3>2. /\ text[k] \in DOMAIN VisibleGlobals
          /\ text[Newest(k)] = VisibleGlobals[text[k]]
      BY <2>1, <2>4, DefinedIsVisible
    <3>3. VisibleStrings' = VisibleStrings \cup {VisibleGlobals[text[k]]}
      BY <2>1, <3>1, <3>2 DEF VisibleStrings
    <3>4. Plain!Get(text[k])
      BY <2>2, <2>3, <3>1, <3>2, <3>3 DEF Plain!Get
    <3> QED
      BY <2>2, <3>4
  <2>5. CASE ~Defined(k)
    <3>1. roots' = {} /\ stopped' = TRUE
      BY <1>5, <2>5 DEF GetGlobal, RuntimeError
    <3>2. VisibleStrings' = {}
      BY <3>1 DEF VisibleStrings
    <3>3. text[k] \notin DOMAIN VisibleGlobals
      BY <2>1, <2>5, DefinedIsVisible
    <3>4. Plain!Undefined(text[k])
      BY <2>2, <2>3, <3>1, <3>2, <3>3 DEF Plain!Undefined
    <3> QED
      BY <2>2, <3>4
  <2> QED
    BY <2>4, <2>5
<1>6. ASSUME NEW k \in Ids, NEW v \in Ids, DefineGlobal(k, v)
      PROVE  \E t, x \in Text : Plain!Define(t, x)
  <2>1. /\ k \in roots /\ v \in roots /\ PutGlobal(k, v)
        /\ UNCHANGED <<text, roots>> /\ stopped' = FALSE
    BY <1>6 DEF DefineGlobal
  <2>2. VisibleStrings' = VisibleStrings
    BY <2>1 DEF VisibleStrings
  <2>3. Plain!Define(text[k], text[v])
    BY <2>1, <2>2, RootsAreStrings, PutIsVisible DEF Plain!Define
  <2> QED
    BY <2>1, <2>3, RootsAreStrings
<1>7. ASSUME NEW k \in Ids, NEW v \in Ids, SetGlobal(k, v)
      PROVE  \E t \in Text : Plain!Undefined(t) \/ \E x \in Text : Plain!Set(t, x)
  <2>1. k \in roots /\ v \in roots /\ UNCHANGED text
    BY <1>7 DEF SetGlobal, RuntimeError
  <2>2. CASE Defined(k)
    <3>1. PutGlobal(k, v) /\ UNCHANGED roots /\ stopped' = FALSE
      BY <1>7, <2>2 DEF SetGlobal
    <3>2. VisibleStrings' = VisibleStrings
      BY <2>1, <3>1 DEF VisibleStrings
    <3>3. text[k] \in DOMAIN VisibleGlobals
      BY <2>1, <2>2, DefinedIsVisible
    <3>4. VisibleGlobals' = [VisibleGlobals EXCEPT ![text[k]] = text[v]]
      <4>1. VisibleGlobals' =
              [x \in DOMAIN VisibleGlobals |->
                 IF x = text[k] THEN text[v] ELSE VisibleGlobals[x]]
        <5>1. DOMAIN VisibleGlobals \cup {text[k]} = DOMAIN VisibleGlobals
          BY <3>3
        <5>2. VisibleGlobals' =
                [x \in DOMAIN VisibleGlobals \cup {text[k]} |->
                   IF x = text[k] THEN text[v] ELSE VisibleGlobals[x]]
          BY <2>1, <3>1, PutIsVisible
        <5> QED
          BY <5>1, <5>2
      <4>2. VisibleGlobals = [t \in DOMAIN VisibleGlobals |-> VisibleGlobals[t]]
        BY DEF VisibleGlobals
      <4> HIDE DEF VisibleGlobals
      <4> QED
        BY <3>3, <4>1, <4>2
    <3>5. Plain!Set(text[k], text[v])
      BY <2>1, <3>1, <3>2, <3>3, <3>4, RootsAreStrings DEF Plain!Set
    <3> QED
      BY <2>1, <3>5, RootsAreStrings
  <2>3. CASE ~Defined(k)
    <3>1. PutGlobal(k, Tomb) /\ roots' = {} /\ stopped' = TRUE
      BY <1>7, <2>3 DEF SetGlobal, RuntimeError
    <3>2. k \notin Bound /\ text[k] \notin DOMAIN VisibleGlobals
      BY <2>1, <2>3, DefinedIsVisible
    <3>3. VisibleStrings' = {}
      BY <3>1 DEF VisibleStrings
    <3>4. VisibleGlobals' = VisibleGlobals
      BY <2>1, <3>1, <3>2, TombIsUnseen
    <3>5. Plain!Undefined(text[k])
      BY <2>1, <3>1, <3>2, <3>3, <3>4, RootsAreStrings DEF Plain!Undefined
    <3> QED
      BY <2>1, <3>5, RootsAreStrings
  <2> QED
    BY <2>2, <2>3
<1>8. ASSUME CollectGarbage \/ IntegrateGCResponse PROVE UNCHANGED Plain!vars
  <2>1. UNCHANGED <<text, roots, stopped>>
    BY <1>8 DEF CollectGarbage, IntegrateGCResponse
  <2>2. VisibleGlobals' = VisibleGlobals
    BY <1>8, <2>1, ShiftIsUnseen, SameEntries
  <2> QED
    BY <2>1, <2>2 DEF VisibleStrings, Plain!vars
<1>9. ASSUME GcNext \/ UNCHANGED vars PROVE UNCHANGED Plain!vars
  <2>1. UNCHANGED <<text, roots, stopped, globals>>
    BY <1>9 DEF GcNext, Mark, CopyStringsB, CopyStringsC, CopyGlobalsB, CopyGlobalsC, vars
  <2> QED
    BY <2>1, SameGlobals DEF VisibleStrings, Plain!vars
<1>10. ASSUME MainNext PROVE Plain!Next \/ UNCHANGED Plain!vars
  <2>1. ASSUME NEW t \in Text, InternFound(t) \/ InternMissing(t)
        PROVE  Plain!Next \/ UNCHANGED Plain!vars
    BY <1>1, <1>2, <2>1 DEF Plain!Next
  <2>2. CASE AllocateString
    BY <1>3, <2>2 DEF Plain!Next
  <2>3. ASSUME NEW k \in Ids, Drop(k) \/ GetGlobal(k) PROVE Plain!Next
    BY <1>4, <1>5, <2>3 DEF Plain!Next
  <2>4. ASSUME NEW k \in Ids, NEW v \in Ids, DefineGlobal(k, v) \/ SetGlobal(k, v)
        PROVE  Plain!Next
    BY <1>6, <1>7, <2>4 DEF Plain!Next
  <2> QED
    BY <1>8, <1>10, <2>1, <2>2, <2>3, <2>4 DEF MainNext
<1> QED
  BY <1>9, <1>10 DEF Next

LEMMA InitIsVisible == Init => Plain!Init
<1> SUFFICES ASSUME Init PROVE Plain!Init
  OBVIOUS
<1>1. VisibleStrings = {} /\ stopped = FALSE
  BY DEF Init, VisibleStrings
<1>2. GlobalNames = {}
  BY DEF Init, GlobalNames, NoGlobals
<1>3. VisibleGlobals = [t \in {} |-> t]
  BY <1>2 DEF VisibleGlobals
<1> QED
  BY <1>1, <1>3 DEF Plain!Init

\* The layers, the tombstones and the collector, condensing both tables while the
\* program runs, are invisible to it: strings and globals are as in Names.
THEOREM Refinement ==
  ASSUME ~ResurrectsWhite
  PROVE  Spec => NamesSpec
<1>1. Init => CondensedInv
  BY DEF Init, CondensedInv
<1>2. Spec => [](TypeInv /\ Kept /\ InternInv /\ CondensedInv)
  BY <1>1, TypeInit, TypeStep, KeptInit, KeptStep, InternInit, InternStep, CondensedStep,
     PTL DEF Spec
<1> QED
  BY <1>2, InitIsVisible, StepIsVisible, PTL DEF Spec, NamesSpec, Plain!Spec
=============================================================================
