-------------------------- MODULE SizeBudgetProofs --------------------------
(***************************************************************************)
(* Proofs about SizeBudget, for any widths of keys and levels and any set  *)
(* of keys: every layer's layout is that of its keys; compare() orders     *)
(* them; and the nodes counted ahead suffice for the merge.                *)
(*                                                                         *)
(* BudgetCoversMerge says nothing of A, where the counting happens, and of *)
(* what the counter will be good for once A has become B.  BudgetInv says  *)
(* both: the merge of all three layers takes no more nodes than A, the     *)
(* merge of B and C, and the counter.  Freezing turns that into the budget *)
(* of the collection, as C is empty then.                                  *)
(***************************************************************************)
EXTENDS SizeBudget, StructMapProofs

\* The nodes of the trie of the keys in K.
Nodes(K) == Cardinality(Shared(K))

\* Every map is the trie of the keys it holds.
LayersAreCanon ==
  /\ Canon(a, Visited(a))
  /\ Canon(b, Visited(b))
  /\ Canon(c, Visited(c))
  /\ Canon(new_b, Visited(new_b))

VariablesTyped ==
  /\ addl_collision_nodes \in 0..MaxAddl
  /\ snap_addl_collision_nodes \in 0..MaxAddl
  /\ gcpc \in {"idle", "mark", "copy", "done"}
  /\ dropped \subseteq Key

\* What a collection has copied by now.
CopyProgress ==
  /\ gcpc = "idle" => Visited(c) = {}
  /\ gcpc \in {"idle", "mark"} => dropped = {} /\ Visited(new_b) = {}
  /\ Visited(new_b) \subseteq (Visited(b) \cup Visited(c)) \ dropped
  /\ gcpc = "done" => Visited(new_b) = (Visited(b) \cup Visited(c)) \ dropped

LayoutInv == LayersAreCanon /\ VariablesTyped /\ CopyProgress

\* What was counted while A was filled makes up for what merging A with the
\* consolidation of B and C takes; from then on the snapshot does so for B and C.
BudgetInv ==
  /\ Nodes(Visited(a) \cup Visited(b) \cup Visited(c))
       <= Nodes(Visited(a)) + Nodes(Visited(b) \cup Visited(c)) + addl_collision_nodes
  /\ gcpc # "idle" =>
       Nodes(Visited(b) \cup Visited(c))
         <= Nodes(Visited(b)) + Nodes(Visited(c)) + snap_addl_collision_nodes

\* No key is dropped while A holds others.
DropsApart == dropped # {} => Visited(a) = {}

(***************************************************************************)
(* The steps.                                                              *)
(***************************************************************************)

\* insert() adds its key, and costs what was foreseen.
LEMMA InsertVisits ==
  ASSUME NEW m, Canon(m, Visited(m)), NEW k \in Key
  PROVE  /\ Canon(Insert(m, k), Visited(Insert(m, k)))
         /\ Visited(Insert(m, k)) = Visited(m) \cup {k}
         /\ WouldCollideNodeCount(m, k) \in Nat
         /\ Nodes(Visited(m) \cup {k}) = Nodes(Visited(m)) + WouldCollideNodeCount(m, k)
         /\ Insert(m, k).node_count - m.node_count = WouldCollideNodeCount(m, k)
         /\ WouldCollideNodeCount(m, k) <= ModificationMaxNodes
<1> DEFINE n == Insert(m, k)
           K == Visited(m)
           w == WouldCollideNodeCount(m, k)
<1>1. /\ Canon(n, K \cup {k})
      /\ w \in 0..ModificationMaxNodes
      /\ Cardinality(Shared(K \cup {k})) = Cardinality(Shared(K)) + w
      /\ n.node_count = m.node_count + w
  BY InsertIsCanon
<1>2. K \in SUBSET Key /\ m.node_count = Cardinality(Shared(K))
  BY DEF Canon
<1>3. Cardinality(Shared(K)) \in Nat /\ ModificationMaxNodes \in Nat
  BY <1>2, SharedFinite, Depths
<1>4. Visited(n) = K \cup {k}
  <2> HIDE DEF n, K
  <2> QED
    BY <1>1, CanonFacts
<1>5. Canon(n, Visited(n))
  BY <1>1, <1>4
<1> HIDE DEF n, K, w
<1>6. w \in Nat /\ w <= ModificationMaxNodes /\ n.node_count - m.node_count = w
  BY <1>1, <1>2, <1>3
<1> QED
  BY <1>1, <1>4, <1>5, <1>6 DEF n, K, w, Nodes

\* There is no key in an empty map.
LEMMA EmptyVisits == Canon(EmptyMap, Visited(EmptyMap)) /\ Visited(EmptyMap) = {}
<1>1. Canon(EmptyMap, {})
  BY EmptyIsCanon
<1>2. Visited(EmptyMap) = {}
  BY <1>1, CanonFacts
<1> QED
  BY <1>1, <1>2

\* The keys of the layers, and that lookup() finds them.
LEMMA LayoutFacts ==
  ASSUME LayoutInv
  PROVE  /\ Visited(a) \in SUBSET Key
         /\ Visited(b) \in SUBSET Key
         /\ Visited(c) \in SUBSET Key
         /\ Visited(new_b) \in SUBSET Key
         /\ \A k \in Key : Contains(b, k) <=> k \in Visited(b)
<1>1. Canon(a, Visited(a)) /\ Canon(b, Visited(b)) /\ Canon(c, Visited(c))
      /\ Canon(new_b, Visited(new_b))
  BY DEF LayoutInv, LayersAreCanon
<1> QED
  BY <1>1, CanonFacts DEF Canon

\* The layout holds at the start.
LEMMA LayoutInit == Init => LayoutInv
<1> SUFFICES ASSUME Init PROVE LayoutInv
  OBVIOUS
<1>1. LayersAreCanon
  BY EmptyVisits DEF Init, LayersAreCanon
<1>2. VariablesTyped
  BY SizeBudgetAssumption DEF Init, VariablesTyped
<1>3. CopyProgress
  BY EmptyVisits DEF Init, CopyProgress
<1> QED
  BY <1>1, <1>2, <1>3 DEF LayoutInv

\* What is counted makes up for the dearest of the three layers.
LEMMA AddlNodeCountFacts ==
  ASSUME LayoutInv, NEW k \in Key
  PROVE  /\ AddlNodeCount(k) \in Nat
         /\ WouldCollideNodeCount(a, k) <= WouldCollideNodeCount(a, k) + AddlNodeCount(k)
         /\ WouldCollideNodeCount(b, k) <= WouldCollideNodeCount(a, k) + AddlNodeCount(k)
         /\ WouldCollideNodeCount(c, k) <= WouldCollideNodeCount(a, k) + AddlNodeCount(k)
<1> DEFINE x == WouldCollideNodeCount(a, k)
           y == WouldCollideNodeCount(b, k)
           z == WouldCollideNodeCount(c, k)
<1>1. x \in Nat /\ y \in Nat /\ z \in Nat
      /\ Insert(a, k).node_count - a.node_count = x
  BY InsertVisits DEF LayoutInv, LayersAreCanon
<1>2. AddlNodeCount(k) = Larger(0, Larger(y, z) - x)
  BY <1>1 DEF AddlNodeCount
<1> HIDE DEF x, y, z
<1>3. /\ AddlNodeCount(k) \in Nat
      /\ x <= x + AddlNodeCount(k) /\ y <= x + AddlNodeCount(k) /\ z <= x + AddlNodeCount(k)
  BY <1>1, <1>2 DEF Larger
<1> QED
  BY <1>3 DEF x, y, z

\* Every step keeps the layout.
LEMMA LayoutNext == LayoutInv /\ [Next]_vars => LayoutInv'
<1> SUFFICES ASSUME LayoutInv, [Next]_vars PROVE LayoutInv'
  OBVIOUS
<1>i. /\ Canon(a, Visited(a)) /\ Canon(b, Visited(b)) /\ Canon(c, Visited(c))
      /\ Canon(new_b, Visited(new_b))
      /\ VariablesTyped /\ CopyProgress
  BY DEF LayoutInv, LayersAreCanon
<1>k. /\ Visited(a) \in SUBSET Key /\ Visited(b) \in SUBSET Key
      /\ Visited(c) \in SUBSET Key /\ Visited(new_b) \in SUBSET Key
      /\ \A k \in Key : Contains(b, k) <=> k \in Visited(b)
  BY LayoutFacts
<1>1. CASE \E k \in Key : Add(k)
  <2> PICK k \in Key : Add(k)
    BY <1>1
  <2>1. Canon(a', Visited(a'))
    BY <1>i, InsertVisits DEF Add
  <2>2. LayersAreCanon'
    BY <1>i, <2>1 DEF Add, LayersAreCanon
  <2>3. VariablesTyped'
    <3>1. AddlNodeCount(k) \in Nat
      BY AddlNodeCountFacts
    <3> QED
      BY <1>i, <3>1, SizeBudgetAssumption DEF Add, VariablesTyped
  <2>4. CopyProgress'
    BY <1>i DEF Add, CopyProgress
  <2> QED
    BY <2>2, <2>3, <2>4 DEF LayoutInv
<1>2. CASE Freeze
  <2>1. LayersAreCanon'
    BY <1>i, <1>2, EmptyVisits DEF Freeze, LayersAreCanon
  <2>2. VariablesTyped'
    BY <1>i, <1>2, SizeBudgetAssumption DEF Freeze, VariablesTyped
  <2>3. CopyProgress'
    BY <1>i, <1>2 DEF Freeze, CopyProgress
  <2> QED
    BY <2>1, <2>2, <2>3 DEF LayoutInv
<1>3. CASE \E D \in SUBSET Key : Mark(D)
  <2> PICK D \in SUBSET Key : Mark(D)
    BY <1>3
  <2>1. LayersAreCanon'
    BY <1>i DEF Mark, LayersAreCanon
  <2>2. VariablesTyped'
    BY <1>i DEF Mark, VariablesTyped
  <2>3. CopyProgress'
    BY <1>i DEF Mark, CopyProgress
  <2> QED
    BY <2>1, <2>2, <2>3 DEF LayoutInv
<1>4. ASSUME NEW k \in Key,
             gcpc = "copy",
             k \in (Visited(b) \cup Visited(c)) \ dropped,
             new_b' = Insert(new_b, k),
             UNCHANGED <<a, b, c, addl_collision_nodes, snap_addl_collision_nodes, gcpc, dropped>>
      PROVE  LayoutInv'
  <2>1. Canon(new_b', Visited(new_b')) /\ Visited(new_b') = Visited(new_b) \cup {k}
    BY <1>i, <1>4, InsertVisits
  <2>2. LayersAreCanon'
    BY <1>i, <1>4, <2>1 DEF LayersAreCanon
  <2>3. VariablesTyped'
    BY <1>i, <1>4 DEF VariablesTyped
  <2>4. CopyProgress'
    BY <1>i, <1>4, <2>1 DEF CopyProgress
  <2> QED
    BY <2>2, <2>3, <2>4 DEF LayoutInv
<1>5. CASE \E k \in Key : CopyB(k)
  BY <1>4, <1>5 DEF CopyB, RestOfB
<1>6. CASE \E k \in Key : CopyC(k)
  BY <1>4, <1>6 DEF CopyC, RestOfC
<1>7. CASE Respond
  <2>1. LayersAreCanon'
    BY <1>i, <1>7 DEF Respond, LayersAreCanon
  <2>2. VariablesTyped'
    BY <1>i, <1>7 DEF Respond, VariablesTyped
  <2>3. Visited(new_b) = (Visited(b) \cup Visited(c)) \ dropped
    <3>1. Visited(new_b) \subseteq (Visited(b) \cup Visited(c)) \ dropped
      BY <1>i DEF CopyProgress
    <3>2. RestOfB = {} /\ RestOfC = {}
      BY <1>7 DEF Respond
    <3>3. Visited(b) \ dropped \subseteq Visited(new_b)
      BY <3>2 DEF RestOfB
    <3>4. Visited(c) \ dropped \subseteq Visited(new_b)
      BY <1>k, <3>2, <3>3 DEF RestOfC
    <3> QED
      BY <3>1, <3>3, <3>4
  <2>4. CopyProgress'
    BY <1>7, <2>3 DEF Respond, CopyProgress
  <2> QED
    BY <2>1, <2>2, <2>4 DEF LayoutInv
<1>8. CASE Integrate
  <2>1. LayersAreCanon'
    BY <1>i, <1>8, EmptyVisits DEF Integrate, LayersAreCanon
  <2>2. VariablesTyped'
    BY <1>i, <1>8 DEF Integrate, VariablesTyped
  <2>3. CopyProgress'
    BY <1>8, EmptyVisits DEF Integrate, CopyProgress
  <2> QED
    BY <2>1, <2>2, <2>3 DEF LayoutInv
<1>9. CASE UNCHANGED vars
  BY <1>9 DEF vars, LayoutInv, LayersAreCanon, VariablesTyped, CopyProgress
<1> QED
  BY <1>1, <1>2, <1>3, <1>5, <1>6, <1>7, <1>8, <1>9 DEF Next

\* So it always holds.
LEMMA LayoutAlways == Spec => []LayoutInv
BY LayoutInit, LayoutNext, PTL DEF Spec

\* Fewer keys take fewer nodes.
LEMMA NodesFacts ==
  ASSUME NEW K \in SUBSET Key
  PROVE  Nodes(K) \in Nat /\ \A L \in SUBSET K : Nodes(L) \in Nat /\ Nodes(L) <= Nodes(K)
<1>1. K \subseteq K
  OBVIOUS
<1> QED
  BY <1>1, SharedCount DEF Nodes

\* No keys take none.
LEMMA NoNodes == Nodes({}) = 0
BY EmptyIsCanon DEF Nodes, Canon, EmptyMap

\* The budget holds at the start.
LEMMA BudgetInit == Init => BudgetInv
<1> SUFFICES ASSUME Init PROVE BudgetInv
  OBVIOUS
<1>1. Visited(a) = {} /\ Visited(b) = {} /\ Visited(c) = {}
  BY EmptyVisits DEF Init
<1>2. addl_collision_nodes = 0 /\ gcpc = "idle"
  BY DEF Init
<1>3. {} \cup {} = {}
  OBVIOUS
<1> QED
  BY <1>1, <1>2, <1>3, NoNodes DEF BudgetInv

\* An insertion into A: what it adds to the counter makes up for the nodes the
\* key costs the merged layers beyond those it takes in A.
LEMMA BudgetAdd ==
  ASSUME LayoutInv, BudgetInv, NEW k \in Key, Add(k)
  PROVE  BudgetInv'
<1> DEFINE A == Visited(a)
           B == Visited(b)
           C == Visited(c)
           U == A \cup B \cup C
           x == WouldCollideNodeCount(a, k)
<1>1. A \in SUBSET Key /\ B \in SUBSET Key /\ C \in SUBSET Key
  BY LayoutFacts
<1>2. /\ Nodes(A \cup {k}) = Nodes(A) + x
      /\ Nodes(B \cup {k}) = Nodes(B) + WouldCollideNodeCount(b, k)
      /\ Nodes(C \cup {k}) = Nodes(C) + WouldCollideNodeCount(c, k)
      /\ Visited(a') = A \cup {k}
      /\ x \in Nat /\ WouldCollideNodeCount(b, k) \in Nat /\ WouldCollideNodeCount(c, k) \in Nat
  BY InsertVisits DEF LayoutInv, LayersAreCanon, Add
<1>3. /\ AddlNodeCount(k) \in Nat
      /\ x <= x + AddlNodeCount(k)
      /\ WouldCollideNodeCount(b, k) <= x + AddlNodeCount(k)
      /\ WouldCollideNodeCount(c, k) <= x + AddlNodeCount(k)
  BY AddlNodeCountFacts
<1>4. /\ addl_collision_nodes' = addl_collision_nodes + AddlNodeCount(k)
      /\ b' = b /\ c' = c /\ gcpc' = gcpc
      /\ snap_addl_collision_nodes' = snap_addl_collision_nodes
      /\ addl_collision_nodes \in Nat
  BY DEF Add, LayoutInv, VariablesTyped
<1>5. /\ Nodes(U) <= Nodes(A) + Nodes(B \cup C) + addl_collision_nodes
      /\ gcpc # "idle" => Nodes(B \cup C) <= Nodes(B) + Nodes(C) + snap_addl_collision_nodes
  BY DEF BudgetInv
<1> HIDE DEF A, B, C, x
<1>6. /\ Nodes(U) \in Nat /\ Nodes(U \cup {k}) \in Nat /\ Nodes(B \cup C) \in Nat
      /\ Nodes(A) \in Nat /\ Nodes(B) \in Nat /\ Nodes(C) \in Nat
  <2>1. U \in SUBSET Key /\ U \cup {k} \in SUBSET Key /\ B \cup C \in SUBSET Key
    BY <1>1
  <2> HIDE DEF U
  <2> QED
    BY <1>1, <2>1, NodesFacts
<1>7. PICK X \in {A, B, C} : Nodes(U \cup {k}) - Nodes(U) <= Nodes(X \cup {k}) - Nodes(X)
  BY <1>1, MergedCost DEF Nodes
<1>8. Nodes(U \cup {k}) - Nodes(U) <= x + AddlNodeCount(k)
  <2>1. CASE X = A
    BY <1>2, <1>3, <1>6, <1>7, <2>1
  <2>2. CASE X = B
    BY <1>2, <1>3, <1>6, <1>7, <2>2
  <2>3. CASE X = C
    BY <1>2, <1>3, <1>6, <1>7, <2>3
  <2> QED
    BY <2>1, <2>2, <2>3
<1>9. Nodes(U \cup {k})
        <= Nodes(A \cup {k}) + Nodes(B \cup C) + (addl_collision_nodes + AddlNodeCount(k))
  BY <1>2, <1>3, <1>4, <1>5, <1>6, <1>8
<1>10. (A \cup {k}) \cup B \cup C = U \cup {k}
  OBVIOUS
<1>11. Visited(b') = B /\ Visited(c') = C
  BY <1>4 DEF B, C
<1> QED
  BY <1>2, <1>4, <1>5, <1>9, <1>10, <1>11 DEF BudgetInv

\* Every step keeps the budget, if what a collection drops leaves A alone.
LEMMA BudgetNext ==
  ASSUME LayoutInv, BudgetInv, DropsApart, [Next]_vars
  PROVE  BudgetInv'
<1>1. CASE \E k \in Key : Add(k)
  BY <1>1, BudgetAdd
<1>2. CASE Freeze
  <2> DEFINE A == Visited(a)
             B == Visited(b)
  <2>1. /\ Visited(a') = {} /\ Visited(b') = A /\ Visited(c') = B
        /\ snap_addl_collision_nodes' = addl_collision_nodes
        /\ addl_collision_nodes' = 0
    BY <1>2, EmptyVisits DEF Freeze
  <2>2. Visited(c) = {}
    BY <1>2 DEF Freeze, LayoutInv, CopyProgress
  <2>3. Nodes(A \cup B \cup {}) <= Nodes(A) + Nodes(B \cup {}) + addl_collision_nodes
    BY <2>2 DEF BudgetInv
  <2>4. A \in SUBSET Key /\ B \in SUBSET Key
    BY LayoutFacts
  <2> HIDE DEF A, B
  <2>5. A \cup B \cup {} = A \cup B /\ B \cup {} = B /\ {} \cup A \cup B = A \cup B
    OBVIOUS
  <2>6. Nodes(A \cup B) <= Nodes(A) + Nodes(B) + addl_collision_nodes
    BY <2>3, <2>5
  <2>7. Nodes(A \cup B) \in Nat
    BY <2>4, NodesFacts
  <2>8. Nodes(A \cup B) <= Nodes({}) + Nodes(A \cup B) + 0
    BY <2>7, NoNodes
  <2> QED
    BY <2>1, <2>5, <2>6, <2>8 DEF BudgetInv
<1>3. CASE \E D \in SUBSET Key : Mark(D)
  <2> PICK D \in SUBSET Key : Mark(D)
    BY <1>3
  <2> QED
    BY DEF Mark, BudgetInv
<1>4. CASE \E k \in Key : CopyB(k)
  BY <1>4 DEF CopyB, BudgetInv
<1>5. CASE \E k \in Key : CopyC(k)
  BY <1>5 DEF CopyC, BudgetInv
<1>6. CASE Respond
  BY <1>6 DEF Respond, BudgetInv
<1>7. CASE Integrate
  <2> DEFINE A == Visited(a)
             K == Visited(new_b)
             M == Visited(b) \cup Visited(c)
  <2>1. /\ Visited(a') = A /\ Visited(b') = K /\ Visited(c') = {}
        /\ addl_collision_nodes' = addl_collision_nodes
        /\ gcpc' = "idle"
    BY <1>7, EmptyVisits DEF Integrate
  <2>2. K = M \ dropped
    BY <1>7 DEF Integrate, LayoutInv, CopyProgress
  <2>3. Nodes(A \cup Visited(b) \cup Visited(c)) <= Nodes(A) + Nodes(M) + addl_collision_nodes
    BY DEF BudgetInv
  <2>4. A \cup Visited(b) \cup Visited(c) = A \cup M
    OBVIOUS
  <2>5. A \in SUBSET Key /\ K \in SUBSET Key /\ addl_collision_nodes \in Nat
    BY LayoutFacts DEF LayoutInv, VariablesTyped
  <2>6. dropped # {} => A = {}
    BY DEF DropsApart
  <2> HIDE DEF A, K, M
  <2>7. Nodes(A \cup K) <= Nodes(A) + Nodes(K) + addl_collision_nodes
    <3>1. CASE dropped = {}
      <4>1. K = M
        BY <2>2, <3>1
      <4> QED
        BY <2>3, <2>4, <4>1
    <3>2. CASE dropped # {}
      <4>1. A = {} /\ A \cup K = K
        BY <2>6, <3>2
      <4>2. Nodes(K) \in Nat
        BY <2>5, NodesFacts
      <4> QED
        BY <2>5, <4>1, <4>2, NoNodes
    <3> QED
      BY <3>1, <3>2
  <2>8. A \cup K \cup {} = A \cup K /\ K \cup {} = K
    OBVIOUS
  <2> QED
    BY <2>1, <2>7, <2>8 DEF BudgetInv
<1>8. CASE UNCHANGED vars
  BY <1>8 DEF vars, BudgetInv
<1> QED
  BY <1>1, <1>2, <1>3, <1>4, <1>5, <1>6, <1>7, <1>8 DEF Next

\* Within the budget the consolidated map has its room.
LEMMA BudgetSuffices ==
  ASSUME LayoutInv, BudgetInv
  PROVE  BudgetCoversMerge
<1> DEFINE K == Visited(new_b)
           B == Visited(b)
           C == Visited(c)
<1>1. /\ B \in SUBSET Key /\ C \in SUBSET Key /\ K \in SUBSET Key
      /\ K \subseteq B \cup C
      /\ gcpc = "idle" => K = {}
      /\ snap_addl_collision_nodes \in Nat
  BY LayoutFacts DEF LayoutInv, CopyProgress, VariablesTyped
<1>2. /\ new_b.node_count = Nodes(K)
      /\ b.node_count = Nodes(B)
      /\ c.node_count = Nodes(C)
  BY DEF LayoutInv, LayersAreCanon, Canon, Nodes
<1>3. gcpc # "idle" => Nodes(B \cup C) <= Nodes(B) + Nodes(C) + snap_addl_collision_nodes
  BY DEF BudgetInv
<1> HIDE DEF K, B, C
<1>4. /\ Nodes(B) \in Nat /\ Nodes(C) \in Nat /\ Nodes(K) \in Nat /\ Nodes(B \cup C) \in Nat
      /\ Nodes(K) <= Nodes(B \cup C)
  <2>1. B \cup C \in SUBSET Key
    BY <1>1
  <2> QED
    BY <1>1, <2>1, NodesFacts
<1>5. Nodes(K) <= Nodes(B) + Nodes(C) + snap_addl_collision_nodes
  <2>1. CASE gcpc = "idle"
    <3>1. Nodes(K) = 0
      BY <1>1, <2>1, NoNodes
    <3>2. Nodes(B) \in Nat /\ Nodes(C) \in Nat /\ snap_addl_collision_nodes \in Nat
      BY <1>1, <1>4
    <3> QED
      BY <3>1, <3>2
  <2>2. CASE gcpc # "idle"
    BY <1>1, <1>3, <1>4, <2>2
  <2> QED
    BY <2>1, <2>2
<1> QED
  BY <1>2, <1>5 DEF BudgetCoversMerge, ConsolidationNodes

\* With DropsWhileAdding = FALSE no step drops a key while A holds others.
LEMMA DropsApartNext ==
  ASSUME ~ DropsWhileAdding
  PROVE  LayoutInv /\ DropsApart /\ [Next]_vars => DropsApart'
<1> SUFFICES ASSUME LayoutInv, DropsApart, [Next]_vars PROVE DropsApart'
  OBVIOUS
<1>1. CASE \E k \in Key : Add(k)
  BY <1>1 DEF Add, DropsApart
<1>2. CASE Freeze
  BY <1>2 DEF Freeze, DropsApart, LayoutInv, CopyProgress
<1>3. CASE \E D \in SUBSET Key : Mark(D)
  BY <1>3 DEF Mark, DropsApart
<1>4. CASE \E k \in Key : CopyB(k)
  BY <1>4 DEF CopyB, DropsApart
<1>5. CASE \E k \in Key : CopyC(k)
  BY <1>5 DEF CopyC, DropsApart
<1>6. CASE Respond
  BY <1>6 DEF Respond, DropsApart
<1>7. CASE Integrate
  BY <1>7 DEF Integrate, DropsApart
<1>8. CASE UNCHANGED vars
  BY <1>8 DEF vars, DropsApart
<1> QED
  BY <1>1, <1>2, <1>3, <1>4, <1>5, <1>6, <1>7, <1>8 DEF Next

(***************************************************************************)
(* The theorems.                                                           *)
(***************************************************************************)

\* A canonical map has its type.
LEMMA CanonTyped ==
  ASSUME NEW m, NEW K, Canon(m, K)
  PROVE  /\ m.node \subseteq Entries
         /\ DOMAIN m.item \subseteq Entries \ m.node
         /\ \A e \in DOMAIN m.item : m.item[e] \in Key
         /\ m.node_count \in Nat
<1>1. /\ K \in SUBSET Key
      /\ m.node = Shared(K)
      /\ DOMAIN m.item = {Leaf(m, k) : k \in K}
      /\ \A k \in K : m.item[Leaf(m, k)] = k
      /\ m.node_count = Cardinality(Shared(K))
  BY DEF Canon
<1>2. m.node \subseteq Entries /\ m.node_count \in Nat
  BY <1>1, SharedFinite DEF Entries
<1>3. \A k \in K : Leaf(m, k) \in Entries \ m.node
  <2>1. ASSUME NEW k \in K PROVE Leaf(m, k) \in Entries \ m.node
    <3>1. /\ LeafDepth(m, k) \in Depth
          /\ Leaf(m, k) = Entry(k, LeafDepth(m, k))
          /\ Leaf(m, k) \notin m.node
      BY <1>1, LeafFacts
    <3> QED
      BY <1>1, <3>1, EntryTyped DEF Entries
  <2> QED
    BY <2>1
<1> QED
  BY <1>1, <1>2, <1>3

\* The variables have their types.
THEOREM TypeCorrectness == Spec => []TypeOK
<1>1. LayoutInv => TypeOK
  <2> SUFFICES ASSUME LayoutInv PROVE TypeOK
    OBVIOUS
  <2>1. \A m \in Maps : Canon(m, Visited(m))
    BY DEF LayoutInv, LayersAreCanon, Maps
  <2>2. \A m \in Maps :
          /\ m.node \subseteq Entries
          /\ DOMAIN m.item \subseteq Entries \ m.node
          /\ \A e \in DOMAIN m.item : m.item[e] \in Key
          /\ m.node_count \in Nat
    BY <2>1, CanonTyped
  <2> QED
    BY <2>2 DEF LayoutInv, VariablesTyped, TypeOK
<1> QED
  BY <1>1, LayoutAlways, PTL

\* Whatever keys were inserted, moved down, dropped and merged in what order,
\* every layer's layout is that of its keys.
THEOREM LayoutStaysCanonical == Spec => []LayoutIsCanonical
<1>1. LayoutInv => LayoutIsCanonical
  <2> SUFFICES ASSUME LayoutInv, NEW m \in Maps
               PROVE  /\ m.node = Shared(Visited(m))
                      /\ DOMAIN m.item = {Leaf(m, k) : k \in Visited(m)}
                      /\ \A k \in Key : Contains(m, k) <=> k \in Visited(m)
                      /\ m.node_count = Cardinality(m.node)
    BY DEF LayoutIsCanonical
  <2>1. Canon(m, Visited(m))
    BY DEF LayoutInv, LayersAreCanon, Maps
  <2> QED
    BY <2>1, CanonFacts DEF Canon
<1> QED
  BY <1>1, LayoutAlways, PTL

\* An insertion never takes more nodes than MODIFICATION_MAX_NODES.
THEOREM ModificationAlwaysFits == Spec => []ModificationFits
<1>1. LayoutInv => ModificationFits
  <2> SUFFICES ASSUME LayoutInv, NEW m \in Maps, NEW k \in Key
               PROVE  Insert(m, k).node_count - m.node_count <= ModificationMaxNodes
    BY DEF ModificationFits
  <2>1. Canon(m, Visited(m))
    BY DEF LayoutInv, LayersAreCanon, Maps
  <2> QED
    BY <2>1, InsertVisits
<1> QED
  BY <1>1, LayoutAlways, PTL

\* The counted nodes suffice for the merge as long as no collection drops a key
\* while A holds others.
THEOREM BudgetAlwaysCovers == Spec /\ []DropsApart => []BudgetCoversMerge
<1>1. LayoutInv /\ BudgetInv /\ DropsApart /\ [Next]_vars => BudgetInv'
  BY BudgetNext
<1>2. LayoutInv /\ BudgetInv => BudgetCoversMerge
  BY BudgetSuffices
<1> QED
  BY <1>1, <1>2, LayoutAlways, BudgetInit, PTL DEF Spec

\* So they do always, when collections and additions do not meet like that.
THEOREM BudgetCoversMergeAlways ==
  ASSUME ~ DropsWhileAdding
  PROVE  Spec => []BudgetCoversMerge
<1>1. Init => DropsApart
  BY DEF Init, DropsApart
<1>2. LayoutInv /\ DropsApart /\ [Next]_vars => DropsApart'
  BY DropsApartNext
<1>3. Spec => []DropsApart
  BY <1>1, <1>2, LayoutAlways, PTL DEF Spec
<1> QED
  BY <1>3, BudgetAlwaysCovers, PTL

\* compare() orders the layers, whatever keys they hold.
THEOREM CompareOrders == Spec => []CompareIsAnOrder
<1>1. LayoutInv => CompareIsAnOrder
  <2> SUFFICES ASSUME LayoutInv, NEW l \in Maps, NEW r \in Maps
               PROVE  /\ Compare(l, r) = 0 <=> Visited(l) = Visited(r)
                      /\ Compare(l, r) = -Compare(r, l)
                      /\ Compare(l, r) < 0 =>
                           \A n \in Maps : Compare(r, n) < 0 => Compare(l, n) < 0
    BY DEF CompareIsAnOrder
  <2>1. \A m \in Maps : Canon(m, Visited(m))
    BY DEF LayoutInv, LayersAreCanon, Maps
  <2>2. \A m \in Maps : IsTrie(m)
    BY <2>1, CanonIsTrie
  <2>3. Compare(l, r) = 0 <=> Visited(l) = Visited(r)
    BY <2>1, CompareZero
  <2>4. Compare(l, r) = -Compare(r, l)
    BY <2>2, CompareAntisymmetric
  <2>5. ASSUME Compare(l, r) < 0, NEW n \in Maps, Compare(r, n) < 0 PROVE Compare(l, n) < 0
    BY <2>2, <2>5, CompareTransitive
  <2> QED
    BY <2>3, <2>4, <2>5
<1> QED
  BY <1>1, LayoutAlways, PTL
=============================================================================
