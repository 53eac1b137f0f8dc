------------------------------ MODULE SizeBudget ------------------------------
(***************************************************************************)
(* Three layers of structmaps and the accounting that is to make the       *)
(* region for the consolidated one large enough: the GC thread cannot get  *)
(* more room, so the interpreter counts, at every insertion into A, the    *)
(* nodes that merging will take beyond those it sees in the layers.        *)
(* objtable_add_at(), objtable_freeze(), objtable_consolidation_size() of  *)
(* src/c/cb_integration.cpp; instanceFieldSet() and classMethodSet() of    *)
(* src/c/vm.cpp do the same for the fields and methods of an object.       *)
(***************************************************************************)
EXTENDS StructMap

CONSTANTS
  MaxAddl,          \* bound on the counter, for TLC
  DropsWhileAdding  \* does a collection drop keys while others are added to A?

ASSUME SizeBudgetAssumption ==
  /\ MaxAddl \in Nat
  /\ DropsWhileAdding \in BOOLEAN

VARIABLES
  a, b, c,
  addl_collision_nodes,
  snap_addl_collision_nodes,
  gcpc,
  dropped,          \* the keys this collection leaves out
  new_b

vars == <<a, b, c, addl_collision_nodes, snap_addl_collision_nodes, gcpc, dropped, new_b>>

Init ==
  /\ a = EmptyMap
  /\ b = EmptyMap
  /\ c = EmptyMap
  /\ addl_collision_nodes = 0
  /\ snap_addl_collision_nodes = 0
  /\ gcpc = "idle"
  /\ dropped = {}
  /\ new_b = EmptyMap

Larger(m, n) == IF m > n THEN m ELSE n

\* Bug form of AddlNodeCount: what is missing in C is not looked at.
AddlNodeCountB(k) ==
  Larger(0, WouldCollideNodeCount(b, k) - (Insert(a, k).node_count - a.node_count))

\* What is added to addl_collision_nodes when k goes into A: the nodes k takes
\* in B or in C that it has not just taken in A.
AddlNodeCount(k) ==
  Larger(0, Larger(WouldCollideNodeCount(b, k), WouldCollideNodeCount(c, k))
              - (Insert(a, k).node_count - a.node_count))

\* objtable_add_at(), instanceFieldSet(), classMethodSet(): a new key, or one
\* for which A has no entry yet, or one over again.
Add(k) ==
  /\ dropped # {} => DropsWhileAdding
  /\ k \notin dropped
  /\ addl_collision_nodes + AddlNodeCount(k) <= MaxAddl
  /\ a' = Insert(a, k)
  /\ addl_collision_nodes' = addl_collision_nodes + AddlNodeCount(k)
  /\ UNCHANGED <<b, c, snap_addl_collision_nodes, gcpc, dropped, new_b>>

\* Bug form of Freeze: the snapshot is taken when the counter has been reset.
FreezeResetFirst ==
  /\ gcpc = "idle"
  /\ a' = EmptyMap
  /\ b' = a
  /\ c' = b
  /\ addl_collision_nodes' = 0
  /\ snap_addl_collision_nodes' = addl_collision_nodes'
  /\ gcpc' = "mark"
  /\ UNCHANGED <<dropped, new_b>>

\* objtable_freeze().
Freeze ==
  /\ gcpc = "idle"
  /\ a' = EmptyMap
  /\ b' = a
  /\ c' = b
  /\ snap_addl_collision_nodes' = addl_collision_nodes
  /\ addl_collision_nodes' = 0
  /\ gcpc' = "mark"
  /\ UNCHANGED <<dropped, new_b>>

\* objtable_consolidation_size(): the nodes there is room for, but for the
\* reserve of twice MODIFICATION_MAX_NODES.
ConsolidationNodes == b.node_count + c.node_count + snap_addl_collision_nodes

\* gc_perform(), before it consolidates: the keys in D are not wanted any more.
Mark(D) ==
  /\ gcpc = "mark"
  /\ D \subseteq Visited(b) \cup Visited(c)
  /\ D # {} => DropsWhileAdding \/ Visited(a) = {}
  /\ dropped' = D
  /\ gcpc' = "copy"
  /\ UNCHANGED <<a, b, c, addl_collision_nodes, snap_addl_collision_nodes, new_b>>

\* What the passes over B and C still have to copy.
RestOfB == Visited(b) \ (dropped \cup Visited(new_b))

RestOfC == {k \in Visited(c) \ (dropped \cup Visited(new_b)) : ~Contains(b, k)}

\* copy_objtable_b(), one key.
CopyB(k) ==
  /\ gcpc = "copy"
  /\ k \in RestOfB
  /\ new_b' = Insert(new_b, k)
  /\ UNCHANGED <<a, b, c, addl_collision_nodes, snap_addl_collision_nodes, gcpc, dropped>>

\* copy_objtable_c_not_in_b(), merge_c_instance_fields(), merge_c_class_methods(),
\* one key.
CopyC(k) ==
  /\ gcpc = "copy"
  /\ RestOfB = {}
  /\ k \in RestOfC
  /\ new_b' = Insert(new_b, k)
  /\ UNCHANGED <<a, b, c, addl_collision_nodes, snap_addl_collision_nodes, gcpc, dropped>>

Respond ==
  /\ gcpc = "copy"
  /\ RestOfB \cup RestOfC = {}
  /\ gcpc' = "done"
  /\ UNCHANGED <<a, b, c, addl_collision_nodes, snap_addl_collision_nodes, dropped, new_b>>

\* integrateGCResponse().
Integrate ==
  /\ gcpc = "done"
  /\ b' = new_b
  /\ c' = EmptyMap
  /\ gcpc' = "idle"
  /\ dropped' = {}
  /\ new_b' = EmptyMap
  /\ UNCHANGED <<a, addl_collision_nodes, snap_addl_collision_nodes>>

Next ==
  \/ \E k \in Key : Add(k)
  \/ Freeze
  \/ \E D \in SUBSET Key : Mark(D)
  \/ \E k \in Key : CopyB(k)
  \/ \E k \in Key : CopyC(k)
  \/ Respond
  \/ Integrate

Spec == Init /\ [][Next]_vars
-----------------------------------------------------------------------------
(***************************************************************************)
(* Properties.                                                             *)
(***************************************************************************)
Maps == {a, b, c, new_b}

Entries == Depth \X SUBSET (0..(KeyBits - 1))

\* Every variable has its type.
TypeOK ==
  /\ \A m \in Maps :
       /\ m.node \subseteq Entries
       /\ DOMAIN m.item \subseteq Entries \ m.node
       /\ \A e \in DOMAIN m.item : m.item[e] \in Key
       /\ m.node_count \in Nat
  /\ {addl_collision_nodes, snap_addl_collision_nodes} \subseteq 0..MaxAddl
  /\ gcpc \in {"idle", "mark", "copy", "done"}
  /\ dropped \subseteq Key

\* The layout of a trie is a function of the keys in it, whatever the order in
\* which they were inserted or moved down: "all of the A, B, and C layers must
\* use the same slot layouts" (would_collide_node_count_slowpath()).  There is
\* a node exactly where two keys still share their route, lookup() finds every
\* item that traverse() visits, and node_count_ is the number of nodes.
LayoutIsCanonical ==
  \A m \in Maps :
    LET K == Visited(m)
    IN /\ m.node = Shared(K)
       /\ DOMAIN m.item = {Leaf(m, k) : k \in K}
       /\ \A k \in Key : Contains(m, k) <=> k \in K
       /\ m.node_count = Cardinality(m.node)

\* "check for the additional size needing to be allocated for future
\* consolidation merge" (would_collide_node_count_slowpath()): the consolidated
\* map never takes more nodes than those of both layers and the collisions
\* counted when their keys were added, in whatever layers these met since.
BudgetCoversMerge == new_b.node_count <= ConsolidationNodes

\* "On modification, this will be preallocated to ensure no CB resizes happen": an
\* insertion takes at most the MODIFICATION_MAX_NODES it has set room aside for.
ModificationFits ==
  \A m \in Maps, k \in Key :
    Insert(m, k).node_count - m.node_count <= ModificationMaxNodes

\* compare() orders structmaps, as the tree of deduplicated objects needs: equal
\* means the same keys, and it is antisymmetric and transitive.
CompareIsAnOrder ==
  \A l, r \in Maps :
    LET cmp == Compare(l, r)
    IN /\ cmp = 0 <=> Visited(l) = Visited(r)
       /\ cmp = -Compare(r, l)
       /\ cmp < 0 => \A n \in Maps : Compare(r, n) < 0 => Compare(l, n) < 0
=============================================================================
