------------------------------ MODULE StructMap ------------------------------
(***************************************************************************)
(* The array mapped trie klox keeps its object table, fields and methods   *)
(* in (src/c/structmap_amt.h).  A key is routed by its low bits, the first *)
(* FirstLevelBits of them into the root's entries and LevelBits more at    *)
(* every node below.  So the entry on the route of key k at depth d is     *)
(* named by d and the bits of k used so far, and a trie is                 *)
(*   node   the entries that hold a node,                                  *)
(*   item   the entries that hold an item, and the item's key,             *)
(*   node_count                                                            *)
(* and all other entries are empty.  The values, which only travel with    *)
(* their keys, are left out.  A number is the set of its bits that are 1,  *)
(* the lowest being 0.                                                     *)
(***************************************************************************)
EXTENDS Integers, FiniteSets

CONSTANTS
  FirstLevelBits,
  LevelBits,
  KeyBits,        \* the width of a key, 64 in the code
  Key             \* the keys in use

ASSUME StructMapAssumption ==
  /\ {FirstLevelBits, KeyBits} \subseteq Nat
  /\ LevelBits \in Nat \ {0}
  /\ FirstLevelBits < KeyBits
  /\ Key \subseteq SUBSET (0..(KeyBits - 1)) \ {{}}

\* Bug form of ModificationMaxNodes: a last level of fewer bits is forgotten.
FullLevels == (KeyBits - FirstLevelBits) \div LevelBits

\* MODIFICATION_MAX_NODES: the room for nodes every insertion sets aside.
ModificationMaxNodes ==
  LET bits == KeyBits - FirstLevelBits
  IN bits \div LevelBits + (IF bits % LevelBits = 0 THEN 0 ELSE 1)

\* Every key has used up its bits at this depth.
MaxDepth == (KeyBits - FirstLevelBits) \div LevelBits + 1

Depth == 0..MaxDepth

\* The bits a route has used at depth d.
Used(d) == 0..(FirstLevelBits + d * LevelBits - 1)

Entry(k, d) == <<d, k \cap Used(d)>>

\* x < y: the highest bit in which they differ is y's.
Less(x, y) == \E i \in y \ x : \A j \in x \cup y : j > i => (j \in x <=> j \in y)

\* init().
EmptyMap == [node |-> {}, item |-> [e \in {} |-> {}], node_count |-> 0]

\* How deep the nodes on k's route go.
LeafDepth(m, k) ==
  CHOOSE d \in Depth :
    /\ Entry(k, d) \notin m.node
    /\ \A e \in 0..(d - 1) : Entry(k, e) \in m.node

Leaf(m, k) == Entry(k, LeafDepth(m, k))

\* lookup(): is k there?
Contains(m, k) == Leaf(m, k) \in DOMAIN m.item /\ m.item[Leaf(m, k)] = k

\* Bug form of SplitDepth: one level is taken to be enough to tell keys apart.
NextDepth(d, k, q) == d + 1

\* The first depth below d at which the routes of k and q part.
SplitDepth(d, k, q) ==
  CHOOSE s \in (d + 1)..MaxDepth :
    /\ Entry(k, s) # Entry(q, s)
    /\ \A e \in (d + 1)..(s - 1) : Entry(k, e) = Entry(q, e)

\* The item another key has where k would go.
Collides(m, k) == Leaf(m, k) \in DOMAIN m.item /\ ~Contains(m, k)

\* Bug form of WouldCollideNodeCount: a collision is taken to cost one node.
WouldCollide(m, k) == IF Collides(m, k) THEN 1 ELSE 0

\* would_collide_node_count(): the nodes it takes to tell k from that item.
WouldCollideNodeCount(m, k) ==
  IF Collides(m, k)
    THEN LET d == LeafDepth(m, k)
         IN SplitDepth(d, k, m.item[Leaf(m, k)]) - d
    ELSE 0

\* An item for key k in entry e; the others stay.
WithItem(item, e, k) ==
  [x \in DOMAIN item \cup {e} |-> IF x = e THEN k ELSE item[x]]

WithoutItem(item, e) == [x \in DOMAIN item \ {e} |-> item[x]]

\* k goes into an empty entry, or over the same key.
Put(m, k) ==
  [node |-> m.node, item |-> WithItem(m.item, Leaf(m, k), k), node_count |-> m.node_count]

\* Bug form of Insert: the entry that gets a node keeps its item.
InsertOverItem(m, k) ==
  IF Collides(m, k)
    THEN LET d == LeafDepth(m, k)
             q == m.item[Leaf(m, k)]
             s == SplitDepth(d, k, q)
         IN [node |-> m.node \cup {Entry(k, e) : e \in d..(s - 1)},
             item |-> WithItem(WithItem(m.item, Entry(q, s), q), Entry(k, s), k),
             node_count |-> m.node_count + s - d]
    ELSE Put(m, k)

\* insert(): into an empty entry, over the same key, or after moving the item of
\* another key down through new nodes until the two routes part.
Insert(m, k) ==
  IF Collides(m, k)
    THEN LET d == LeafDepth(m, k)
             q == m.item[Leaf(m, k)]
             s == SplitDepth(d, k, q)
             moved == WithItem(WithoutItem(m.item, Leaf(m, k)), Entry(q, s), q)
         IN [node |-> m.node \cup {Entry(k, e) : e \in d..(s - 1)},
             item |-> WithItem(moved, Entry(k, s), k),
             node_count |-> m.node_count + s - d]
    ELSE Put(m, k)

\* traverse(): the keys it visits.
Visited(m) ==
  {m.item[e] : e \in {x \in DOMAIN m.item :
     \A d \in 0..(x[1] - 1) : Entry(m.item[x], d) \in m.node}}

\* The entries on the routes of two keys of K.
Shared(K) == {e \in {Entry(k, d) : k \in K, d \in Depth} :
                \E k, q \in K : k # q /\ Entry(k, e[1]) = e /\ Entry(q, e[1]) = e}

(***************************************************************************)
(* compare(): entry by entry in the order of the slots, nodes in place.    *)
(***************************************************************************)

\* NODE before EMPTY before ITEM.
EntryType(m, e) == IF e \in m.node THEN 0 ELSE IF e \in DOMAIN m.item THEN 2 ELSE 1

\* Bug form of Differ: the keys of two items are not compared.
DifferInType(l, r, e) == EntryType(l, e) # EntryType(r, e)

Differ(l, r, e) ==
  \/ EntryType(l, e) # EntryType(r, e)
  \/ EntryType(l, e) = 2 /\ l.item[e] # r.item[e]

\* The recursion comes to the entries whose node is there on both sides.
Reached(l, r, e) ==
  \A d \in 0..(e[1] - 1) : Entry(e[2], d) \in l.node /\ Entry(e[2], d) \in r.node

\* An entry that is empty on both sides says nothing.
Differences(l, r) ==
  {e \in l.node \cup r.node \cup DOMAIN l.item \cup DOMAIN r.item :
     Differ(l, r, e) /\ Reached(l, r, e)}

\* The slot at depth d on the route to e, and the order in which entries are met:
\* by the slots on the routes to them.
SlotAt(e, d) == IF d = 0 THEN e[2] \cap Used(0) ELSE e[2] \cap (Used(d) \ Used(d - 1))

Before(e, f) ==
  \E d \in 0..e[1] :
    /\ d <= f[1]
    /\ Less(SlotAt(e, d), SlotAt(f, d))
    /\ \A c \in 0..(d - 1) : SlotAt(e, c) = SlotAt(f, c)

\* What is found in entry e of l and r, in the order of the types and, of two
\* items, of their keys.
LessAt(l, r, e) ==
  \/ EntryType(l, e) < EntryType(r, e)
  \/ EntryType(l, e) = 2 /\ EntryType(r, e) = 2 /\ Less(l.item[e], r.item[e])

Compare(l, r) ==
  LET D == Differences(l, r)
  IN IF D = {} THEN 0
     ELSE LET e == CHOOSE e \in D : \A f \in D \ {e} : Before(e, f)
          IN IF LessAt(l, r, e) THEN -1 ELSE 1
=============================================================================
