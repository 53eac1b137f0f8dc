--------------------------- MODULE StructMapProofs ---------------------------
(***************************************************************************)
(* Facts about array mapped tries, for any widths of the key and of its    *)
(* levels and any set of keys.                                             *)
(*                                                                         *)
(* First the layout.  A trie is canonical (Canon) when it has a node       *)
(* exactly in the entries that two of its keys share (Shared).  Then the   *)
(* leaf of a key is where its route leaves the shared entries, and to      *)
(* insert one more key is to add what it newly shares: nothing, or the     *)
(* entries from the leaf of the one key it meets to where the two part.    *)
(* So insert() keeps a trie canonical, and what it costs depends on the    *)
(* keys alone; a key never costs several layers merged more than the one   *)
(* layer that holds the key it meets (MergedCost).                         *)
(*                                                                         *)
(* Then compare().  Entries are ordered by the slots on their routes, and  *)
(* the entries in which two tries differ are on different routes, so there *)
(* is a first one.  CompareTransitive shows where the first difference of  *)
(* l and n is, given those of l and r and of r and n.                      *)
(*                                                                         *)
(* Nothing is proved by induction over a set: least elements of sets of    *)
(* numbers (LeastNumber) take its place.                                   *)
(***************************************************************************)
EXTENDS StructMap, FiniteSetTheorems, TLAPS

(***************************************************************************)
(* Depths, and how much of a key its route has used.                       *)
(***************************************************************************)

\* A set of numbers that is not empty has a least one.
LEMMA LeastNumber ==
  ASSUME NEW S \in SUBSET Nat, S # {}
  PROVE  \E n \in S : \A m \in S : n <= m
<1> DEFINE R == OpToRel(<, Nat)
<1>1. IsWellFoundedOn(R, Nat)
  BY NatLessThanWellFounded
<1>2. IsWellFoundedOn(R, S)
  BY <1>1, IsWellFoundedOnSubset
<1> HIDE DEF R
<1>3. PICK n \in S : \A m \in S : ~ (<<m, n>> \in R)
  BY <1>2, WFMin
<1>4. ASSUME NEW m \in S PROVE n <= m
  <2>1. <<m, n>> \notin R
    BY <1>3
  <2>2. ~ (m < n)
    BY <2>1 DEF R, OpToRel
  <2> QED
    BY <2>2
<1> QED
  BY <1>4

\* The level at which a key has no bits left, counted from FirstLevelBits.
LEMMA LevelsCoverBits ==
  ASSUME NEW n \in Nat, NEW w \in Nat, w > 0
  PROVE  LET c == n \div w + (IF n % w = 0 THEN 0 ELSE 1)
         IN c \in Nat /\ n <= c * w /\ c <= n \div w + 1 /\ (n > 0 => c > 0)
<1>1. /\ n \div w \in Nat
      /\ n % w \in Nat
      /\ n % w < w
      /\ n = w * (n \div w) + (n % w)
  OBVIOUS
<1> DEFINE q == n \div w
           r == n % w
<1>2. q \in Nat /\ r \in Nat /\ r < w /\ n = w * q + r
  BY <1>1
<1> HIDE DEF q, r
<1>3. (q + 1) * w = w * q + w /\ q * w = w * q /\ (q + 0) * w = w * q
  BY <1>2
<1>4. q + (IF r = 0 THEN 0 ELSE 1) \in Nat
  BY <1>2
<1>5. n <= (q + (IF r = 0 THEN 0 ELSE 1)) * w
  BY <1>2, <1>3
<1>6. q = 0 => n = r
  BY <1>2
<1>7. n > 0 => q + (IF r = 0 THEN 0 ELSE 1) > 0
  BY <1>2, <1>6
<1> QED
  BY <1>4, <1>5, <1>7, <1>2 DEF q, r

\* The last depth at which two keys can still part is one of the depths.
LEMMA Depths ==
  /\ MaxDepth \in Nat
  /\ ModificationMaxNodes \in Nat
  /\ ModificationMaxNodes \in Depth
  /\ ModificationMaxNodes > 0
  /\ KeyBits - FirstLevelBits <= ModificationMaxNodes * LevelBits
<1> DEFINE n == KeyBits - FirstLevelBits
<1>1. n \in Nat /\ n > 0 /\ LevelBits \in Nat /\ LevelBits > 0
  BY StructMapAssumption
<1>2. MaxDepth = n \div LevelBits + 1
  BY DEF MaxDepth
<1>3. ModificationMaxNodes = n \div LevelBits + (IF n % LevelBits = 0 THEN 0 ELSE 1)
  BY DEF ModificationMaxNodes
<1> HIDE DEF n
<1>4. n \div LevelBits \in Nat
  BY <1>1
<1>5. /\ ModificationMaxNodes \in Nat
      /\ n <= ModificationMaxNodes * LevelBits
      /\ ModificationMaxNodes <= MaxDepth
      /\ ModificationMaxNodes > 0
  BY <1>1, <1>2, <1>3, LevelsCoverBits
<1>6. MaxDepth \in Nat
  BY <1>2, <1>4
<1> QED
  BY <1>5, <1>6 DEF n, Depth

\* A longer route has used more bits.
LEMMA UsedGrows ==
  ASSUME NEW d \in Nat, NEW e \in Nat, e <= d
  PROVE  Used(e) \subseteq Used(d)
<1>1. LevelBits \in Nat /\ FirstLevelBits \in Nat
  BY StructMapAssumption
<1>2. PICK n \in Nat : d = e + n
  <2>1. d - e \in Nat /\ d = e + (d - e)
    OBVIOUS
  <2> QED
    BY <2>1
<1>3. d * LevelBits = e * LevelBits + n * LevelBits
  BY <1>1, <1>2
<1>4. n * LevelBits \in Nat /\ e * LevelBits \in Nat /\ d * LevelBits \in Nat
  BY <1>1
<1> DEFINE x == d * LevelBits
           y == e * LevelBits
           z == n * LevelBits
<1>5. x = y + z /\ x \in Nat /\ y \in Nat /\ z \in Nat
  BY <1>3, <1>4
<1> HIDE DEF x, y, z
<1>6. 0..(FirstLevelBits + y - 1) \subseteq 0..(FirstLevelBits + x - 1)
  BY <1>1, <1>5
<1> QED
  BY <1>6 DEF x, y, Used

\* At ModificationMaxNodes a route has used every bit of a key.
LEMMA AllBitsUsed == 0..(KeyBits - 1) \subseteq Used(ModificationMaxNodes)
<1>1. /\ KeyBits - FirstLevelBits <= ModificationMaxNodes * LevelBits
      /\ ModificationMaxNodes \in Nat
  BY Depths
<1>2. LevelBits \in Nat /\ FirstLevelBits \in Nat /\ KeyBits \in Nat
  BY StructMapAssumption
<1>3. ModificationMaxNodes * LevelBits \in Nat
  BY <1>1, <1>2
<1>4. PICK x \in Nat : x = ModificationMaxNodes * LevelBits
  BY <1>3
<1>5. 0..(KeyBits - 1) \subseteq 0..(FirstLevelBits + x - 1)
  BY <1>1, <1>2, <1>4
<1> QED
  BY <1>4, <1>5 DEF Used

\* Routes that agree at a depth agree above it.
LEMMA RoutesAgreeAbove ==
  ASSUME NEW k, NEW q, NEW d \in Nat, NEW e \in Nat, e <= d, Entry(k, d) = Entry(q, d)
  PROVE  Entry(k, e) = Entry(q, e)
<1>1. Used(e) \subseteq Used(d)
  BY UsedGrows
<1>2. k \cap Used(d) = q \cap Used(d)
  BY DEF Entry
<1>3. k \cap Used(e) = q \cap Used(e)
  BY <1>1, <1>2
<1> QED
  BY <1>3 DEF Entry

\* The depth is part of the entry.
LEMMA EntryDepth ==
  ASSUME NEW k, NEW d
  PROVE  /\ Entry(k, d)[1] = d
         /\ \A q, e : Entry(k, d) = Entry(q, e) => d = e
BY DEF Entry

\* Two keys part after ModificationMaxNodes levels at the latest.
LEMMA RoutesPart ==
  ASSUME NEW k \in Key, NEW q \in Key, NEW d \in Nat, Entry(k, d) = Entry(q, d), k # q
  PROVE  d < ModificationMaxNodes
<1>1. SUFFICES ASSUME ModificationMaxNodes <= d PROVE FALSE
  BY Depths
<1>2. Entry(k, ModificationMaxNodes) = Entry(q, ModificationMaxNodes)
  BY <1>1, Depths, RoutesAgreeAbove
<1>3. k \subseteq Used(ModificationMaxNodes) /\ q \subseteq Used(ModificationMaxNodes)
  BY AllBitsUsed, StructMapAssumption
<1>4. k = q
  BY <1>2, <1>3 DEF Entry
<1> QED
  BY <1>4

(***************************************************************************)
(* The entries that two keys share.                                        *)
(***************************************************************************)

\* An entry is shared when two keys have it on their routes.
LEMMA SharedMember ==
  ASSUME NEW K, NEW k, NEW d \in Depth
  PROVE  Entry(k, d) \in Shared(K) <=>
           \E p, q \in K : p # q /\ Entry(p, d) = Entry(k, d) /\ Entry(q, d) = Entry(k, d)
<1>1. Entry(k, d)[1] = d
  BY DEF Entry
<1>2. ASSUME NEW p \in K, Entry(p, d) = Entry(k, d)
      PROVE  Entry(k, d) \in {Entry(x, e) : x \in K, e \in Depth}
  BY <1>2
<1> QED
  BY <1>1, <1>2 DEF Shared

\* What is shared is an entry of two keys.
LEMMA SharedIsEntry ==
  ASSUME NEW K, NEW e \in Shared(K)
  PROVE  \E p, q \in K, d \in Depth : p # q /\ e = Entry(p, d) /\ e = Entry(q, d)
<1>1. PICK k \in K, d \in Depth : e = Entry(k, d)
  BY DEF Shared
<1>2. \E p, q \in K : p # q /\ Entry(p, d) = Entry(k, d) /\ Entry(q, d) = Entry(k, d)
  BY <1>1, SharedMember
<1> QED
  BY <1>1, <1>2

\* Two keys that agree at a depth share the entry there.
LEMMA SharedByTwo ==
  ASSUME NEW K, NEW p \in K, NEW q \in K, p # q, NEW d \in Depth, Entry(p, d) = Entry(q, d)
  PROVE  Entry(p, d) \in Shared(K)
BY SharedMember

\* With a key in K, it takes one other.
LEMMA SharedWithOther ==
  ASSUME NEW K, NEW k \in K, NEW d \in Depth, Entry(k, d) \in Shared(K)
  PROVE  \E q \in K : q # k /\ Entry(q, d) = Entry(k, d)
BY SharedMember

\* More keys share more.
LEMMA SharedMonotone ==
  ASSUME NEW K, NEW L, K \subseteq L
  PROVE  Shared(K) \subseteq Shared(L)
<1>1. ASSUME NEW e \in Shared(K) PROVE e \in Shared(L)
  <2>1. PICK p \in K, q \in K, d \in Depth : p # q /\ e = Entry(p, d) /\ e = Entry(q, d)
    BY SharedIsEntry
  <2> QED
    BY <2>1, SharedByTwo
<1> QED
  BY <1>1

\* Depths are numbers from 0 on.
LEMMA DepthIsNat == Depth \subseteq Nat /\ \A d \in Depth : \A e \in Nat : e <= d => e \in Depth
BY Depths DEF Depth

\* Above a shared entry every entry is shared.
LEMMA SharedAbove ==
  ASSUME NEW K, NEW k, NEW d \in Depth, NEW e \in Nat, e <= d, Entry(k, d) \in Shared(K)
  PROVE  Entry(k, e) \in Shared(K)
<1>1. PICK p \in K, q \in K :
        p # q /\ Entry(p, d) = Entry(k, d) /\ Entry(q, d) = Entry(k, d)
  BY SharedMember
<1>2. d \in Nat /\ e \in Depth
  BY DepthIsNat
<1>3. Entry(p, e) = Entry(k, e) /\ Entry(q, e) = Entry(k, e)
  BY <1>1, <1>2, RoutesAgreeAbove
<1> QED
  BY <1>1, <1>2, <1>3, SharedMember

\* No entry at ModificationMaxNodes or below is shared.
LEMMA SharedIsShallow ==
  ASSUME NEW K \in SUBSET Key, NEW k, NEW d \in Depth, Entry(k, d) \in Shared(K)
  PROVE  d < ModificationMaxNodes
<1>1. PICK p \in K, q \in K :
        p # q /\ Entry(p, d) = Entry(k, d) /\ Entry(q, d) = Entry(k, d)
  BY SharedMember
<1>2. d \in Nat
  BY DepthIsNat
<1> QED
  BY <1>1, <1>2, RoutesPart

\* Where the entries of a key are.
LEMMA EntryTyped ==
  ASSUME NEW k \in Key, NEW d \in Depth
  PROVE  Entry(k, d) \in Depth \X SUBSET (0..(KeyBits - 1))
<1>1. k \in SUBSET (0..(KeyBits - 1))
  BY StructMapAssumption
<1>2. k \cap Used(d) \in SUBSET (0..(KeyBits - 1))
  BY <1>1
<1> QED
  BY <1>2 DEF Entry

\* Keys share a number of entries.
LEMMA SharedFinite ==
  ASSUME NEW K \in SUBSET Key
  PROVE  /\ IsFiniteSet(Shared(K))
         /\ Shared(K) \subseteq Depth \X SUBSET (0..(KeyBits - 1))
         /\ Cardinality(Shared(K)) \in Nat
<1>1. Shared(K) \subseteq Depth \X SUBSET (0..(KeyBits - 1))
  <2>1. ASSUME NEW e \in Shared(K) PROVE e \in Depth \X SUBSET (0..(KeyBits - 1))
    <3>1. PICK p \in K, d \in Depth : e = Entry(p, d)
      BY SharedIsEntry
    <3> QED
      BY <3>1, EntryTyped
  <2> QED
    BY <2>1
<1>2. IsFiniteSet(Depth \X SUBSET (0..(KeyBits - 1)))
  <2>1. KeyBits - 1 \in Int /\ 0 \in Int /\ MaxDepth \in Int
    BY StructMapAssumption, Depths
  <2>2. IsFiniteSet(SUBSET (0..(KeyBits - 1)))
    BY <2>1, FS_Interval, FS_SUBSET
  <2>3. IsFiniteSet(Depth)
    BY <2>1, FS_Interval DEF Depth
  <2> QED
    BY <2>2, <2>3, FS_Product
<1>3. IsFiniteSet(Shared(K))
  BY <1>1, <1>2, FS_Subset
<1> QED
  BY <1>1, <1>3, FS_CardinalityType

(***************************************************************************)
(* Leaves: where a route leaves the nodes, when there is one wherever two  *)
(* keys share an entry.                                                    *)
(***************************************************************************)

\* Every route leaves the shared entries.
LEMMA LeafExists ==
  ASSUME NEW K \in SUBSET Key, NEW k \in Key
  PROVE  \E d \in Depth :
           /\ Entry(k, d) \notin Shared(K)
           /\ \A e \in 0..(d - 1) : Entry(k, e) \in Shared(K)
<1> DEFINE S == {d \in Depth : Entry(k, d) \notin Shared(K)}
<1>1. ModificationMaxNodes \in S
  <2>1. ModificationMaxNodes \in Depth /\ ModificationMaxNodes \in Nat
    BY Depths
  <2>2. ASSUME Entry(k, ModificationMaxNodes) \in Shared(K) PROVE FALSE
    <3>1. ModificationMaxNodes < ModificationMaxNodes
      BY <2>1, <2>2, SharedIsShallow
    <3> QED
      BY <2>1, <3>1
  <2> QED
    BY <2>1, <2>2
<1>2. S \in SUBSET Nat /\ S # {}
  BY <1>1, DepthIsNat
<1> HIDE DEF S
<1>3. PICK d \in S : \A m \in S : d <= m
  BY <1>2, LeastNumber
<1>4. d \in Depth /\ d \in Nat /\ Entry(k, d) \notin Shared(K)
  BY <1>3, DepthIsNat DEF S
<1>5. ASSUME NEW e \in 0..(d - 1) PROVE Entry(k, e) \in Shared(K)
  <2>1. e \in Nat /\ e <= d /\ ~ (d <= e)
    BY <1>4
  <2>2. e \in Depth
    BY <1>4, <2>1, DepthIsNat
  <2>3. e \notin S
    BY <1>3, <2>1
  <2> QED
    BY <2>2, <2>3 DEF S
<1> QED
  BY <1>4, <1>5

\* The leaf of k, and that it is the only one.
LEMMA LeafFacts ==
  ASSUME NEW m, NEW K \in SUBSET Key, m.node = Shared(K), NEW k \in Key
  PROVE  /\ LeafDepth(m, k) \in Depth
         /\ LeafDepth(m, k) \in Nat
         /\ LeafDepth(m, k) <= ModificationMaxNodes
         /\ Leaf(m, k) = Entry(k, LeafDepth(m, k))
         /\ Leaf(m, k) \notin Shared(K)
         /\ \A e \in Depth : Entry(k, e) \in Shared(K) <=> e < LeafDepth(m, k)
         /\ \A d \in Depth : Entry(k, d) \notin Shared(K)
                             /\ (\A e \in 0..(d - 1) : Entry(k, e) \in Shared(K))
                             => LeafDepth(m, k) = d
<1> DEFINE P(d) == /\ Entry(k, d) \notin Shared(K)
                   /\ \A e \in 0..(d - 1) : Entry(k, e) \in Shared(K)
<1>1. \E d \in Depth : P(d)
  BY LeafExists
<1>2. LeafDepth(m, k) = CHOOSE d \in Depth : P(d)
  BY DEF LeafDepth
<1>3. LeafDepth(m, k) \in Depth /\ P(LeafDepth(m, k))
  <2> HIDE DEF P
  <2> QED
    BY <1>1, <1>2
<1> DEFINE l == LeafDepth(m, k)
<1>4. l \in Depth /\ l \in Nat /\ P(l)
  BY <1>3, DepthIsNat
<1> HIDE DEF l
<1>5. ASSUME NEW e \in Depth PROVE Entry(k, e) \in Shared(K) <=> e < l
  <2>1. e \in Nat
    BY DepthIsNat
  <2>2. CASE e < l
    <3>1. e \in 0..(l - 1)
      BY <1>4, <2>1, <2>2
    <3> QED
      BY <1>4, <2>2, <3>1
  <2>3. CASE ~ (e < l)
    <3>1. l <= e
      BY <1>4, <2>1, <2>3
    <3>2. Entry(k, e) \notin Shared(K)
      BY <1>4, <3>1, SharedAbove
    <3> QED
      BY <2>3, <3>2
  <2> QED
    BY <2>2, <2>3
<1>6. l <= ModificationMaxNodes
  <2>1. /\ ModificationMaxNodes \in Depth
        /\ ModificationMaxNodes \in Nat
    BY Depths
  <2>2. SUFFICES ASSUME ModificationMaxNodes < l PROVE FALSE
    BY <1>4, <2>1
  <2>3. Entry(k, ModificationMaxNodes) \in Shared(K)
    BY <1>5, <2>1, <2>2
  <2>4. ModificationMaxNodes < ModificationMaxNodes
    BY <2>1, <2>3, SharedIsShallow
  <2> QED
    BY <2>1, <2>4
<1>7. ASSUME NEW d \in Depth, P(d) PROVE l = d
  <2>1. d \in Nat
    BY DepthIsNat
  <2>2. ~ (d < l)
    BY <1>5, <1>7
  <2>3. ~ (l < d)
    <3>1. SUFFICES ASSUME l < d PROVE FALSE
      OBVIOUS
    <3>2. l \in 0..(d - 1)
      BY <1>4, <2>1, <3>1
    <3> QED
      BY <1>4, <1>7, <3>2
  <2> QED
    BY <1>4, <2>1, <2>2, <2>3
<1> QED
  BY <1>4, <1>5, <1>6, <1>7 DEF l, Leaf

\* A key that shares an entry with k where k's route has left the nodes has the
\* leaf of k for its own.
LEMMA SameLeaf ==
  ASSUME NEW m, NEW K \in SUBSET Key, m.node = Shared(K), NEW k \in Key, NEW q \in Key,
         NEW d \in Depth, Entry(q, d) = Entry(k, d), Entry(k, d) \notin Shared(K)
  PROVE  /\ LeafDepth(m, k) <= d
         /\ LeafDepth(m, q) = LeafDepth(m, k)
         /\ Leaf(m, q) = Leaf(m, k)
<1> DEFINE l == LeafDepth(m, k)
<1>1. /\ l \in Depth /\ l \in Nat /\ d \in Nat
      /\ Leaf(m, k) = Entry(k, l)
      /\ Leaf(m, k) \notin Shared(K)
      /\ \A e \in Depth : Entry(k, e) \in Shared(K) <=> e < l
  BY LeafFacts, DepthIsNat
<1>2. /\ \A x \in Depth : Entry(q, x) \notin Shared(K)
                          /\ (\A e \in 0..(x - 1) : Entry(q, e) \in Shared(K))
                          => LeafDepth(m, q) = x
      /\ Leaf(m, q) = Entry(q, LeafDepth(m, q))
  BY LeafFacts
<1> HIDE DEF l
<1>3. l <= d
  BY <1>1
<1>4. \A e \in 0..l : Entry(q, e) = Entry(k, e)
  <2>1. ASSUME NEW e \in 0..l PROVE Entry(q, e) = Entry(k, e)
    <3>1. e \in Nat /\ e <= d
      BY <1>1, <1>3
    <3> QED
      BY <1>1, <3>1, RoutesAgreeAbove
  <2> QED
    BY <2>1
<1>5. Entry(q, l) = Entry(k, l)
  BY <1>1, <1>4
<1>6. \A e \in 0..(l - 1) : Entry(q, e) \in Shared(K)
  <2>1. ASSUME NEW e \in 0..(l - 1) PROVE Entry(q, e) \in Shared(K)
    <3>1. e \in Nat /\ e < l /\ e \in 0..l /\ e <= l
      BY <1>1
    <3>2. e \in Depth
      BY <1>1, <3>1, DepthIsNat
    <3> QED
      BY <1>1, <1>4, <3>1, <3>2
  <2> QED
    BY <2>1
<1>7. LeafDepth(m, q) = l
  BY <1>1, <1>2, <1>5, <1>6
<1> QED
  BY <1>1, <1>2, <1>3, <1>5, <1>7 DEF l

\* SplitDepth is where two routes part, and the only such depth.
LEMMA SplitFacts ==
  ASSUME NEW k \in Key, NEW q \in Key, k # q, NEW d \in Depth, Entry(k, d) = Entry(q, d)
  PROVE  /\ SplitDepth(d, k, q) \in Depth
         /\ SplitDepth(d, k, q) \in Nat
         /\ d < SplitDepth(d, k, q)
         /\ SplitDepth(d, k, q) <= ModificationMaxNodes
         /\ \A e \in Depth : Entry(k, e) = Entry(q, e) <=> e < SplitDepth(d, k, q)
<1> DEFINE P(s) == /\ Entry(k, s) # Entry(q, s)
                   /\ \A e \in (d + 1)..(s - 1) : Entry(k, e) = Entry(q, e)
           S == {s \in (d + 1)..MaxDepth : Entry(k, s) # Entry(q, s)}
<1>1. /\ d \in Nat
      /\ ModificationMaxNodes \in Nat
      /\ MaxDepth \in Nat
      /\ ModificationMaxNodes <= MaxDepth
      /\ d < ModificationMaxNodes
  BY Depths, DepthIsNat, RoutesPart DEF Depth
<1>2. S \in SUBSET Nat
  BY <1>1
<1>3. ModificationMaxNodes \in S
  <2>1. Entry(k, ModificationMaxNodes) = Entry(q, ModificationMaxNodes)
          => ModificationMaxNodes < ModificationMaxNodes
    BY <1>1, RoutesPart
  <2> QED
    BY <1>1, <2>1
<1>4. PICK n \in S : \A x \in S : n <= x
  <2> HIDE DEF S
  <2> QED
    BY <1>2, <1>3, LeastNumber
<1>5. n \in (d + 1)..MaxDepth /\ P(n)
  <2>1. ASSUME NEW e \in (d + 1)..(n - 1) PROVE Entry(k, e) = Entry(q, e)
    <3>1. e \in (d + 1)..MaxDepth /\ ~ (n <= e)
      BY <1>1, <1>2, <1>4
    <3> QED
      BY <1>4, <3>1
  <2> QED
    BY <1>4, <2>1
<1>6. SplitDepth(d, k, q) = CHOOSE s \in (d + 1)..MaxDepth : P(s)
  BY DEF SplitDepth
<1>7. SplitDepth(d, k, q) \in (d + 1)..MaxDepth /\ P(SplitDepth(d, k, q))
  <2> HIDE DEF P
  <2> QED
    BY <1>5, <1>6
<1> DEFINE s == SplitDepth(d, k, q)
<1>8. s \in (d + 1)..MaxDepth /\ P(s)
  BY <1>7
<1> HIDE DEF s, S
<1>9. s \in Depth /\ s \in Nat /\ d < s
  BY <1>1, <1>8 DEF Depth
<1>10. s <= ModificationMaxNodes
  <2>1. SUFFICES ASSUME ModificationMaxNodes < s PROVE FALSE
    BY <1>1, <1>9
  <2>2. ModificationMaxNodes \in (d + 1)..(s - 1)
    BY <1>1, <1>9, <2>1
  <2>3. Entry(k, ModificationMaxNodes) = Entry(q, ModificationMaxNodes)
    BY <1>8, <2>2
  <2>4. ModificationMaxNodes < ModificationMaxNodes
    BY <1>1, <2>3, RoutesPart
  <2> QED
    BY <1>1, <2>4
<1>11. ASSUME NEW e \in Depth PROVE Entry(k, e) = Entry(q, e) <=> e < s
  <2>1. e \in Nat
    BY DepthIsNat
  <2>2. CASE e <= d
    <3>1. Entry(k, e) = Entry(q, e)
      BY <1>1, <2>1, <2>2, RoutesAgreeAbove
    <3> QED
      BY <1>1, <1>9, <2>1, <2>2, <3>1
  <2>3. CASE d < e /\ e < s
    <3>1. e \in (d + 1)..(s - 1)
      BY <1>1, <1>9, <2>1, <2>3
    <3> QED
      BY <1>8, <2>3, <3>1
  <2>4. CASE s <= e
    <3>1. Entry(k, e) # Entry(q, e)
      BY <1>8, <1>9, <2>1, <2>4, RoutesAgreeAbove
    <3> QED
      BY <1>9, <2>1, <2>4, <3>1
  <2> QED
    BY <1>1, <1>9, <2>1, <2>2, <2>3, <2>4
<1> QED
  BY <1>9, <1>10, <1>11 DEF s

\* The entries of k from depth d to the one before s.
Stretch(k, d, s) == {Entry(k, e) : e \in d..(s - 1)}

\* A stretch of a route has as many entries as depths.
LEMMA EntriesCount ==
  ASSUME NEW k, NEW d \in Nat, NEW s \in Nat, d < s
  PROVE  /\ IsFiniteSet(Stretch(k, d, s))
         /\ Cardinality(Stretch(k, d, s)) = s - d
<1> DEFINE S == d..(s - 1)
           T == Stretch(k, d, s)
           f == [e \in S |-> Entry(k, e)]
<1>1. IsFiniteSet(S) /\ Cardinality(S) = s - d
  <2>1. d \in Int /\ s - 1 \in Int /\ ~ (d > s - 1) /\ (s - 1) - d + 1 = s - d
    OBVIOUS
  <2>2. PICK x \in Int : x = s - 1
    BY <2>1
  <2>3. IsFiniteSet(d..x) /\ Cardinality(d..x) = x - d + 1
    BY <2>1, <2>2, FS_Interval
  <2> QED
    BY <2>1, <2>2, <2>3
<1>2. f \in [S -> T]
  BY DEF Stretch
<1>3. \A t \in T : \E e \in S : f[e] = t
  BY DEF Stretch
<1>4. IsInjective(f)
  BY EntryDepth DEF IsInjective
<1>5. f \in Surjection(S, T) /\ f \in Injection(S, T)
  BY <1>2, <1>3, <1>4 DEF Surjection, Injection
<1> HIDE DEF S, T, f
<1>6. IsFiniteSet(T) /\ Cardinality(T) = Cardinality(S)
  BY <1>1, <1>5, FS_Surjection
<1> QED
  BY <1>1, <1>6 DEF S, T

(***************************************************************************)
(* Canonical tries.                                                        *)
(***************************************************************************)

\* m is the trie of the keys in K.
Canon(m, K) ==
  /\ K \in SUBSET Key
  /\ m.node = Shared(K)
  /\ DOMAIN m.item = {Leaf(m, k) : k \in K}
  /\ \A k \in K : m.item[Leaf(m, k)] = k
  /\ m.node_count = Cardinality(Shared(K))

\* init() makes the trie of no keys.
LEMMA EmptyIsCanon == Canon(EmptyMap, {})
<1>1. Shared({}) = {}
  BY DEF Shared
<1>2. Cardinality({}) = 0
  BY FS_EmptySet
<1> QED
  BY <1>1, <1>2 DEF Canon, EmptyMap

\* In a canonical trie lookup() finds the keys that are in it, a key collides with
\* the one that has its leaf, and traverse() visits every key.
LEMMA CanonFacts ==
  ASSUME NEW m, NEW K, Canon(m, K)
  PROVE  /\ \A k \in Key : Contains(m, k) <=> k \in K
         /\ \A k \in Key : Collides(m, k) <=>
              k \notin K /\ \E q \in K : Leaf(m, q) = Leaf(m, k)
         /\ Visited(m) = K
<1>1. /\ K \in SUBSET Key
      /\ m.node = Shared(K)
      /\ DOMAIN m.item = {Leaf(m, k) : k \in K}
      /\ \A k \in K : m.item[Leaf(m, k)] = k
  BY DEF Canon
<1>2. ASSUME NEW k \in Key PROVE Contains(m, k) <=> k \in K
  BY <1>1 DEF Contains
<1>3. ASSUME NEW k \in Key
      PROVE  Collides(m, k) <=> k \notin K /\ \E q \in K : Leaf(m, q) = Leaf(m, k)
  BY <1>1, <1>2 DEF Collides
<1>4. ASSUME NEW k \in K
      PROVE  \A d \in 0..(Leaf(m, k)[1] - 1) : Entry(k, d) \in m.node
  <2>1. /\ LeafDepth(m, k) \in Depth /\ LeafDepth(m, k) \in Nat
        /\ Leaf(m, k) = Entry(k, LeafDepth(m, k))
        /\ \A e \in Depth : Entry(k, e) \in Shared(K) <=> e < LeafDepth(m, k)
    BY <1>1, LeafFacts
  <2>2. Leaf(m, k)[1] = LeafDepth(m, k)
    BY <2>1, EntryDepth
  <2>3. ASSUME NEW d \in 0..(LeafDepth(m, k) - 1) PROVE Entry(k, d) \in m.node
    <3>1. d \in Nat /\ d < LeafDepth(m, k) /\ d <= LeafDepth(m, k)
      BY <2>1
    <3>2. d \in Depth
      BY <2>1, <3>1, DepthIsNat
    <3> QED
      BY <1>1, <2>1, <3>1, <3>2
  <2> QED
    BY <2>2, <2>3
<1>5. Visited(m) = K
  <2>1. ASSUME NEW x \in Visited(m) PROVE x \in K
    BY <1>1 DEF Visited
  <2>2. ASSUME NEW x \in K PROVE x \in Visited(m)
    <3>1. Leaf(m, x) \in DOMAIN m.item /\ m.item[Leaf(m, x)] = x
      BY <1>1
    <3>2. Leaf(m, x) \in {y \in DOMAIN m.item :
            \A d \in 0..(y[1] - 1) : Entry(m.item[y], d) \in m.node}
      BY <1>4, <3>1
    <3> QED
      BY <3>1, <3>2 DEF Visited
  <2> QED
    BY <2>1, <2>2
<1> QED
  BY <1>2, <1>3, <1>5

\* What one more key shares.
LEMMA SharedWithOneMore ==
  ASSUME NEW K \in SUBSET Key, NEW k \in Key, NEW x \in Shared(K \cup {k}), x \notin Shared(K)
  PROVE  \E q \in K, d \in Depth : q # k /\ x = Entry(k, d) /\ Entry(q, d) = Entry(k, d)
<1> DEFINE L == K \cup {k}
<1>0. x \in Shared(L)
  OBVIOUS
<1> HIDE DEF L
<1>1. PICK p \in L, q \in L, d \in Depth :
        p # q /\ x = Entry(p, d) /\ x = Entry(q, d)
  BY <1>0, SharedIsEntry
<1> USE DEF L
<1>2. ~ (p \in K /\ q \in K)
  BY <1>1, SharedByTwo
<1>3. CASE p = k
  <2>1. q \in K /\ q # k /\ x = Entry(k, d) /\ Entry(q, d) = Entry(k, d)
    BY <1>1, <1>3
  <2> QED
    BY <2>1
<1>4. CASE q = k
  <2>1. p \in K /\ p # k /\ x = Entry(k, d) /\ Entry(p, d) = Entry(k, d)
    BY <1>1, <1>4
  <2> QED
    BY <2>1
<1> QED
  BY <1>2, <1>3, <1>4

\* A key that meets no other where it goes shares nothing new.
LEMMA NothingNewShared ==
  ASSUME NEW m, NEW K \in SUBSET Key, m.node = Shared(K), NEW k \in Key,
         \A q \in K : q # k => Leaf(m, q) # Leaf(m, k)
  PROVE  Shared(K \cup {k}) = Shared(K)
<1>1. ASSUME NEW x \in Shared(K \cup {k}), x \notin Shared(K) PROVE FALSE
  <2>1. PICK q \in K, d \in Depth : q # k /\ x = Entry(k, d) /\ Entry(q, d) = Entry(k, d)
    BY <1>1, SharedWithOneMore
  <2>2. Leaf(m, q) = Leaf(m, k)
    BY <1>1, <2>1, SameLeaf
  <2> QED
    BY <2>1, <2>2
<1>2. Shared(K) \subseteq Shared(K \cup {k})
  BY SharedMonotone
<1> QED
  BY <1>1, <1>2

\* One that meets q shares the entries from there to where they part.
LEMMA NewlyShared ==
  ASSUME NEW m, NEW K \in SUBSET Key, m.node = Shared(K), NEW k \in Key, NEW q \in K,
         q # k, Leaf(m, q) = Leaf(m, k)
  PROVE  LET l == LeafDepth(m, k)
             s == SplitDepth(l, k, q)
             new == {Entry(k, e) : e \in l..(s - 1)}
         IN /\ Entry(k, l) = Entry(q, l)
            /\ LeafDepth(m, q) = l
            /\ l < s
            /\ s - l <= ModificationMaxNodes
            /\ Shared(K \cup {k}) = Shared(K) \cup new
            /\ Shared(K) \cap new = {}
            /\ Cardinality(Shared(K \cup {k})) = Cardinality(Shared(K)) + (s - l)
<1> DEFINE l == LeafDepth(m, k)
           s == SplitDepth(l, k, q)
           new == {Entry(k, e) : e \in l..(s - 1)}
<1>1. /\ l \in Depth /\ l \in Nat
      /\ Leaf(m, k) = Entry(k, l)
      /\ Entry(k, l) \notin Shared(K)
      /\ \A e \in Depth : Entry(k, e) \in Shared(K) <=> e < l
  BY LeafFacts
<1>2. Leaf(m, q) = Entry(q, LeafDepth(m, q))
  BY LeafFacts
<1>3. LeafDepth(m, q) = l /\ Entry(k, l) = Entry(q, l)
  BY <1>1, <1>2, EntryDepth
<1> HIDE DEF l
<1>4. /\ s \in Depth /\ s \in Nat /\ l < s /\ s <= ModificationMaxNodes
      /\ \A e \in Depth : Entry(k, e) = Entry(q, e) <=> e < s
  BY <1>1, <1>3, SplitFacts
<1> HIDE DEF s
<1>5. \A e \in l..(s - 1) : e \in Depth /\ l <= e /\ e < s
  <2>1. ASSUME NEW e \in l..(s - 1) PROVE e \in Depth /\ l <= e /\ e < s
    <3>1. e \in Nat /\ e <= s /\ l <= e /\ e < s
      BY <1>1, <1>4
    <3> QED
      BY <1>4, <3>1, DepthIsNat
  <2> QED
    BY <2>1
<1>6. new \subseteq Shared(K \cup {k})
  <2>1. ASSUME NEW e \in l..(s - 1) PROVE Entry(k, e) \in Shared(K \cup {k})
    BY <1>4, <1>5, SharedByTwo
  <2> QED
    BY <2>1
<1>7. Shared(K) \cap new = {}
  <2>1. ASSUME NEW e \in l..(s - 1) PROVE Entry(k, e) \notin Shared(K)
    <3>1. e \in Depth /\ l <= e
      BY <1>5
    <3>2. e \in Nat /\ ~ (e < l)
      BY <1>1, <3>1, DepthIsNat
    <3> QED
      BY <1>1, <3>1, <3>2
  <2> QED
    BY <2>1
<1>8. ASSUME NEW x \in Shared(K \cup {k}), x \notin Shared(K) PROVE x \in new
  <2>1. PICK p \in K, d \in Depth : p # k /\ x = Entry(k, d) /\ Entry(p, d) = Entry(k, d)
    BY <1>8, SharedWithOneMore
  <2>2. d \in Nat /\ l <= d
    BY <1>1, <1>8, <2>1, DepthIsNat
  <2>3. p = q
    <3>1. SUFFICES ASSUME p # q PROVE FALSE
      OBVIOUS
    <3>2. Entry(p, l) = Entry(k, l)
      BY <1>1, <2>1, <2>2, RoutesAgreeAbove
    <3>3. Entry(p, l) \in Shared(K)
      BY <1>1, <1>3, <3>1, <3>2, SharedByTwo
    <3> QED
      BY <1>1, <3>2, <3>3
  <2>4. d < s
    BY <1>4, <2>1, <2>3
  <2>5. d \in l..(s - 1)
    BY <1>1, <1>4, <2>2, <2>4
  <2> QED
    BY <2>1, <2>5
<1>9. Shared(K) \subseteq Shared(K \cup {k})
  BY SharedMonotone
<1>10. Shared(K \cup {k}) = Shared(K) \cup new
  BY <1>6, <1>8, <1>9
<1>11. Cardinality(Shared(K \cup {k})) = Cardinality(Shared(K)) + (s - l)
  <2>1. IsFiniteSet(new) /\ Cardinality(new) = s - l
    <3>1. l \in Nat /\ s \in Nat /\ l < s
      BY <1>1, <1>4
    <3>2. /\ IsFiniteSet(Stretch(k, l, s))
          /\ Cardinality(Stretch(k, l, s)) = s - l
      BY <3>1, EntriesCount
    <3> QED
      BY <3>2, Zenon DEF Stretch
  <2>2. IsFiniteSet(Shared(K)) /\ Cardinality(Shared(K)) \in Nat
    BY SharedFinite
  <2> HIDE DEF new
  <2>3. Cardinality(Shared(K) \cup new)
          = Cardinality(Shared(K)) + Cardinality(new) - Cardinality(Shared(K) \cap new)
    BY <2>1, <2>2, FS_Union
  <2>4. Cardinality(Shared(K) \cap new) = 0
    BY <1>7, FS_EmptySet
  <2>5. s - l \in Int
    BY <1>1, <1>4
  <2>6. Cardinality(Shared(K) \cup new) = Cardinality(Shared(K)) + (s - l)
    BY <2>1, <2>2, <2>3, <2>4, <2>5
  <2> QED
    BY <1>10, <2>6
<1>12. s - l <= ModificationMaxNodes
  BY <1>1, <1>4, Depths
<1> QED
  BY <1>3, <1>4, <1>7, <1>10, <1>11, <1>12 DEF l, s

\* A leaf is a matter of the nodes.
LEMMA LeafOfNodes ==
  ASSUME NEW m, NEW n, m.node = n.node, NEW k
  PROVE  LeafDepth(m, k) = LeafDepth(n, k) /\ Leaf(m, k) = Leaf(n, k)
BY DEF LeafDepth, Leaf

\* Insertion of a key that meets no other.
LEMMA PutIsCanon ==
  ASSUME NEW m, NEW K, Canon(m, K), NEW k \in Key, ~ Collides(m, k)
  PROVE  /\ Shared(K \cup {k}) = Shared(K)
         /\ Canon(Put(m, k), K \cup {k})
<1>1. /\ K \in SUBSET Key
      /\ m.node = Shared(K)
      /\ DOMAIN m.item = {Leaf(m, x) : x \in K}
      /\ \A x \in K : m.item[Leaf(m, x)] = x
      /\ m.node_count = Cardinality(Shared(K))
  BY DEF Canon
<1>2. \A q \in K : q # k => Leaf(m, q) # Leaf(m, k)
  BY <1>1, CanonFacts
<1>3. Shared(K \cup {k}) = Shared(K)
  BY <1>1, <1>2, NothingNewShared
<1> DEFINE n == Put(m, k)
<1>4. /\ n.node = m.node
      /\ n.item = WithItem(m.item, Leaf(m, k), k)
      /\ n.node_count = m.node_count
  BY DEF Put
<1> HIDE DEF n
<1>5. \A x \in Key : Leaf(n, x) = Leaf(m, x)
  BY <1>4, LeafOfNodes
<1>6. /\ DOMAIN n.item = DOMAIN m.item \cup {Leaf(m, k)}
      /\ \A e \in DOMAIN m.item \cup {Leaf(m, k)} :
           n.item[e] = IF e = Leaf(m, k) THEN k ELSE m.item[e]
  BY <1>4 DEF WithItem
<1>7. DOMAIN n.item = {Leaf(n, x) : x \in K \cup {k}}
  BY <1>1, <1>5, <1>6
<1>8. \A x \in K \cup {k} : n.item[Leaf(n, x)] = x
  <2>1. ASSUME NEW x \in K PROVE n.item[Leaf(n, x)] = x
    <3>1. Leaf(m, x) \in DOMAIN m.item /\ m.item[Leaf(m, x)] = x /\ Leaf(n, x) = Leaf(m, x)
      BY <1>1, <1>5
    <3> QED
      BY <1>2, <1>6, <3>1
  <2>2. n.item[Leaf(n, k)] = k
    BY <1>5, <1>6
  <2> QED
    BY <2>1, <2>2
<1>9. n.node = Shared(K \cup {k}) /\ n.node_count = Cardinality(Shared(K \cup {k}))
  BY <1>1, <1>3, <1>4
<1>10. K \cup {k} \in SUBSET Key
  BY <1>1
<1>11. Canon(n, K \cup {k})
  BY <1>7, <1>8, <1>9, <1>10 DEF Canon
<1> QED
  BY <1>3, <1>11 DEF n

\* The leaves when k has pushed q down; every other leaf stays where it was.
LEMMA LeavesAfterSplit ==
  ASSUME NEW m, NEW n, NEW K \in SUBSET Key, m.node = Shared(K), NEW k \in Key, k \notin K,
         NEW q \in K, Leaf(m, q) = Leaf(m, k),
         \A x \in K : Leaf(m, x) = Leaf(m, q) => x = q,
         n.node = Shared(K \cup {k}),
         NEW s, s = SplitDepth(LeafDepth(m, k), k, q)
  PROVE  /\ Leaf(n, k) = Entry(k, s)
         /\ Leaf(n, q) = Entry(q, s)
         /\ Entry(k, s) # Entry(q, s)
         /\ \A x \in K \ {q} : Leaf(n, x) = Leaf(m, x)
         /\ \A x \in K \ {q} : Leaf(m, x) \notin {Entry(k, s), Entry(q, s)}
<1> DEFINE l == LeafDepth(m, k)
           L == K \cup {k}
<1>1. L \in SUBSET Key /\ k \in L /\ K \subseteq L /\ q \in L /\ q # k /\ q \in Key
  OBVIOUS
<1>2. /\ l \in Depth /\ l \in Nat
      /\ Leaf(m, k) = Entry(k, l) /\ Leaf(m, k) \notin Shared(K)
      /\ \A e \in Depth : Entry(k, e) \in Shared(K) <=> e < l
  BY LeafFacts
<1>3. Entry(k, l) = Entry(q, l)
  BY <1>1, NewlyShared
<1>4. /\ s \in Depth /\ s \in Nat /\ l < s
      /\ \A e \in Depth : Entry(k, e) = Entry(q, e) <=> e < s
  BY <1>1, <1>2, <1>3, SplitFacts
<1> HIDE DEF l, L
<1>5. n.node = Shared(L)
  BY DEF L
<1>6. Entry(k, s) # Entry(q, s)
  BY <1>4
<1>7. \A x \in K \ {q} : Entry(x, l) # Entry(k, l)
  <2>1. ASSUME NEW x \in K \ {q}, Entry(x, l) = Entry(k, l) PROVE FALSE
    <3>1. Leaf(m, x) = Leaf(m, k)
      BY <1>2, <2>1, SameLeaf
    <3> QED
      BY <3>1
  <2> QED
    BY <2>1
<1>8. \A x \in K \ {q}, e \in Depth : l <= e => Entry(x, e) \notin {Entry(k, e), Entry(q, e)}
  <2>1. ASSUME NEW x \in K \ {q}, NEW e \in Depth, l <= e
        PROVE  Entry(x, e) \notin {Entry(k, e), Entry(q, e)}
    <3>1. e \in Nat
      BY DepthIsNat
    <3>2. Entry(x, e) = Entry(k, e) => Entry(x, l) = Entry(k, l)
      BY <1>2, <2>1, <3>1, RoutesAgreeAbove
    <3>3. Entry(x, e) = Entry(q, e) => Entry(x, l) = Entry(q, l)
      BY <1>2, <2>1, <3>1, RoutesAgreeAbove
    <3> QED
      BY <1>3, <1>7, <3>2, <3>3
  <2> QED
    BY <2>1
<1>9. \A e \in Depth : e < s => Entry(k, e) \in Shared(L) /\ Entry(q, e) \in Shared(L)
  <2>1. ASSUME NEW e \in Depth, e < s PROVE Entry(k, e) \in Shared(L) /\ Entry(q, e) = Entry(k, e)
    BY <1>1, <1>4, <2>1, SharedByTwo
  <2> QED
    BY <2>1
<1>10. Entry(k, s) \notin Shared(L)
  <2>1. SUFFICES ASSUME Entry(k, s) \in Shared(L) PROVE FALSE
    OBVIOUS
  <2>2. PICK x \in L : x # k /\ Entry(x, s) = Entry(k, s)
    BY <1>1, <1>4, <2>1, SharedWithOther
  <2>3. x \in K \ {q}
    BY <1>6, <2>2 DEF L
  <2>4. l <= s
    BY <1>2, <1>4
  <2> QED
    BY <1>4, <1>8, <2>2, <2>3, <2>4
<1>11. Entry(q, s) \notin Shared(L)
  <2>1. SUFFICES ASSUME Entry(q, s) \in Shared(L) PROVE FALSE
    OBVIOUS
  <2>2. PICK x \in L : x # q /\ Entry(x, s) = Entry(q, s)
    BY <1>1, <1>4, <2>1, SharedWithOther
  <2>3. x \in K \ {q}
    BY <1>6, <2>2 DEF L
  <2>4. l <= s
    BY <1>2, <1>4
  <2> QED
    BY <1>4, <1>8, <2>2, <2>3, <2>4
<1>12. \A e \in 0..(s - 1) : e \in Depth /\ e < s
  <2>1. ASSUME NEW e \in 0..(s - 1) PROVE e \in Depth /\ e < s
    <3>1. e \in Nat /\ e <= s /\ e < s
      BY <1>4
    <3> QED
      BY <1>4, <3>1, DepthIsNat
  <2> QED
    BY <2>1
<1>13. Leaf(n, k) = Entry(k, s) /\ Leaf(n, q) = Entry(q, s)
  <2>1. LeafDepth(n, k) = s
    BY <1>1, <1>4, <1>5, <1>9, <1>10, <1>12, LeafFacts
  <2>2. LeafDepth(n, q) = s
    BY <1>1, <1>4, <1>5, <1>9, <1>11, <1>12, LeafFacts
  <2> QED
    BY <2>1, <2>2 DEF Leaf
<1>14. ASSUME NEW x \in K \ {q}
       PROVE  Leaf(n, x) = Leaf(m, x) /\ Leaf(m, x) \notin {Entry(k, s), Entry(q, s)}
  <2> DEFINE d == LeafDepth(m, x)
  <2>1. /\ d \in Depth /\ d \in Nat
        /\ Leaf(m, x) = Entry(x, d) /\ Leaf(m, x) \notin Shared(K)
        /\ \A e \in Depth : Entry(x, e) \in Shared(K) <=> e < d
    BY LeafFacts
  <2> HIDE DEF d
  <2>2. Entry(x, d) \notin Shared(L)
    <3>1. SUFFICES ASSUME Entry(x, d) \in Shared(L) PROVE FALSE
      OBVIOUS
    <3>2. PICK p \in L : p # x /\ Entry(p, d) = Entry(x, d)
      BY <1>1, <2>1, <3>1, SharedWithOther
    <3>3. p = k
      <4>1. p \in K => Entry(x, d) \in Shared(K)
        BY <2>1, <3>2, SharedByTwo
      <4> QED
        BY <2>1, <3>2, <4>1 DEF L
    <3>4. d < l
      BY <1>2, <1>8, <2>1, <3>2, <3>3
    <3>5. Entry(k, d) \in Shared(K)
      BY <1>2, <2>1, <3>4
    <3> QED
      BY <2>1, <3>2, <3>3, <3>5
  <2>3. \A e \in 0..(d - 1) : Entry(x, e) \in Shared(L)
    <3>1. ASSUME NEW e \in 0..(d - 1) PROVE Entry(x, e) \in Shared(L)
      <4>1. e \in Nat /\ e <= d /\ e < d
        BY <2>1
      <4>2. e \in Depth
        BY <2>1, <4>1, DepthIsNat
      <4>3. Entry(x, e) \in Shared(K)
        BY <2>1, <4>1, <4>2
      <4> QED
        BY <1>1, <4>3, SharedMonotone
    <3> QED
      BY <3>1
  <2>4. LeafDepth(n, x) = d
    BY <1>1, <1>5, <2>1, <2>2, <2>3, LeafFacts
  <2>5. Leaf(n, x) = Leaf(m, x)
    BY <2>1, <2>4 DEF Leaf
  <2>6. Leaf(m, x) \notin {Entry(k, s), Entry(q, s)}
    <3>1. SUFFICES ASSUME Leaf(m, x) \in {Entry(k, s), Entry(q, s)} PROVE FALSE
      OBVIOUS
    <3>2. d = s
      BY <2>1, <3>1, EntryDepth
    <3>3. l <= s
      BY <1>2, <1>4
    <3> QED
      BY <1>4, <1>8, <2>1, <3>1, <3>2, <3>3
  <2> QED
    BY <2>5, <2>6
<1> QED
  BY <1>6, <1>13, <1>14

\* Insertion of a key that meets another.
LEMMA SplitIsCanon ==
  ASSUME NEW m, NEW K, Canon(m, K), NEW k \in Key, Collides(m, k)
  PROVE  LET d == LeafDepth(m, k)
             s == SplitDepth(d, k, m.item[Leaf(m, k)])
         IN /\ Canon(Insert(m, k), K \cup {k})
            /\ d \in Nat /\ s \in Nat
            /\ d < s
            /\ s - d <= ModificationMaxNodes
            /\ Cardinality(Shared(K \cup {k})) = Cardinality(Shared(K)) + (s - d)
<1>1. /\ K \in SUBSET Key
      /\ m.node = Shared(K)
      /\ DOMAIN m.item = {Leaf(m, x) : x \in K}
      /\ \A x \in K : m.item[Leaf(m, x)] = x
      /\ m.node_count = Cardinality(Shared(K))
  BY DEF Canon
<1>2. k \notin K
  BY CanonFacts
<1>3. PICK q \in K : Leaf(m, q) = Leaf(m, k)
  BY CanonFacts
<1>4. m.item[Leaf(m, k)] = q /\ q # k /\ q \in Key
  BY <1>1, <1>2, <1>3
<1>5. \A x \in K : Leaf(m, x) = Leaf(m, q) => x = q
  BY <1>1
<1> DEFINE d == LeafDepth(m, k)
           s == SplitDepth(d, k, q)
           new == {Entry(k, e) : e \in d..(s - 1)}
           n == Insert(m, k)
           moved == WithItem(WithoutItem(m.item, Leaf(m, k)), Entry(q, s), q)
<1>6. /\ n.node = m.node \cup new
      /\ n.item = WithItem(moved, Entry(k, s), k)
      /\ n.node_count = m.node_count + s - d
  BY <1>4 DEF Insert
<1>7. /\ d < s
      /\ s - d <= ModificationMaxNodes
      /\ Shared(K \cup {k}) = Shared(K) \cup new
      /\ Cardinality(Shared(K \cup {k})) = Cardinality(Shared(K)) + (s - d)
      /\ Entry(k, d) = Entry(q, d)
  <2> HIDE DEF n, moved
  <2>1. K \in SUBSET Key /\ m.node = Shared(K) /\ q # k
    BY <1>1, <1>4
  <2> QED
    BY <1>3, <2>1, NewlyShared
<1>8. d \in Nat /\ d \in Depth
  BY <1>1, LeafFacts
<1>9. s \in Nat
  BY <1>4, <1>7, <1>8, SplitFacts
<1>10. n.node = Shared(K \cup {k})
  BY <1>1, <1>6, <1>7
<1>11. /\ Leaf(n, k) = Entry(k, s)
       /\ Leaf(n, q) = Entry(q, s)
       /\ Entry(k, s) # Entry(q, s)
       /\ \A x \in K \ {q} : Leaf(n, x) = Leaf(m, x)
       /\ \A x \in K \ {q} : Leaf(m, x) \notin {Entry(k, s), Entry(q, s)}
  <2> HIDE DEF n
  <2> QED
    BY <1>1, <1>2, <1>3, <1>5, <1>10, LeavesAfterSplit
<1> HIDE DEF n, s, d, new
<1>12. /\ DOMAIN moved = (DOMAIN m.item \ {Leaf(m, k)}) \cup {Entry(q, s)}
       /\ moved[Entry(q, s)] = q
       /\ \A e \in DOMAIN moved \ {Entry(q, s)} : moved[e] = m.item[e]
  BY DEF WithItem, WithoutItem
<1> HIDE DEF moved
<1>13. /\ DOMAIN n.item = DOMAIN moved \cup {Entry(k, s)}
       /\ n.item[Entry(k, s)] = k
       /\ \A e \in DOMAIN moved \ {Entry(k, s)} : n.item[e] = moved[e]
  BY <1>6 DEF WithItem
<1>14. DOMAIN n.item = {Leaf(n, x) : x \in K \cup {k}}
  <2>1. ASSUME NEW e \in DOMAIN n.item PROVE e \in {Leaf(n, x) : x \in K \cup {k}}
    <3>1. CASE e = Entry(k, s)
      BY <1>11, <3>1
    <3>2. CASE e = Entry(q, s)
      BY <1>11, <3>2
    <3>3. CASE e \in DOMAIN m.item \ {Leaf(m, k)}
      <4>1. PICK x \in K : e = Leaf(m, x)
        BY <1>1, <3>3
      <4>2. x # q
        BY <1>3, <3>3, <4>1
      <4> QED
        BY <1>11, <4>1, <4>2
    <3> QED
      BY <1>12, <1>13, <2>1, <3>1, <3>2, <3>3
  <2>2. ASSUME NEW x \in K \cup {k} PROVE Leaf(n, x) \in DOMAIN n.item
    <3>1. CASE x = k \/ x = q
      BY <1>11, <1>12, <1>13, <3>1
    <3>2. CASE x \in K \ {q}
      <4>1. Leaf(n, x) = Leaf(m, x) /\ Leaf(m, x) \in DOMAIN m.item /\ Leaf(m, x) # Leaf(m, k)
        BY <1>1, <1>3, <1>5, <1>11, <3>2
      <4> QED
        BY <1>12, <1>13, <4>1
    <3> QED
      BY <3>1, <3>2
  <2> QED
    BY <2>1, <2>2
<1>15. ASSUME NEW x \in K \cup {k} PROVE n.item[Leaf(n, x)] = x
  <2>1. CASE x = k
    BY <1>11, <1>13, <2>1
  <2>2. CASE x = q
    BY <1>11, <1>12, <1>13, <2>2
  <2>3. CASE x \in K \ {q}
    <3>1. /\ Leaf(n, x) = Leaf(m, x)
          /\ Leaf(m, x) \in DOMAIN m.item
          /\ m.item[Leaf(m, x)] = x
          /\ Leaf(m, x) # Leaf(m, k)
          /\ Leaf(m, x) \notin {Entry(k, s), Entry(q, s)}
      BY <1>1, <1>3, <1>5, <1>11, <2>3
    <3>2. Leaf(m, x) \in DOMAIN moved /\ moved[Leaf(m, x)] = x
      BY <1>12, <3>1
    <3> QED
      BY <1>13, <3>1, <3>2
  <2> QED
    BY <2>1, <2>2, <2>3
<1>16. n.node_count = Cardinality(Shared(K \cup {k}))
  <2>1. Cardinality(Shared(K)) \in Nat
    BY <1>1, SharedFinite
  <2> QED
    BY <1>1, <1>6, <1>7, <1>8, <1>9, <2>1
<1>17. Canon(n, K \cup {k})
  <2>1. K \cup {k} \in SUBSET Key
    BY <1>1
  <2> QED
    BY <1>10, <1>14, <1>15, <1>16, <2>1 DEF Canon
<1> QED
  BY <1>4, <1>7, <1>8, <1>9, <1>17 DEF n, s, d

\* insert() keeps a trie canonical, and takes the nodes foreseen by
\* would_collide_node_count(), which are at most ModificationMaxNodes.
LEMMA InsertIsCanon ==
  ASSUME NEW m, NEW K, Canon(m, K), NEW k \in Key
  PROVE  /\ Canon(Insert(m, k), K \cup {k})
         /\ WouldCollideNodeCount(m, k) \in 0..ModificationMaxNodes
         /\ Cardinality(Shared(K \cup {k})) = Cardinality(Shared(K)) + WouldCollideNodeCount(m, k)
         /\ Insert(m, k).node_count = m.node_count + WouldCollideNodeCount(m, k)
<1>1. K \in SUBSET Key /\ m.node_count = Cardinality(Shared(K))
  BY DEF Canon
<1>2. Cardinality(Shared(K)) \in Nat /\ ModificationMaxNodes \in Nat
  BY <1>1, SharedFinite, Depths
<1>3. CASE Collides(m, k)
  <2> DEFINE d == LeafDepth(m, k)
             s == SplitDepth(d, k, m.item[Leaf(m, k)])
  <2>1. /\ Canon(Insert(m, k), K \cup {k})
        /\ d \in Nat /\ s \in Nat
        /\ d < s
        /\ s - d <= ModificationMaxNodes
        /\ Cardinality(Shared(K \cup {k})) = Cardinality(Shared(K)) + (s - d)
    BY <1>3, SplitIsCanon
  <2>2. WouldCollideNodeCount(m, k) = s - d
    BY <1>3 DEF WouldCollideNodeCount
  <2>3. Insert(m, k).node_count = Cardinality(Shared(K \cup {k}))
    BY <2>1 DEF Canon
  <2> HIDE DEF d, s
  <2> QED
    BY <1>1, <1>2, <2>1, <2>2, <2>3
<1>4. CASE ~ Collides(m, k)
  <2>1. Insert(m, k) = Put(m, k) /\ WouldCollideNodeCount(m, k) = 0
    BY <1>4 DEF Insert, WouldCollideNodeCount
  <2>2. Canon(Put(m, k), K \cup {k}) /\ Shared(K \cup {k}) = Shared(K)
    BY <1>4, PutIsCanon
  <2>3. Put(m, k).node_count = m.node_count
    BY DEF Put
  <2> QED
    BY <1>1, <1>2, <2>1, <2>2, <2>3
<1> QED
  BY <1>3, <1>4

(***************************************************************************)
(* Several tries.                                                          *)
(***************************************************************************)

\* What a key newly shares with the keys of several layers it newly shares with
\* those of one of them already.
LEMMA OneLayerPays ==
  ASSUME NEW A \in SUBSET Key, NEW B \in SUBSET Key, NEW C \in SUBSET Key, NEW k \in Key
  PROVE  LET U == A \cup B \cup C
         IN \E X \in {A, B, C} :
              Shared(U \cup {k}) \ Shared(U) \subseteq Shared(X \cup {k}) \ Shared(X)
<1> DEFINE U == A \cup B \cup C
           m == [node |-> Shared(U)]
<1>1. U \in SUBSET Key /\ A \subseteq U /\ B \subseteq U /\ C \subseteq U
  OBVIOUS
<1>2. m.node = Shared(U)
  OBVIOUS
<1>3. \A q \in U : q \in A \/ q \in B \/ q \in C
  OBVIOUS
<1> HIDE DEF U, m
<1>4. CASE \A q \in U : q # k => Leaf(m, q) # Leaf(m, k)
  <2>1. Shared(U \cup {k}) = Shared(U)
    BY <1>1, <1>2, <1>4, NothingNewShared
  <2> QED
    BY <2>1 DEF U
<1>5. ASSUME NEW q \in U, q # k, Leaf(m, q) = Leaf(m, k)
      PROVE  \E X \in {A, B, C} :
               Shared(U \cup {k}) \ Shared(U) \subseteq Shared(X \cup {k}) \ Shared(X)
  <2> DEFINE l == LeafDepth(m, k)
             s == SplitDepth(l, k, q)
             new == {Entry(k, e) : e \in l..(s - 1)}
  <2>1. /\ Shared(U \cup {k}) = Shared(U) \cup new
        /\ Shared(U) \cap new = {}
        /\ Entry(k, l) = Entry(q, l)
    BY <1>1, <1>2, <1>5, NewlyShared
  <2>2. l \in Depth /\ l \in Nat
    BY <1>1, <1>2, LeafFacts
  <2>3. q \in Key
    BY <1>1
  <2> HIDE DEF l
  <2>4. s \in Depth /\ s \in Nat /\ \A e \in Depth : Entry(k, e) = Entry(q, e) <=> e < s
    BY <1>5, <2>1, <2>2, <2>3, SplitFacts
  <2> HIDE DEF s
  <2>5. PICK X \in {A, B, C} : q \in X
    BY <1>3
  <2>6. ASSUME NEW e \in l..(s - 1)
        PROVE  Entry(k, e) \in Shared(X \cup {k}) \ Shared(X)
    <3>1. e \in Nat /\ e <= s /\ e < s
      BY <2>2, <2>4
    <3>2. e \in Depth
      BY <2>4, <3>1, DepthIsNat
    <3>3. Entry(k, e) \in Shared(X \cup {k})
      BY <1>5, <2>4, <2>5, <3>1, <3>2, SharedByTwo
    <3>4. X \subseteq U
      BY <1>1
    <3>5. Entry(k, e) \notin Shared(U)
      BY <2>1, <2>6
    <3> QED
      BY <3>3, <3>4, <3>5, SharedMonotone
  <2>7. Shared(U \cup {k}) \ Shared(U) \subseteq Shared(X \cup {k}) \ Shared(X)
    BY <2>1, <2>6
  <2> QED
    BY <2>7
<1> QED
  BY <1>4, <1>5 DEF U

\* The nodes a key adds are the entries it newly shares.
LEMMA GrowthIsDifference ==
  ASSUME NEW K \in SUBSET Key, NEW k \in Key
  PROVE  /\ IsFiniteSet(Shared(K \cup {k}) \ Shared(K))
         /\ Cardinality(Shared(K \cup {k}) \ Shared(K))
              = Cardinality(Shared(K \cup {k})) - Cardinality(Shared(K))
<1> DEFINE S == Shared(K \cup {k})
           T == Shared(K)
<1>1. K \cup {k} \in SUBSET Key
  OBVIOUS
<1>2. IsFiniteSet(S)
  BY <1>1, SharedFinite
<1>3. S \cap T = T
  BY SharedMonotone
<1> HIDE DEF S, T
<1>4. IsFiniteSet(S \ T) /\ Cardinality(S \ T) = Cardinality(S) - Cardinality(S \cap T)
  BY <1>2, FS_Difference
<1> QED
  BY <1>3, <1>4 DEF S, T

\* A key costs the merged layers no more nodes than one of the layers.
LEMMA MergedCost ==
  ASSUME NEW A \in SUBSET Key, NEW B \in SUBSET Key, NEW C \in SUBSET Key, NEW k \in Key
  PROVE  LET U == A \cup B \cup C
         IN \E X \in {A, B, C} :
              Cardinality(Shared(U \cup {k})) - Cardinality(Shared(U))
                <= Cardinality(Shared(X \cup {k})) - Cardinality(Shared(X))
<1> DEFINE U == A \cup B \cup C
           D(X) == Shared(X \cup {k}) \ Shared(X)
<1>1. PICK X \in {A, B, C} : D(U) \subseteq D(X)
  BY OneLayerPays
<1>2. U \in SUBSET Key /\ X \in SUBSET Key
  OBVIOUS
<1> HIDE DEF U
<1>3. Cardinality(D(U)) = Cardinality(Shared(U \cup {k})) - Cardinality(Shared(U))
  BY <1>2, GrowthIsDifference
<1>4. /\ IsFiniteSet(D(X))
      /\ Cardinality(D(X)) = Cardinality(Shared(X \cup {k})) - Cardinality(Shared(X))
  BY <1>2, GrowthIsDifference
<1>5. Cardinality(D(U)) <= Cardinality(D(X))
  <2> HIDE DEF D
  <2> QED
    BY <1>1, <1>4, FS_Subset
<1>6. Cardinality(Shared(U \cup {k})) - Cardinality(Shared(U))
        <= Cardinality(Shared(X \cup {k})) - Cardinality(Shared(X))
  BY <1>3, <1>4, <1>5
<1> QED
  BY <1>6 DEF U

\* Fewer keys share fewer entries.
LEMMA SharedCount ==
  ASSUME NEW K, NEW L \in SUBSET Key, K \subseteq L
  PROVE  /\ Cardinality(Shared(K)) \in Nat
         /\ Cardinality(Shared(L)) \in Nat
         /\ Cardinality(Shared(K)) <= Cardinality(Shared(L))
<1>1. Shared(K) \subseteq Shared(L)
  BY SharedMonotone
<1>2. K \in SUBSET Key
  OBVIOUS
<1>3. /\ IsFiniteSet(Shared(L))
      /\ Cardinality(Shared(K)) \in Nat
      /\ Cardinality(Shared(L)) \in Nat
  BY <1>2, SharedFinite
<1> QED
  BY <1>1, <1>3, FS_Subset

(***************************************************************************)
(* The order of numbers.                                                   *)
(***************************************************************************)
\* A set of numbers that is bounded and not empty has a greatest one.
LEMMA GreatestNumber ==
  ASSUME NEW n \in Nat, NEW S \in SUBSET (0..n), S # {}
  PROVE  \E i \in S : \A j \in S : j <= i
<1> DEFINE T == {m \in 0..n : n - m \in S}
<1>1. T \in SUBSET Nat
  OBVIOUS
<1>2. T # {}
  <2>1. PICK i \in S : TRUE
    OBVIOUS
  <2>2. n - i \in 0..n /\ n - (n - i) = i
    OBVIOUS
  <2>3. n - i \in T
    BY <2>2
  <2> QED
    BY <2>3
<1>3. PICK m \in T : \A x \in T : m <= x
  <2> HIDE DEF T
  <2> QED
    BY <1>1, <1>2, LeastNumber
<1>4. n - m \in S /\ m \in Nat /\ m <= n
  OBVIOUS
<1>5. ASSUME NEW j \in S PROVE j <= n - m
  <2>1. j \in Nat /\ j <= n /\ n - j \in 0..n /\ n - (n - j) = j
    OBVIOUS
  <2>2. n - j \in T
    BY <2>1
  <2>3. m <= n - j
    BY <1>3, <2>2
  <2> QED
    BY <1>4, <2>1, <2>3
<1> QED
  BY <1>4, <1>5

Number == SUBSET (0..(KeyBits - 1))

\* Of two numbers one is less.
LEMMA LessTotal ==
  ASSUME NEW x \in Number, NEW y \in Number, x # y
  PROVE  Less(x, y) \/ Less(y, x)
<1> DEFINE S == (x \ y) \cup (y \ x)
<1>1. KeyBits - 1 \in Nat
  BY StructMapAssumption
<1>2. S \in SUBSET (0..(KeyBits - 1)) /\ S # {}
  BY DEF Number
<1>3. PICK i \in S : \A j \in S : j <= i
  <2> HIDE DEF S
  <2>1. PICK n \in Nat : n = KeyBits - 1
    BY <1>1
  <2> QED
    BY <1>2, <2>1, GreatestNumber
<1>4. \A j \in x \cup y : j > i => (j \in x <=> j \in y)
  <2>1. ASSUME NEW j \in x \cup y, j > i, ~ (j \in x <=> j \in y) PROVE FALSE
    <3>1. j \in S /\ j \in Int /\ i \in Int
      BY <2>1 DEF Number
    <3> QED
      BY <1>3, <2>1, <3>1
  <2> QED
    BY <2>1
<1>5. \A j \in y \cup x : j > i => (j \in y <=> j \in x)
  BY <1>4
<1> QED
  BY <1>4, <1>5 DEF Less

\* And only one.
LEMMA LessAsymmetric ==
  ASSUME NEW x \in Number, NEW y \in Number, Less(x, y)
  PROVE  ~ Less(y, x) /\ x # y
<1>1. PICK i \in y \ x : \A j \in x \cup y : j > i => (j \in x <=> j \in y)
  BY DEF Less
<1>2. ASSUME Less(y, x) PROVE FALSE
  <2>1. PICK h \in x \ y : \A j \in y \cup x : j > h => (j \in y <=> j \in x)
    BY <1>2 DEF Less
  <2>2. i \in Int /\ h \in Int /\ i # h
    BY DEF Number
  <2>3. CASE i > h
    BY <2>1, <2>3
  <2>4. CASE h > i
    BY <1>1, <2>4
  <2> QED
    BY <2>2, <2>3, <2>4
<1> QED
  BY <1>1, <1>2

\* What is less than a lesser number is less.
LEMMA LessTransitive ==
  ASSUME NEW x \in Number, NEW y \in Number, NEW z \in Number, Less(x, y), Less(y, z)
  PROVE  Less(x, z)
<1>1. PICK i \in y \ x : \A j \in x \cup y : j > i => (j \in x <=> j \in y)
  BY DEF Less
<1>2. PICK h \in z \ y : \A j \in y \cup z : j > h => (j \in y <=> j \in z)
  BY DEF Less
<1>3. /\ i \in Int /\ h \in Int /\ i # h
      /\ x \subseteq Int /\ y \subseteq Int /\ z \subseteq Int
  BY DEF Number
<1>4. CASE i > h
  <2>1. i \in z \ x
    BY <1>2, <1>4
  <2>2. ASSUME NEW j \in x \cup z, j > i PROVE j \in x <=> j \in z
    <3>1. j > h
      BY <1>3, <1>4, <2>2
    <3> QED
      BY <1>1, <1>2, <2>2, <3>1
  <2> QED
    BY <2>1, <2>2 DEF Less
<1>5. CASE h > i
  <2>1. h \in z \ x
    BY <1>1, <1>5
  <2>2. ASSUME NEW j \in x \cup z, j > h PROVE j \in x <=> j \in z
    <3>1. j > i
      BY <1>3, <1>5, <2>2
    <3> QED
      BY <1>1, <1>2, <2>2, <3>1
  <2> QED
    BY <2>1, <2>2 DEF Less
<1> QED
  BY <1>3, <1>4, <1>5

(***************************************************************************)
(* The order of the entries.                                               *)
(***************************************************************************)

\* The entries there can be.
Routes == {Entry(k, d) : k \in Key, d \in Depth}

\* p is f or an entry on the route to it.
Above(p, f) == p[1] <= f[1] /\ p = Entry(f[2], p[1])

\* The bits of a route that choose the slot at depth d.
SlotBits(d) == IF d = 0 THEN Used(0) ELSE Used(d) \ Used(d - 1)

\* A slot is a part of the route.
LEMMA SlotOfBits == ASSUME NEW e, NEW d PROVE SlotAt(e, d) = e[2] \cap SlotBits(d)
BY DEF SlotAt, SlotBits

\* What an entry consists of.
LEMMA RouteFacts ==
  ASSUME NEW e \in Routes
  PROVE  /\ e[1] \in Depth /\ e[1] \in Nat
         /\ e[2] \in Number
         /\ e[2] \subseteq Used(e[1])
         /\ e = <<e[1], e[2]>>
         /\ \A d \in Nat : SlotAt(e, d) \in Number
         /\ \A d \in Nat : d <= e[1] => Entry(e[2], d) \in Routes
<1>1. PICK k \in Key, d \in Depth : e = Entry(k, d)
  BY DEF Routes
<1>2. e = <<d, k \cap Used(d)>>
  BY <1>1 DEF Entry
<1>3. k \in Number
  BY StructMapAssumption DEF Number
<1>4. /\ e[1] = d /\ e[2] = k \cap Used(d) /\ e = <<e[1], e[2]>>
      /\ e[1] \in Depth /\ e[1] \in Nat
  BY <1>2, DepthIsNat
<1>5. e[2] \in Number /\ e[2] \subseteq Used(e[1])
  BY <1>3, <1>4 DEF Number
<1>6. \A c \in Nat : SlotAt(e, c) \in Number
  BY <1>5, SlotOfBits DEF Number
<1>7. ASSUME NEW c \in Nat, c <= e[1] PROVE Entry(e[2], c) \in Routes
  <2>1. Used(c) \subseteq Used(d)
    BY <1>4, <1>7, UsedGrows
  <2>2. e[2] \cap Used(c) = k \cap Used(c)
    BY <1>4, <2>1
  <2>3. Entry(e[2], c) = Entry(k, c)
    BY <2>2 DEF Entry
  <2>4. c \in Depth
    BY <1>4, <1>7, DepthIsNat
  <2> QED
    BY <2>3, <2>4 DEF Routes
<1> QED
  BY <1>4, <1>5, <1>6, <1>7

\* The slots of a route are the route.
LEMMA AboveIsSlots ==
  ASSUME NEW p \in Routes, NEW f \in Routes, p[1] <= f[1]
  PROVE  Above(p, f) <=> \A c \in 0..p[1] : SlotAt(p, c) = SlotAt(f, c)
<1>1. /\ p[1] \in Nat /\ f[1] \in Nat /\ p[2] \subseteq Used(p[1]) /\ p = <<p[1], p[2]>>
  BY RouteFacts
<1>2. ASSUME NEW c \in 0..p[1] PROVE SlotBits(c) \subseteq Used(p[1])
  <2>1. c \in Nat /\ c <= p[1]
    BY <1>1
  <2>2. Used(c) \subseteq Used(p[1])
    BY <1>1, <2>1, UsedGrows
  <2> QED
    BY <2>2 DEF SlotBits
<1>3. ASSUME Above(p, f), NEW c \in 0..p[1] PROVE SlotAt(p, c) = SlotAt(f, c)
  <2>1. p[2] = f[2] \cap Used(p[1])
    BY <1>1, <1>3 DEF Above, Entry
  <2> QED
    BY <1>2, <2>1, SlotOfBits
<1>4. ASSUME \A c \in 0..p[1] : SlotAt(p, c) = SlotAt(f, c) PROVE Above(p, f)
  <2>1. ASSUME NEW i \in Used(p[1]) PROVE i \in p[2] <=> i \in f[2]
    <3> DEFINE S == {c \in 0..p[1] : i \in Used(c)}
    <3>1. S \in SUBSET Nat /\ p[1] \in S
      BY <1>1
    <3> HIDE DEF S
    <3>2. PICK c \in S : \A x \in S : c <= x
      BY <3>1, LeastNumber
    <3>3. c \in 0..p[1] /\ c \in Nat /\ c <= p[1] /\ i \in Used(c)
      BY <1>1, <3>2 DEF S
    <3>4. i \in SlotBits(c)
      <4>1. CASE c = 0
        BY <3>3, <4>1 DEF SlotBits
      <4>2. CASE c # 0
        <5>1. c - 1 \in 0..p[1] /\ ~ (c <= c - 1)
          BY <1>1, <3>3, <4>2
        <5>2. i \notin Used(c - 1)
          BY <3>2, <5>1 DEF S
        <5> QED
          BY <3>3, <4>2, <5>2 DEF SlotBits
      <4> QED
        BY <4>1, <4>2
    <3>5. SlotAt(p, c) = SlotAt(f, c)
      BY <1>4, <3>3
    <3> QED
      BY <3>4, <3>5, SlotOfBits
  <2>2. p[2] = f[2] \cap Used(p[1])
    BY <1>1, <2>1
  <2> QED
    BY <1>1, <2>2 DEF Above, Entry
<1> QED
  BY <1>3, <1>4

\* e and f part at depth d.
PartAt(e, f, d) ==
  /\ d \in Nat /\ d <= e[1] /\ d <= f[1]
  /\ \A c \in 0..(d - 1) : SlotAt(e, c) = SlotAt(f, c)

\* An entry is before another by the first slots that differ.
LEMMA BeforeParts ==
  ASSUME NEW e \in Routes, NEW f \in Routes
  PROVE  Before(e, f) <=> \E d : PartAt(e, f, d) /\ Less(SlotAt(e, d), SlotAt(f, d))
<1>1. e[1] \in Nat
  BY RouteFacts
<1>2. ASSUME Before(e, f)
      PROVE  \E d : PartAt(e, f, d) /\ Less(SlotAt(e, d), SlotAt(f, d))
  <2>1. PICK d \in 0..e[1] :
          /\ d <= f[1]
          /\ Less(SlotAt(e, d), SlotAt(f, d))
          /\ \A c \in 0..(d - 1) : SlotAt(e, c) = SlotAt(f, c)
    BY <1>2 DEF Before
  <2>2. d \in Nat /\ d <= e[1]
    BY <1>1
  <2>3. PartAt(e, f, d)
    BY <2>1, <2>2 DEF PartAt
  <2> QED
    BY <2>1, <2>3
<1>3. ASSUME NEW d, PartAt(e, f, d), Less(SlotAt(e, d), SlotAt(f, d)) PROVE Before(e, f)
  <2>1. d \in 0..e[1]
    BY <1>1, <1>3 DEF PartAt
  <2> QED
    BY <1>3, <2>1 DEF PartAt, Before
<1> QED
  BY <1>2, <1>3

\* Of two entries at most one is before the other.
LEMMA BeforeAsymmetric ==
  ASSUME NEW e \in Routes, NEW f \in Routes, Before(e, f)
  PROVE  ~ Before(f, e)
<1>1. PICK d : PartAt(e, f, d) /\ Less(SlotAt(e, d), SlotAt(f, d))
  BY BeforeParts
<1>2. SUFFICES ASSUME Before(f, e) PROVE FALSE
  OBVIOUS
<1>3. PICK c : PartAt(f, e, c) /\ Less(SlotAt(f, c), SlotAt(e, c))
  BY <1>2, BeforeParts
<1>4. /\ d \in Nat /\ c \in Nat
      /\ SlotAt(e, d) \in Number /\ SlotAt(f, d) \in Number
      /\ SlotAt(e, c) \in Number /\ SlotAt(f, c) \in Number
  BY <1>1, <1>3, RouteFacts DEF PartAt
<1>5. /\ SlotAt(e, d) # SlotAt(f, d) /\ SlotAt(e, c) # SlotAt(f, c)
      /\ ~ Less(SlotAt(f, d), SlotAt(e, d))
  BY <1>1, <1>3, <1>4, LessAsymmetric
<1>6. ~ (c < d)
  <2>1. c < d => c \in 0..(d - 1)
    BY <1>4
  <2> QED
    BY <1>1, <1>5, <2>1 DEF PartAt
<1>7. ~ (d < c)
  <2>1. d < c => d \in 0..(c - 1)
    BY <1>4
  <2> QED
    BY <1>3, <1>5, <2>1 DEF PartAt
<1>8. c = d
  BY <1>4, <1>6, <1>7
<1> QED
  BY <1>3, <1>5, <1>8

\* What is before an earlier entry is before the later one.
LEMMA BeforeTransitive ==
  ASSUME NEW e \in Routes, NEW f \in Routes, NEW g \in Routes, Before(e, f), Before(f, g)
  PROVE  Before(e, g)
<1>1. PICK d : PartAt(e, f, d) /\ Less(SlotAt(e, d), SlotAt(f, d))
  BY BeforeParts
<1>2. PICK c : PartAt(f, g, c) /\ Less(SlotAt(f, c), SlotAt(g, c))
  BY BeforeParts
<1>3. /\ d \in Nat /\ c \in Nat /\ d <= e[1] /\ d <= f[1] /\ c <= f[1] /\ c <= g[1]
      /\ e[1] \in Nat /\ f[1] \in Nat /\ g[1] \in Nat
      /\ \A x \in 0..(d - 1) : SlotAt(e, x) = SlotAt(f, x)
      /\ \A x \in 0..(c - 1) : SlotAt(f, x) = SlotAt(g, x)
      /\ SlotAt(e, d) \in Number /\ SlotAt(f, d) \in Number /\ SlotAt(g, d) \in Number
  BY <1>1, <1>2, RouteFacts DEF PartAt
<1>4. CASE d < c
  <2>1. d \in 0..(c - 1) /\ (0..(d - 1)) \subseteq 0..(c - 1) /\ d <= g[1]
    BY <1>3, <1>4
  <2>2. SlotAt(f, d) = SlotAt(g, d)
    BY <1>3, <2>1
  <2>3. PartAt(e, g, d)
    BY <1>3, <2>1 DEF PartAt
  <2> QED
    BY <1>1, <2>2, <2>3, BeforeParts
<1>5. CASE c < d
  <2>1. c \in 0..(d - 1) /\ (0..(c - 1)) \subseteq 0..(d - 1) /\ c <= e[1]
    BY <1>3, <1>5
  <2>2. SlotAt(e, c) = SlotAt(f, c)
    BY <1>3, <2>1
  <2>3. PartAt(e, g, c)
    BY <1>3, <2>1 DEF PartAt
  <2> QED
    BY <1>2, <2>2, <2>3, BeforeParts
<1>6. CASE d = c
  <2>1. PartAt(e, g, d)
    BY <1>3, <1>6 DEF PartAt
  <2>2. Less(SlotAt(e, d), SlotAt(g, d))
    BY <1>1, <1>2, <1>3, <1>6, LessTransitive
  <2> QED
    BY <2>1, <2>2, BeforeParts
<1> QED
  BY <1>3, <1>4, <1>5, <1>6

\* Two entries are ordered or on one route.
LEMMA BeforeTotal ==
  ASSUME NEW e \in Routes, NEW f \in Routes, ~ Above(e, f), ~ Above(f, e)
  PROVE  Before(e, f) \/ Before(f, e)
<1>1. e[1] \in Nat /\ f[1] \in Nat
  BY RouteFacts
<1>2. PICK n \in Nat : n <= e[1] /\ n <= f[1] /\ (n = e[1] \/ n = f[1])
  <2>1. CASE e[1] <= f[1]
    BY <1>1, <2>1
  <2>2. CASE f[1] <= e[1]
    BY <1>1, <2>2
  <2> QED
    BY <1>1, <2>1, <2>2
<1> DEFINE S == {c \in 0..n : SlotAt(e, c) # SlotAt(f, c)}
<1>3. S # {}
  <2>1. SUFFICES ASSUME \A c \in 0..n : SlotAt(e, c) = SlotAt(f, c) PROVE FALSE
    OBVIOUS
  <2>2. CASE n = e[1]
    BY <1>2, <2>1, <2>2, AboveIsSlots
  <2>3. CASE n = f[1]
    BY <1>2, <2>1, <2>3, AboveIsSlots
  <2> QED
    BY <1>2, <2>2, <2>3
<1>4. S \in SUBSET Nat
  OBVIOUS
<1>5. PICK d \in S : \A x \in S : d <= x
  <2> HIDE DEF S
  <2> QED
    BY <1>3, <1>4, LeastNumber
<1>6. d \in Nat /\ d <= n /\ SlotAt(e, d) # SlotAt(f, d)
  OBVIOUS
<1>7. \A c \in 0..(d - 1) : SlotAt(e, c) = SlotAt(f, c)
  <2>1. ASSUME NEW c \in 0..(d - 1) PROVE SlotAt(e, c) = SlotAt(f, c)
    <3>1. c \in 0..n /\ ~ (d <= c)
      BY <1>6
    <3>2. c \notin S
      BY <1>5, <3>1
    <3> QED
      BY <3>1, <3>2
  <2> QED
    BY <2>1
<1>8. d <= e[1] /\ d <= f[1]
  BY <1>1, <1>2, <1>6
<1>9. PartAt(e, f, d) /\ PartAt(f, e, d)
  BY <1>6, <1>7, <1>8 DEF PartAt
<1>10. Less(SlotAt(e, d), SlotAt(f, d)) \/ Less(SlotAt(f, d), SlotAt(e, d))
  BY <1>6, RouteFacts, LessTotal
<1> QED
  BY <1>9, <1>10, BeforeParts

\* What is before or after an entry is so of all below it.
LEMMA BeforeBelow ==
  ASSUME NEW e \in Routes, NEW p \in Routes, NEW f \in Routes, Above(p, f)
  PROVE  /\ Before(e, p) => Before(e, f)
         /\ Before(p, e) => Before(f, e)
<1>1. p[1] \in Nat /\ f[1] \in Nat /\ e[1] \in Nat /\ p[1] <= f[1]
  BY RouteFacts DEF Above
<1>2. \A c \in 0..p[1] : SlotAt(p, c) = SlotAt(f, c)
  BY <1>1, AboveIsSlots
<1>3. ASSUME Before(e, p) PROVE Before(e, f)
  <2>1. PICK d : PartAt(e, p, d) /\ Less(SlotAt(e, d), SlotAt(p, d))
    BY <1>3, BeforeParts
  <2>2. d \in Nat /\ d <= e[1] /\ d <= p[1] /\ \A c \in 0..(d - 1) : SlotAt(e, c) = SlotAt(p, c)
    BY <2>1 DEF PartAt
  <2>3. d \in 0..p[1] /\ d <= f[1] /\ (0..(d - 1)) \subseteq 0..p[1]
    BY <1>1, <2>2
  <2>4. PartAt(e, f, d)
    BY <1>2, <2>2, <2>3 DEF PartAt
  <2> QED
    BY <1>2, <2>1, <2>3, <2>4, BeforeParts
<1>4. ASSUME Before(p, e) PROVE Before(f, e)
  <2>1. PICK d : PartAt(p, e, d) /\ Less(SlotAt(p, d), SlotAt(e, d))
    BY <1>4, BeforeParts
  <2>2. d \in Nat /\ d <= e[1] /\ d <= p[1] /\ \A c \in 0..(d - 1) : SlotAt(p, c) = SlotAt(e, c)
    BY <2>1 DEF PartAt
  <2>3. d \in 0..p[1] /\ d <= f[1] /\ (0..(d - 1)) \subseteq 0..p[1]
    BY <1>1, <2>2
  <2>4. PartAt(f, e, d)
    BY <1>2, <2>2, <2>3 DEF PartAt
  <2> QED
    BY <1>2, <2>1, <2>3, <2>4, BeforeParts
<1> QED
  BY <1>3, <1>4

\* One entry before another is not on its route.
LEMMA BeforeIsApart ==
  ASSUME NEW e \in Routes, NEW f \in Routes, Before(e, f)
  PROVE  ~ Above(e, f) /\ ~ Above(f, e) /\ e # f
<1>1. Above(e, f) => Before(f, f)
  BY BeforeBelow
<1>2. Above(f, e) => Before(e, e)
  BY BeforeBelow
<1>3. ~ Before(e, e) /\ ~ Before(f, f)
  BY BeforeAsymmetric
<1> QED
  BY <1>1, <1>2, <1>3

\* What is above an entry is above all that is below that one.
LEMMA AboveTransitive ==
  ASSUME NEW p \in Routes, NEW q \in Routes, NEW f \in Routes, Above(p, q), Above(q, f)
  PROVE  Above(p, f)
<1>1. p[1] \in Nat /\ q[1] \in Nat /\ f[1] \in Nat /\ p[1] <= q[1] /\ q[1] <= f[1]
  BY RouteFacts DEF Above
<1>2. /\ \A c \in 0..p[1] : SlotAt(p, c) = SlotAt(q, c)
      /\ \A c \in 0..q[1] : SlotAt(q, c) = SlotAt(f, c)
  BY <1>1, AboveIsSlots
<1>3. (0..p[1]) \subseteq 0..q[1] /\ p[1] <= f[1]
  BY <1>1
<1> QED
  BY <1>2, <1>3, AboveIsSlots

\* An entry above one that f comes after has f below it or after it.
LEMMA BeforeAbove ==
  ASSUME NEW p \in Routes, NEW e \in Routes, NEW f \in Routes, Above(p, e), Before(e, f)
  PROVE  Above(p, f) \/ Before(p, f)
<1>1. SUFFICES ASSUME ~ Above(p, f) PROVE Before(p, f)
  OBVIOUS
<1>2. ~ Above(f, p)
  BY AboveTransitive, BeforeIsApart
<1>3. Before(p, f) \/ Before(f, p)
  BY <1>1, <1>2, BeforeTotal
<1>4. Before(f, p) => Before(f, e)
  BY BeforeBelow
<1> QED
  BY <1>3, <1>4, BeforeAsymmetric

\* There are finitely many entries.
LEMMA RoutesFinite == IsFiniteSet(Routes) /\ \A D \in SUBSET Routes : IsFiniteSet(D)
<1>1. KeyBits - 1 \in Int /\ 0 \in Int /\ MaxDepth \in Int
  BY StructMapAssumption, Depths
<1>2. IsFiniteSet(Number)
  BY <1>1, FS_Interval, FS_SUBSET DEF Number
<1>3. IsFiniteSet(Depth)
  BY <1>1, FS_Interval DEF Depth
<1>4. IsFiniteSet(Depth \X Number)
  BY <1>2, <1>3, FS_Product
<1>5. Routes \subseteq Depth \X Number
  <2>1. ASSUME NEW e \in Routes PROVE e \in Depth \X Number
    BY RouteFacts
  <2> QED
    BY <2>1
<1>6. IsFiniteSet(Routes)
  BY <1>4, <1>5, FS_Subset
<1> QED
  BY <1>6, FS_Subset

IsFirst(e, D) == e \in D /\ \A f \in D \ {e} : Before(e, f)

\* Of entries on different routes there is a first.
LEMMA FirstExists ==
  ASSUME NEW D \in SUBSET Routes, D # {}, \A e, f \in D : Above(e, f) => e = f
  PROVE  \E e \in D : IsFirst(e, D)
<1> DEFINE P(e) == {f \in D : Before(f, e)}
           S == {Cardinality(P(e)) : e \in D}
<1>1. \A e \in D : IsFiniteSet(P(e)) /\ Cardinality(P(e)) \in Nat
  <2>1. ASSUME NEW e \in D PROVE IsFiniteSet(P(e)) /\ Cardinality(P(e)) \in Nat
    <3>1. P(e) \in SUBSET Routes
      OBVIOUS
    <3> HIDE DEF P
    <3>2. IsFiniteSet(P(e))
      BY <3>1, RoutesFinite
    <3> QED
      BY <3>2, FS_CardinalityType
  <2> QED
    BY <2>1
<1>2. S \in SUBSET Nat /\ S # {}
  BY <1>1
<1>3. PICK n \in S : \A x \in S : n <= x
  <2> HIDE DEF S
  <2> QED
    BY <1>2, LeastNumber
<1>4. PICK e \in D : n = Cardinality(P(e))
  OBVIOUS
<1>5. ASSUME NEW f \in D \ {e} PROVE Before(e, f)
  <2>1. Before(e, f) \/ Before(f, e)
    BY BeforeTotal
  <2>2. SUFFICES ASSUME Before(f, e) PROVE FALSE
    BY <2>1
  <2>3. P(f) \subseteq P(e)
    BY <2>2, BeforeTransitive
  <2>4. f \in P(e) /\ f \notin P(f)
    BY <2>2, BeforeAsymmetric
  <2>5. Cardinality(P(e)) <= Cardinality(P(f))
    <3> HIDE DEF P
    <3>1. Cardinality(P(f)) \in S
      OBVIOUS
    <3> HIDE DEF S
    <3> QED
      BY <1>3, <1>4, <3>1
  <2>6. IsFiniteSet(P(e)) /\ Cardinality(P(e)) \in Nat /\ Cardinality(P(f)) \in Nat
    BY <1>1
  <2> HIDE DEF P
  <2>7. Cardinality(P(f)) <= Cardinality(P(e))
    BY <2>3, <2>6, FS_Subset
  <2>8. Cardinality(P(f)) = Cardinality(P(e))
    BY <2>5, <2>6, <2>7
  <2> QED
    BY <2>3, <2>4, <2>6, <2>8, FS_Subset
<1> QED
  BY <1>5 DEF IsFirst

(***************************************************************************)
(* compare().                                                              *)
(***************************************************************************)

\* The shape compare() relies on.
IsTrie(m) ==
  /\ m.node \subseteq Routes
  /\ DOMAIN m.item \subseteq Routes
  /\ \A e \in DOMAIN m.item : m.item[e] \in Number

\* A canonical trie has that shape.
LEMMA CanonIsTrie == ASSUME NEW m, NEW K, Canon(m, K) PROVE IsTrie(m)
<1>1. /\ K \in SUBSET Key
      /\ m.node = Shared(K)
      /\ DOMAIN m.item = {Leaf(m, k) : k \in K}
      /\ \A k \in K : m.item[Leaf(m, k)] = k
  BY DEF Canon
<1>2. ASSUME NEW e \in m.node PROVE e \in Routes
  <2>1. PICK p \in K, d \in Depth : e = Entry(p, d)
    BY <1>1, SharedIsEntry
  <2> QED
    BY <1>1, <2>1 DEF Routes
<1>3. ASSUME NEW k \in K PROVE Leaf(m, k) \in Routes /\ k \in Number
  <2>1. LeafDepth(m, k) \in Depth /\ Leaf(m, k) = Entry(k, LeafDepth(m, k))
    BY <1>1, LeafFacts
  <2>2. k \in Key
    BY <1>1
  <2> QED
    BY <2>1, <2>2, StructMapAssumption DEF Routes, Number
<1> QED
  BY <1>1, <1>2, <1>3 DEF IsTrie

\* All that is above entry e holds a node.
OnNodes(m, e) == \A d \in 0..(e[1] - 1) : Entry(e[2], d) \in m.node

\* Where two tries differ, whichever of them comes first.
LEMMA DifferencesFacts ==
  ASSUME NEW l, NEW r, IsTrie(l), IsTrie(r)
  PROVE  /\ Differences(l, r) \in SUBSET Routes
         /\ Differences(l, r) = Differences(r, l)
         /\ \A e \in Routes : e \in Differences(l, r) <=>
              Differ(l, r, e) /\ OnNodes(l, e) /\ OnNodes(r, e)
<1>1. ASSUME NEW e
      PROVE  /\ Differ(l, r, e) <=> Differ(r, l, e)
             /\ Reached(l, r, e) <=> OnNodes(l, e) /\ OnNodes(r, e)
             /\ Reached(r, l, e) <=> OnNodes(l, e) /\ OnNodes(r, e)
             /\ Differ(l, r, e) => e \in l.node \cup r.node \cup DOMAIN l.item \cup DOMAIN r.item
  BY DEF Differ, EntryType, Reached, OnNodes
<1>2. Differences(l, r) \in SUBSET Routes
  BY DEF Differences, IsTrie
<1>3. Differences(l, r) = Differences(r, l)
  BY <1>1 DEF Differences
<1>4. ASSUME NEW e \in Routes
      PROVE  e \in Differences(l, r) <=> Differ(l, r, e) /\ OnNodes(l, e) /\ OnNodes(r, e)
  BY <1>1 DEF Differences
<1> QED
  BY <1>2, <1>3, <1>4

\* What is strictly above an entry on nodes is one of them, and on nodes too.
LEMMA OnNodesAbove ==
  ASSUME NEW m, NEW e \in Routes, OnNodes(m, e), NEW p \in Routes, Above(p, e)
  PROVE  (p # e => p \in m.node) /\ OnNodes(m, p)
<1>1. p[1] \in Nat /\ e[1] \in Nat /\ p[1] <= e[1] /\ p = Entry(e[2], p[1])
      /\ e[2] \subseteq Used(e[1]) /\ e = <<e[1], e[2]>>
  BY RouteFacts DEF Above
<1>2. ASSUME p # e PROVE p \in m.node
  <2>1. p[1] # e[1]
    BY <1>1, <1>2 DEF Entry
  <2>2. p[1] \in 0..(e[1] - 1)
    BY <1>1, <2>1
  <2> QED
    BY <1>1, <2>2 DEF OnNodes
<1>3. ASSUME NEW d \in 0..(p[1] - 1) PROVE Entry(p[2], d) \in m.node
  <2>1. d \in Nat /\ d <= p[1] /\ d \in 0..(e[1] - 1)
    BY <1>1
  <2>2. Used(d) \subseteq Used(p[1])
    BY <1>1, <2>1, UsedGrows
  <2>3. p[2] = e[2] \cap Used(p[1])
    BY <1>1 DEF Entry
  <2>4. Entry(p[2], d) = Entry(e[2], d)
    BY <2>2, <2>3 DEF Entry
  <2> QED
    BY <2>1, <2>4 DEF OnNodes
<1> QED
  BY <1>2, <1>3 DEF OnNodes

\* Two entries in which tries differ are never on one route.
LEMMA DifferencesApart ==
  ASSUME NEW l, NEW r, IsTrie(l), IsTrie(r),
         NEW e \in Differences(l, r), NEW f \in Differences(l, r), Above(e, f)
  PROVE  e = f
<1>1. e \in Routes /\ f \in Routes /\ Differ(l, r, e) /\ OnNodes(l, f) /\ OnNodes(r, f)
  BY DifferencesFacts
<1>2. e # f => e \in l.node /\ e \in r.node
  BY <1>1, OnNodesAbove
<1> QED
  BY <1>1, <1>2 DEF Differ, EntryType

\* compare() returns what it finds in the first of them.
LEMMA CompareFacts ==
  ASSUME NEW l, NEW r, IsTrie(l), IsTrie(r)
  PROVE  /\ Differences(l, r) = {} => Compare(l, r) = 0
         /\ Differences(l, r) # {} =>
              \E e : /\ IsFirst(e, Differences(l, r))
                     /\ Compare(l, r) = IF LessAt(l, r, e) THEN -1 ELSE 1
         /\ \A e : IsFirst(e, Differences(l, r)) =>
              Compare(l, r) = IF LessAt(l, r, e) THEN -1 ELSE 1
<1> DEFINE D == Differences(l, r)
<1>1. D \in SUBSET Routes /\ \A e, f \in D : Above(e, f) => e = f
  BY DifferencesFacts, DifferencesApart
<1>2. D = {} => Compare(l, r) = 0
  BY DEF Compare
<1> DEFINE g == CHOOSE e \in D : \A f \in D \ {e} : Before(e, f)
<1>3. D # {} => Compare(l, r) = IF LessAt(l, r, g) THEN -1 ELSE 1
  BY DEF Compare
<1> HIDE DEF D
<1>4. D # {} => IsFirst(g, D)
  <2>1. SUFFICES ASSUME D # {} PROVE g \in D /\ \A f \in D \ {g} : Before(g, f)
    BY DEF IsFirst
  <2>2. \E e \in D : \A f \in D \ {e} : Before(e, f)
    BY <1>1, <2>1, FirstExists DEF IsFirst
  <2> QED
    BY <2>2
<1> HIDE DEF g
<1>5. ASSUME NEW e, IsFirst(e, D) PROVE e = g
  <2>1. D # {}
    BY <1>5 DEF IsFirst
  <2>2. e \in Routes /\ g \in Routes /\ e \in D /\ g \in D
    BY <1>1, <1>4, <1>5, <2>1 DEF IsFirst
  <2>3. e # g => Before(e, g) /\ Before(g, e)
    BY <1>4, <1>5, <2>1, <2>2 DEF IsFirst
  <2> QED
    BY <2>2, <2>3, BeforeAsymmetric
<1>6. \A e : IsFirst(e, D) => Compare(l, r) = IF LessAt(l, r, e) THEN -1 ELSE 1
  <2>1. ASSUME NEW e, IsFirst(e, D)
        PROVE  Compare(l, r) = IF LessAt(l, r, e) THEN -1 ELSE 1
    <3>1. D # {} /\ e = g
      BY <1>5, <2>1 DEF IsFirst
    <3> QED
      BY <1>3, <3>1
  <2> QED
    BY <2>1
<1>7. D # {} => \E e : /\ IsFirst(e, D)
                       /\ Compare(l, r) = IF LessAt(l, r, e) THEN -1 ELSE 1
  BY <1>3, <1>4
<1> QED
  BY <1>2, <1>6, <1>7 DEF D

\* What is found in one entry of three tries is ordered.
LEMMA LessAtFacts ==
  ASSUME NEW l, NEW r, NEW n, IsTrie(l), IsTrie(r), IsTrie(n), NEW e
  PROVE  /\ LessAt(l, r, e) => Differ(l, r, e) /\ ~ LessAt(r, l, e) /\ e \notin r.node
         /\ Differ(l, r, e) => LessAt(l, r, e) \/ LessAt(r, l, e)
         /\ LessAt(l, r, e) /\ LessAt(r, n, e) => LessAt(l, n, e)
         /\ LessAt(l, r, e) /\ ~ Differ(r, n, e) => LessAt(l, n, e)
         /\ ~ Differ(l, r, e) /\ LessAt(r, n, e) => LessAt(l, n, e)
         /\ Differ(l, n, e) => Differ(l, r, e) \/ Differ(r, n, e)
<1> DEFINE t == EntryType(l, e)
           u == EntryType(r, e)
           v == EntryType(n, e)
<1>1. /\ t \in 0..2 /\ u \in 0..2 /\ v \in 0..2
      /\ e \in r.node => u = 0
      /\ t = 2 => e \in DOMAIN l.item
      /\ u = 2 => e \in DOMAIN r.item
      /\ v = 2 => e \in DOMAIN n.item
  BY DEF EntryType
<1>2. /\ t = 2 => l.item[e] \in Number
      /\ u = 2 => r.item[e] \in Number
      /\ v = 2 => n.item[e] \in Number
  BY <1>1 DEF IsTrie
<1>3. /\ LessAt(l, r, e) <=> t < u \/ (t = 2 /\ u = 2 /\ Less(l.item[e], r.item[e]))
      /\ LessAt(r, l, e) <=> u < t \/ (u = 2 /\ t = 2 /\ Less(r.item[e], l.item[e]))
      /\ LessAt(r, n, e) <=> u < v \/ (u = 2 /\ v = 2 /\ Less(r.item[e], n.item[e]))
      /\ LessAt(l, n, e) <=> t < v \/ (t = 2 /\ v = 2 /\ Less(l.item[e], n.item[e]))
  BY DEF LessAt
<1>4. /\ Differ(l, r, e) <=> t # u \/ (t = 2 /\ l.item[e] # r.item[e])
      /\ Differ(r, n, e) <=> u # v \/ (u = 2 /\ r.item[e] # n.item[e])
      /\ Differ(l, n, e) <=> t # v \/ (t = 2 /\ l.item[e] # n.item[e])
  BY DEF Differ
<1>5. /\ t = 2 /\ u = 2 /\ Less(l.item[e], r.item[e])
           => ~ Less(r.item[e], l.item[e]) /\ l.item[e] # r.item[e]
      /\ t = 2 /\ u = 2 /\ l.item[e] # r.item[e]
           => Less(l.item[e], r.item[e]) \/ Less(r.item[e], l.item[e])
      /\ t = 2 /\ u = 2 /\ v = 2 /\ Less(l.item[e], r.item[e]) /\ Less(r.item[e], n.item[e])
           => Less(l.item[e], n.item[e])
  BY <1>2, LessAsymmetric, LessTotal, LessTransitive
<1> HIDE DEF t, u, v
<1>6. LessAt(l, r, e) => Differ(l, r, e) /\ ~ LessAt(r, l, e) /\ e \notin r.node
  BY <1>1, <1>3, <1>4, <1>5
<1>7. Differ(l, r, e) => LessAt(l, r, e) \/ LessAt(r, l, e)
  BY <1>1, <1>3, <1>4, <1>5
<1>8. LessAt(l, r, e) /\ LessAt(r, n, e) => LessAt(l, n, e)
  BY <1>1, <1>3, <1>5
<1>9. LessAt(l, r, e) /\ ~ Differ(r, n, e) => LessAt(l, n, e)
  BY <1>1, <1>3, <1>4
<1>10. ~ Differ(l, r, e) /\ LessAt(r, n, e) => LessAt(l, n, e)
  BY <1>1, <1>3, <1>4
<1>11. Differ(l, n, e) => Differ(l, r, e) \/ Differ(r, n, e)
  BY <1>4
<1> QED
  BY <1>6, <1>7, <1>8, <1>9, <1>10, <1>11

\* Where a route leaves the nodes of n, n differs from the tries that go on.
LEMMA OffNodes ==
  ASSUME NEW n, IsTrie(n), NEW e \in Routes, ~ OnNodes(n, e)
  PROVE  \E p \in Routes :
           /\ Above(p, e)
           /\ p # e
           /\ \A m : IsTrie(m) /\ OnNodes(m, e) =>
                       p \in Differences(m, n) /\ p \in Differences(n, m)
<1>1. e[1] \in Nat
  BY RouteFacts
<1> DEFINE S == {d \in 0..(e[1] - 1) : Entry(e[2], d) \notin n.node}
<1>2. S \in SUBSET Nat /\ S # {}
  BY DEF OnNodes
<1>3. PICK d \in S : \A x \in S : d <= x
  <2> HIDE DEF S
  <2> QED
    BY <1>2, LeastNumber
<1>4. d \in Nat /\ d <= e[1] /\ d # e[1] /\ Entry(e[2], d) \notin n.node
  BY <1>1
<1> DEFINE p == Entry(e[2], d)
<1>5. p \in Routes /\ p[1] = d
  BY <1>4, RouteFacts, EntryDepth
<1>6. Above(p, e) /\ p # e
  BY <1>4, <1>5 DEF Above
<1>7. OnNodes(n, p)
  <2>1. ASSUME NEW c \in 0..(d - 1) PROVE Entry(p[2], c) \in n.node
    <3>1. c \in Nat /\ c <= d /\ c \in 0..(e[1] - 1) /\ ~ (d <= c)
      BY <1>1, <1>4
    <3>2. Entry(e[2], c) \in n.node
      BY <1>3, <3>1
    <3>3. Used(c) \subseteq Used(d)
      BY <1>4, <3>1, UsedGrows
    <3>4. p[2] = e[2] \cap Used(d)
      BY DEF Entry
    <3>5. Entry(p[2], c) = Entry(e[2], c)
      BY <3>3, <3>4 DEF Entry
    <3> QED
      BY <3>2, <3>5
  <2> QED
    BY <1>5, <2>1 DEF OnNodes
<1> HIDE DEF p, S
<1>8. p \notin n.node
  BY <1>4 DEF p
<1>9. ASSUME NEW m, IsTrie(m), OnNodes(m, e)
      PROVE  p \in Differences(m, n) /\ p \in Differences(n, m)
  <2>1. p \in m.node /\ OnNodes(m, p)
    BY <1>5, <1>6, <1>9, OnNodesAbove
  <2>2. Differ(m, n, p)
    BY <1>8, <2>1 DEF Differ, EntryType
  <2> QED
    BY <1>5, <1>7, <1>9, <2>1, <2>2, DifferencesFacts
<1> QED
  BY <1>5, <1>6, <1>9

\* An entry where l is less than n, before all others where l or n differs from
\* r, is the first where l differs from n.
LEMMA FirstThrough ==
  ASSUME NEW l, NEW r, NEW n, IsTrie(l), IsTrie(r), IsTrie(n),
         NEW e \in Routes, OnNodes(l, e), OnNodes(n, e), LessAt(l, n, e),
         \A f \in Differences(l, r) \cup Differences(r, n) : Before(e, f) \/ Above(e, f)
  PROVE  Compare(l, n) = -1
<1>1. e \in Differences(l, n)
  BY LessAtFacts, DifferencesFacts
<1>2. ASSUME NEW f \in Differences(l, n), f # e PROVE Before(e, f)
  <2>1. /\ f \in Routes /\ Differ(l, n, f) /\ OnNodes(l, f) /\ OnNodes(n, f)
        /\ ~ Above(e, f)
    BY <1>1, <1>2, DifferencesFacts, DifferencesApart
  <2>2. CASE OnNodes(r, f)
    <3>1. Differ(l, r, f) \/ Differ(r, n, f)
      BY <2>1, LessAtFacts
    <3>2. f \in Differences(l, r) \cup Differences(r, n)
      BY <2>1, <2>2, <3>1, DifferencesFacts
    <3> QED
      BY <2>1, <3>2
  <2>3. CASE ~ OnNodes(r, f)
    <3>1. PICK p \in Routes : Above(p, f) /\ p \in Differences(l, r)
      BY <2>1, <2>3, OffNodes
    <3>2. Before(e, p) \/ Above(e, p)
      BY <3>1
    <3>3. ~ Above(e, p)
      BY <2>1, <3>1, AboveTransitive
    <3> QED
      BY <2>1, <3>1, <3>2, <3>3, BeforeBelow
  <2> QED
    BY <2>2, <2>3
<1>3. IsFirst(e, Differences(l, n))
  BY <1>1, <1>2 DEF IsFirst
<1> QED
  BY <1>3, CompareFacts

\* An entry is on its own route.
LEMMA AboveItself == ASSUME NEW e \in Routes PROVE Above(e, e)
<1>1. e[2] \cap Used(e[1]) = e[2] /\ e = <<e[1], e[2]>> /\ e[1] \in Nat
  BY RouteFacts
<1> QED
  BY <1>1 DEF Above, Entry

\* compare() is transitive: the earlier of the first differences of l and r and
\* of r and n, or the one above the other, is the first of l and n.
LEMMA CompareTransitive ==
  ASSUME NEW l, NEW r, NEW n, IsTrie(l), IsTrie(r), IsTrie(n),
         Compare(l, r) < 0, Compare(r, n) < 0
  PROVE  Compare(l, n) < 0
<1>1. PICK e : IsFirst(e, Differences(l, r)) /\ LessAt(l, r, e)
  BY CompareFacts
<1>2. PICK g : IsFirst(g, Differences(r, n)) /\ LessAt(r, n, g)
  BY CompareFacts
<1>3. /\ e \in Routes /\ OnNodes(l, e) /\ OnNodes(r, e)
      /\ g \in Routes /\ OnNodes(r, g) /\ OnNodes(n, g)
      /\ Differences(l, r) \subseteq Routes /\ Differences(r, n) \subseteq Routes
  BY <1>1, <1>2, DifferencesFacts DEF IsFirst
<1>4. /\ \A f \in Differences(l, r) : f = e \/ Before(e, f)
      /\ \A f \in Differences(r, n) : f = g \/ Before(g, f)
  BY <1>1, <1>2 DEF IsFirst
<1>5. CASE e = g
  <2>1. LessAt(l, n, e)
    BY <1>1, <1>2, <1>5, LessAtFacts
  <2>2. \A f \in Differences(l, r) \cup Differences(r, n) : Before(e, f) \/ Above(e, f)
    BY <1>3, <1>4, <1>5, AboveItself
  <2>3. Compare(l, n) = -1
    BY <1>3, <1>5, <2>1, <2>2, FirstThrough
  <2> QED
    BY <2>3
<1>6. CASE Before(e, g)
  <2>1. \A f \in Differences(r, n) : Before(e, f)
    BY <1>3, <1>4, <1>6, BeforeTransitive
  <2>2. OnNodes(n, e)
    <3>1. SUFFICES ASSUME ~ OnNodes(n, e) PROVE FALSE
      OBVIOUS
    <3>2. PICK p \in Routes : Above(p, e) /\ p \in Differences(r, n)
      BY <1>3, <3>1, OffNodes
    <3> QED
      BY <1>3, <2>1, <3>2, BeforeIsApart
  <2>3. ~ Differ(r, n, e)
    <3>1. Differ(r, n, e) => e \in Differences(r, n)
      BY <1>3, <2>2, DifferencesFacts
    <3> QED
      BY <1>3, <2>1, <3>1, BeforeAsymmetric
  <2>4. LessAt(l, n, e)
    BY <1>1, <2>3, LessAtFacts
  <2>5. \A f \in Differences(l, r) \cup Differences(r, n) : Before(e, f) \/ Above(e, f)
    BY <1>3, <1>4, <2>1, AboveItself
  <2>6. Compare(l, n) = -1
    BY <1>3, <2>2, <2>4, <2>5, FirstThrough
  <2> QED
    BY <2>6
<1>7. CASE Before(g, e)
  <2>1. \A f \in Differences(l, r) : Before(g, f)
    BY <1>3, <1>4, <1>7, BeforeTransitive
  <2>2. OnNodes(l, g)
    <3>1. SUFFICES ASSUME ~ OnNodes(l, g) PROVE FALSE
      OBVIOUS
    <3>2. PICK p \in Routes : Above(p, g) /\ p \in Differences(l, r)
      BY <1>3, <3>1, OffNodes
    <3> QED
      BY <1>3, <2>1, <3>2, BeforeIsApart
  <2>3. ~ Differ(l, r, g)
    <3>1. Differ(l, r, g) => g \in Differences(l, r)
      BY <1>3, <2>2, DifferencesFacts
    <3> QED
      BY <1>3, <2>1, <3>1, BeforeAsymmetric
  <2>4. LessAt(l, n, g)
    BY <1>2, <2>3, LessAtFacts
  <2>5. \A f \in Differences(l, r) \cup Differences(r, n) : Before(g, f) \/ Above(g, f)
    BY <1>3, <1>4, <2>1, AboveItself
  <2>6. Compare(l, n) = -1
    BY <1>3, <2>2, <2>4, <2>5, FirstThrough
  <2> QED
    BY <2>6
<1>8. CASE Above(g, e) /\ g # e
  <2>1. g \in l.node /\ g \in r.node /\ OnNodes(l, g)
    BY <1>3, <1>8, OnNodesAbove
  <2>2. ~ Differ(l, r, g)
    BY <2>1 DEF Differ, EntryType
  <2>3. LessAt(l, n, g)
    BY <1>2, <2>2, LessAtFacts
  <2>4. \A f \in Differences(l, r) \cup Differences(r, n) : Before(g, f) \/ Above(g, f)
    BY <1>3, <1>4, <1>8, AboveItself, BeforeAbove
  <2>5. Compare(l, n) = -1
    BY <1>3, <2>1, <2>3, <2>4, FirstThrough
  <2> QED
    BY <2>5
<1>9. ~ (Above(e, g) /\ e # g)
  <2>1. Above(e, g) /\ e # g => e \in r.node
    BY <1>3, OnNodesAbove
  <2>2. e \notin r.node
    BY <1>1, LessAtFacts
  <2> QED
    BY <2>1, <2>2
<1> QED
  BY <1>3, <1>5, <1>6, <1>7, <1>8, <1>9, BeforeTotal

\* Results and their opposites.
LEMMA Opposites ==
  ASSUME NEW x, NEW y,
         \/ x = 0 /\ y = 0
         \/ x = -1 /\ y = 1
         \/ x = 1 /\ y = -1
  PROVE  x \in {-1, 0, 1} /\ x = -y
OBVIOUS

\* compare() is antisymmetric.
LEMMA CompareAntisymmetric ==
  ASSUME NEW l, NEW r, IsTrie(l), IsTrie(r)
  PROVE  Compare(l, r) \in {-1, 0, 1} /\ Compare(l, r) = -Compare(r, l)
<1>1. Differences(l, r) = Differences(r, l)
  BY DifferencesFacts
<1>2. CASE Differences(l, r) = {}
  <2>1. Compare(l, r) = 0 /\ Compare(r, l) = 0
    BY <1>1, <1>2, CompareFacts
  <2> QED
    BY <2>1, Opposites
<1>3. CASE Differences(l, r) # {}
  <2>1. PICK e : /\ IsFirst(e, Differences(l, r))
                 /\ Compare(l, r) = IF LessAt(l, r, e) THEN -1 ELSE 1
    BY <1>3, CompareFacts
  <2>2. Compare(r, l) = IF LessAt(r, l, e) THEN -1 ELSE 1
    BY <1>1, <2>1, CompareFacts
  <2>3. Differ(l, r, e)
    BY <2>1, DifferencesFacts DEF IsFirst
  <2>4. (LessAt(l, r, e) /\ ~ LessAt(r, l, e)) \/ (~ LessAt(l, r, e) /\ LessAt(r, l, e))
    BY <2>3, LessAtFacts
  <2>5. CASE LessAt(l, r, e) /\ ~ LessAt(r, l, e)
    <3>1. Compare(l, r) = -1 /\ Compare(r, l) = 1
      BY <2>1, <2>2, <2>5
    <3> QED
      BY <3>1, Opposites
  <2>6. CASE ~ LessAt(l, r, e) /\ LessAt(r, l, e)
    <3>1. Compare(l, r) = 1 /\ Compare(r, l) = -1
      BY <2>1, <2>2, <2>6
    <3> QED
      BY <3>1, Opposites
  <2> QED
    BY <2>4, <2>5, <2>6
<1> QED
  BY <1>2, <1>3

\* Where one of two tries has a key the other does not, they differ.
LEMMA KeyTellsApart ==
  ASSUME NEW l, NEW L, NEW r, NEW R, Canon(l, L), Canon(r, R), NEW k \in L, k \notin R
  PROVE  Differences(l, r) # {}
<1>1. /\ L \in SUBSET Key /\ R \in SUBSET Key /\ k \in Key
      /\ l.node = Shared(L) /\ r.node = Shared(R)
      /\ Leaf(l, k) \in DOMAIN l.item /\ l.item[Leaf(l, k)] = k
      /\ \A e \in DOMAIN r.item : r.item[e] \in R
  BY DEF Canon
<1> DEFINE x == LeafDepth(l, k)
           y == LeafDepth(r, k)
<1>2. /\ x \in Depth /\ x \in Nat /\ Leaf(l, k) = Entry(k, x)
      /\ \A e \in Depth : Entry(k, e) \in l.node <=> e < x
      /\ y \in Depth /\ y \in Nat
      /\ \A e \in Depth : Entry(k, e) \in r.node <=> e < y
  BY <1>1, LeafFacts
<1> HIDE DEF x, y
<1>3. PICK d \in Depth : d \in Nat /\ d <= x /\ d <= y /\ (d = x \/ d = y)
  <2>1. CASE x <= y
    BY <1>2, <2>1
  <2>2. CASE y <= x
    BY <1>2, <2>2
  <2> QED
    BY <1>2, <2>1, <2>2
<1> DEFINE e == Entry(k, d)
<1>4. e \in Routes /\ e[1] = d
  BY <1>1, EntryDepth DEF Routes
<1>5. OnNodes(l, e) /\ OnNodes(r, e)
  <2>1. ASSUME NEW c \in 0..(d - 1)
        PROVE  Entry(e[2], c) \in l.node /\ Entry(e[2], c) \in r.node
    <3>1. c \in Nat /\ c <= d /\ c < x /\ c < y
      BY <1>2, <1>3
    <3>2. c \in Depth
      BY <1>3, <3>1, DepthIsNat
    <3>3. Used(c) \subseteq Used(d)
      BY <1>3, <3>1, UsedGrows
    <3>4. Entry(e[2], c) = Entry(k, c)
      BY <3>3 DEF Entry
    <3> QED
      BY <1>2, <3>1, <3>2, <3>4
  <2> QED
    BY <1>4, <2>1 DEF OnNodes
<1>6. Differ(l, r, e)
  <2>1. CASE d < y
    <3>1. d = x /\ e \notin l.node /\ e \in r.node
      BY <1>2, <1>3, <2>1
    <3> QED
      BY <3>1 DEF Differ, EntryType
  <2>2. CASE d = y /\ d < x
    <3>1. e \in l.node /\ e \notin r.node
      BY <1>2, <1>3, <2>2
    <3> QED
      BY <3>1 DEF Differ, EntryType
  <2>3. CASE d = y /\ d = x
    <3>1. e \notin l.node /\ e \notin r.node /\ e \in DOMAIN l.item /\ l.item[e] = k
      BY <1>1, <1>2, <1>3, <2>3
    <3>2. e \in DOMAIN r.item => r.item[e] # k
      BY <1>1
    <3> QED
      BY <3>1, <3>2 DEF Differ, EntryType
  <2> QED
    BY <1>2, <1>3, <2>1, <2>2, <2>3
<1>7. e \in Differences(l, r)
  BY <1>4, <1>5, <1>6, CanonIsTrie, DifferencesFacts
<1> QED
  BY <1>7

\* compare() takes tries to be equal that hold the same keys.
LEMMA CompareZero ==
  ASSUME NEW l, NEW L, NEW r, NEW R, Canon(l, L), Canon(r, R)
  PROVE  Compare(l, r) = 0 <=> L = R
<1>1. IsTrie(l) /\ IsTrie(r)
  BY CanonIsTrie
<1>2. Compare(l, r) = 0 <=> Differences(l, r) = {}
  <2>1. Differences(l, r) # {} => Compare(l, r) \in {-1, 1}
    BY <1>1, CompareFacts
  <2> QED
    BY <1>1, <2>1, CompareFacts
<1>3. ASSUME L # R PROVE Differences(l, r) # {}
  <2>1. (\E k \in L : k \notin R) \/ (\E k \in R : k \notin L)
    BY <1>3
  <2>2. Differences(l, r) = Differences(r, l)
    BY <1>1, DifferencesFacts
  <2> QED
    BY <2>1, <2>2, KeyTellsApart
<1>4. ASSUME L = R PROVE Differences(l, r) = {}
  <2>1. l.node = r.node
    BY <1>4 DEF Canon
  <2>2. \A k \in L : Leaf(l, k) = Leaf(r, k)
    BY <2>1, LeafOfNodes
  <2>3. DOMAIN l.item = DOMAIN r.item /\ \A e \in DOMAIN l.item : l.item[e] = r.item[e]
    BY <1>4, <2>2 DEF Canon
  <2> QED
    BY <2>1, <2>3 DEF Differences, Differ, EntryType
<1> QED
  BY <1>2, <1>3, <1>4
==============================================================================
