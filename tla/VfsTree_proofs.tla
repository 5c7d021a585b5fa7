--------------------------- MODULE VfsTree_proofs ---------------------------
(***************************************************************************)
(* The tree that build_tree makes of a listing of any length, with paths   *)
(* of any depth, in any order, with duplicates and with orphans.           *)
(***************************************************************************)
EXTENDS VfsTree, FiniteSetTheorems, SequenceTheorems, NaturalsInduction,
        WellFoundedInduction, TLAPS

Entry == [path : Seq(Names), kind : {"Dir", "File"}]

LEMMA ListingFacts ==
    ASSUME entries \in Listings
    PROVE  /\ entries \in Seq(Entry)
           /\ Len(entries) \in Nat
           /\ \A i \in 1..Len(entries) : /\ Path(i) \in Seq(Names)
                                         /\ Path(i) # << >>
<1>1. entries \in Seq(Entry)
  BY ListingsAreOfPaths DEF ListingsAreOfPaths, Entry
<1>2. Len(entries) \in Nat /\ DOMAIN entries = 1..Len(entries)
  BY <1>1, LenProperties
<1>3. ASSUME NEW i \in 1..Len(entries)
      PROVE  Path(i) \in Seq(Names) /\ Path(i) # << >>
  <2>1. entries[i] \in Entry
    BY <1>1, <1>2, ElementOfSeq
  <2>2. entries[i].path # << >>
    BY <1>2, ListingsAreOfPaths DEF ListingsAreOfPaths
  <2>3. QED
    BY <2>1, <2>2 DEF Path, Entry
<1>4. QED
  BY <1>1, <1>2, <1>3

(***************************************************************************)
(* The map is exact: its paths are those of the nodes made so far, and     *)
(* each is mapped to a node of that path.  While it grows, nothing is      *)
(* attached.                                                               *)
(***************************************************************************)
MapIsExact ==
    /\ DOMAIN by_path = {Path(i) : i \in 1..created}
    /\ \A p \in DOMAIN by_path : by_path[p] \in 1..created /\ Path(by_path[p]) = p

Inv ==
    /\ entries \in Listings
    /\ created \in 0..Len(entries)
    /\ wired \in 0..created
    /\ wired > 0 => created = Len(entries)
    /\ MapIsExact
    /\ children \in [0..created -> Seq(1..wired)]
    /\ ParentsAreTrue
    /\ ListedOnce

LEMMA InitInv == Init => Inv
<1> SUFFICES ASSUME Init PROVE Inv
  OBVIOUS
<1>1. entries \in Listings /\ created = 0 /\ wired = 0 /\ Len(entries) \in Nat
  BY ListingFacts DEF Init
<1>2. by_path = [p \in {} |-> 0]
  BY DEF Init
<1>3. MapIsExact
  <2>1. DOMAIN by_path = {}
    BY <1>2
  <2>2. 1..created = {}
    BY <1>1
  <2>3. QED
    BY <2>1, <2>2 DEF MapIsExact
<1>4. children = [n \in {0} |-> << >>]
  BY DEF Init
<1>5. << >> \in Seq(1..wired)
  BY EmptySeq
<1>6. children \in [0..created -> Seq(1..wired)]
  BY <1>1, <1>4, <1>5
<1>7. ParentsAreTrue /\ ListedOnce
  BY <1>1 DEF ParentsAreTrue, ListedOnce
<1>8. QED
  BY <1>1, <1>3, <1>6, <1>7 DEF Inv

\* The first loop.
LEMMA AddNodeStep ==
    ASSUME Inv, AddNode
    PROVE  Inv'
<1>1. /\ entries \in Listings /\ entries' = entries /\ Len(entries) \in Nat
      /\ created < Len(entries) /\ created \in Nat
      /\ created' = created + 1 /\ wired' = wired /\ wired = 0
  BY ListingFacts DEF Inv, AddNode
<1>2. created' \in 0..Len(entries) /\ wired' \in 0..created'
  BY <1>1
<1>3. MapIsExact'
  <2> DEFINE id == created + 1
  <2>1. by_path' = [p \in DOMAIN by_path \cup {Path(id)} |->
                      IF p = Path(id) THEN id ELSE by_path[p]]
    BY DEF AddNode
  <2>2. DOMAIN by_path' = DOMAIN by_path \cup {Path(id)}
    BY <2>1
  <2>3. 1..created' = (1..created) \cup {id}
    BY <1>1
  <2>4. DOMAIN by_path = {Path(i) : i \in 1..created}
    BY DEF Inv, MapIsExact
  <2>5. DOMAIN by_path' = {Path(i) : i \in 1..created'}
    BY <2>2, <2>3, <2>4
  <2>6. ASSUME NEW p \in DOMAIN by_path'
        PROVE  by_path'[p] \in 1..created' /\ Path(by_path'[p]) = p
    <3>1. CASE p = Path(id)
      <4>1. by_path'[p] = id
        BY <2>1, <2>2, <3>1
      <4>2. QED
        BY <4>1, <3>1, <2>3
    <3>2. CASE p # Path(id)
      <4>1. p \in DOMAIN by_path /\ by_path'[p] = by_path[p]
        BY <2>1, <2>2, <3>2
      <4>2. by_path[p] \in 1..created /\ Path(by_path[p]) = p
        BY <4>1 DEF Inv, MapIsExact
      <4>3. QED
        BY <4>1, <4>2, <2>3
    <3>3. QED
      BY <3>1, <3>2
  <2>7. QED
    BY <1>1, <2>5, <2>6 DEF MapIsExact, Path
<1>4. children' \in [0..created' -> Seq(1..wired')]
  <2>1. children' = [n \in 0..created' |-> IF n = created' THEN << >> ELSE children[n]]
    BY DEF AddNode
  <2>2. << >> \in Seq(1..wired')
    BY EmptySeq
  <2>3. \A n \in 0..created' : n # created' => n \in 0..created
    BY <1>1
  <2>4. children \in [0..created -> Seq(1..wired)]
    BY DEF Inv
  <2>5. \A n \in 0..created' : (IF n = created' THEN << >> ELSE children[n]) \in Seq(1..wired')
    BY <1>1, <2>2, <2>3, <2>4
  <2>6. QED
    BY <2>1, <2>5
<1>5. ParentsAreTrue' /\ ListedOnce'
  <2>1. 1..wired' = {}
    BY <1>1
  <2>2. QED
    BY <2>1 DEF ParentsAreTrue, ListedOnce
<1>6. QED
  BY <1>1, <1>2, <1>3, <1>4, <1>5 DEF Inv

-----------------------------------------------------------------------------
\* A node's parent is a node of its parent's path, or there is none.
LEMMA ParentIsTrue ==
    ASSUME Inv, created = Len(entries), NEW child \in 1..Len(entries)
    PROVE  /\ parent_id(child) \in 0..created
           /\ IF parent_id(child) = 0 THEN Front(Path(child)) \notin Paths
                                      ELSE Path(parent_id(child)) = Front(Path(child))
<1> DEFINE parent_path == Front(Path(child))
<1>1. /\ entries \in Seq(Entry) /\ Len(entries) \in Nat
      /\ \A i \in 1..Len(entries) : Path(i) \in Seq(Names) /\ Path(i) # << >>
  BY ListingFacts DEF Inv
<1>2. Paths = DOMAIN by_path
  <2>1. DOMAIN entries = 1..created
    BY <1>1, LenProperties
  <2>2. QED
    BY <2>1 DEF Paths, Inv, MapIsExact
<1>3. CASE Len(Path(child)) > 1 /\ parent_path \in DOMAIN by_path
  <2>1. parent_id(child) = by_path[parent_path]
    BY <1>3 DEF parent_id
  <2>2. by_path[parent_path] \in 1..created /\ Path(by_path[parent_path]) = parent_path
    BY <1>3 DEF Inv, MapIsExact
  <2>3. by_path[parent_path] # 0 /\ by_path[parent_path] \in 0..created
    BY <2>2
  <2>4. QED
    BY <2>1, <2>2, <2>3
<1>4. CASE ~(Len(Path(child)) > 1 /\ parent_path \in DOMAIN by_path)
  <2>1. parent_id(child) = 0
    BY <1>4 DEF parent_id
  <2>2. parent_path \notin Paths
    <3>1. CASE parent_path \notin DOMAIN by_path
      BY <1>2, <3>1
    <3>2. CASE ~(Len(Path(child)) > 1)
      <4>1. Path(child) \in Seq(Names) /\ Len(Path(child)) \in Nat /\ Len(Path(child)) <= 1
        BY <1>1, <3>2, LenProperties
      <4>2. parent_path = << >>
        <5>1. 1..(Len(Path(child)) - 1) = {}
          BY <4>1
        <5>2. QED
          BY <4>1, <5>1 DEF Front
      <4>3. ASSUME << >> \in Paths
            PROVE  FALSE
        <5>1. PICK i \in 1..Len(entries) : Path(i) = << >>
          BY <4>3, <1>1, LenProperties DEF Paths
        <5>2. QED
          BY <5>1, <1>1
      <4>4. QED
        BY <4>2, <4>3
    <3>3. QED
      BY <3>1, <3>2, <1>4
  <2>3. 0 \in 0..created
    BY DEF Inv
  <2>4. QED
    BY <2>1, <2>2, <2>3
<1>5. QED
  BY <1>3, <1>4

LEMMA SeqOfMore ==
    ASSUME NEW S, NEW T, S \subseteq T, NEW s \in Seq(S)
    PROVE  s \in Seq(T)
<1>1. Len(s) \in Nat /\ s \in [1..Len(s) -> S]
  BY LenProperties
<1>2. s \in [1..Len(s) -> T]
  BY <1>1
<1>3. QED
  BY <1>1, <1>2, SeqDef

\* What attaching a node leaves and adds, per list of children.
LEMMA Attached ==
    ASSUME Inv, Wire
    PROVE  LET child == wired + 1
               parent == parent_id(child) IN
           /\ child \in 1..Len(entries)
           /\ parent \in DOMAIN children
           /\ DOMAIN children' = DOMAIN children
           /\ Len(children[parent]) \in Nat
           /\ DOMAIN children'[parent] = 1..(Len(children[parent]) + 1)
           /\ DOMAIN children[parent] = 1..Len(children[parent])
           /\ children'[parent][Len(children[parent]) + 1] = child
           /\ \A j \in DOMAIN children[parent] : children'[parent][j] = children[parent][j]
           /\ \A n \in DOMAIN children : n # parent => children'[n] = children[n]
           /\ children'[parent] \in Seq(1..child)
           /\ \A n \in DOMAIN children : \A j \in DOMAIN children[n] : children[n][j] \in 1..wired
<1> DEFINE child == wired + 1
           parent == parent_id(child)
<1>1. /\ created = Len(entries) /\ Len(entries) \in Nat /\ wired \in Nat
      /\ wired < Len(entries) /\ child \in 1..Len(entries)
  BY ListingFacts DEF Inv, Wire
<1>2. children \in [0..created -> Seq(1..wired)] /\ DOMAIN children = 0..created
  BY DEF Inv
<1>3. parent \in DOMAIN children
  BY <1>1, <1>2, ParentIsTrue
<1>4. children' = [children EXCEPT ![parent] = Append(@, child)]
  BY DEF Wire
<1> HIDE DEF parent
<1>5. children'[parent] = Append(children[parent], child)
  BY <1>3, <1>4
<1>6. DOMAIN children' = DOMAIN children
      /\ \A n \in DOMAIN children : n # parent => children'[n] = children[n]
  BY <1>4
<1>7. \A n \in DOMAIN children : children[n] \in Seq(1..wired)
  BY <1>2
<1>8. 1..wired \subseteq 1..child /\ child \in 1..child
  BY <1>1
<1>9. children[parent] \in Seq(1..child)
  <2>1. children[parent] \in Seq(1..wired)
    BY <1>3, <1>7
  <2>2. QED
    BY <2>1, <1>8, SeqOfMore
<1>10. /\ Len(children[parent]) \in Nat
       /\ DOMAIN children[parent] = 1..Len(children[parent])
       /\ children'[parent] \in Seq(1..child)
       /\ Len(children'[parent]) = Len(children[parent]) + 1
       /\ children'[parent][Len(children[parent]) + 1] = child
       /\ \A j \in 1..Len(children[parent]) : children'[parent][j] = children[parent][j]
  BY <1>5, <1>8, <1>9, AppendProperties, LenProperties
<1>11. DOMAIN children'[parent] = 1..(Len(children[parent]) + 1)
  BY <1>10, LenProperties
<1>12. \A n \in DOMAIN children : \A j \in DOMAIN children[n] : children[n][j] \in 1..wired
  BY <1>7, LenProperties, ElementOfSeq
<1>13. QED
  BY <1>1, <1>3, <1>6, <1>10, <1>11, <1>12 DEF parent

\* The second loop.
LEMMA WireStep ==
    ASSUME Inv, Wire
    PROVE  Inv'
<1> DEFINE child == wired + 1
           parent == parent_id(child)
           last == Len(children[parent]) + 1
<1>1. /\ created = Len(entries) /\ Len(entries) \in Nat /\ wired \in Nat
      /\ wired < Len(entries) /\ entries \in Listings
  BY ListingFacts DEF Inv, Wire
<1>2. /\ entries' = entries /\ created' = created /\ by_path' = by_path
      /\ wired' = child
  BY DEF Wire
<1>3. /\ parent \in DOMAIN children
      /\ DOMAIN children' = DOMAIN children
      /\ last \in Nat
      /\ DOMAIN children'[parent] = DOMAIN children[parent] \cup {last}
      /\ last \notin DOMAIN children[parent]
      /\ children'[parent][last] = child
      /\ \A j \in DOMAIN children[parent] : children'[parent][j] = children[parent][j]
      /\ \A n \in DOMAIN children : n # parent => children'[n] = children[n]
      /\ children'[parent] \in Seq(1..child)
      /\ \A n \in DOMAIN children : \A j \in DOMAIN children[n] : children[n][j] \in 1..wired
  BY Attached
<1>4. 1..child = (1..wired) \cup {child} /\ child \notin 1..wired
  BY <1>1
<1>5. MapIsExact'
  BY <1>2 DEF Inv, MapIsExact, Path
<1>6. IF parent = 0 THEN Front(Path(child)) \notin Paths
                   ELSE Path(parent) = Front(Path(child))
  <2>1. child \in 1..Len(entries)
    BY <1>1
  <2>2. QED
    BY <1>1, <2>1, ParentIsTrue
<1>7. children \in [0..created -> Seq(1..wired)] /\ DOMAIN children = 0..created
  BY DEF Inv
<1> HIDE DEF parent, last
<1>8. children' \in [0..created' -> Seq(1..wired')]
  <2>1. \A n \in DOMAIN children : children[n] \in Seq(1..child)
    <3>1. 1..wired \subseteq 1..child
      BY <1>4
    <3>2. \A n \in DOMAIN children : children[n] \in Seq(1..wired)
      BY <1>7
    <3>3. QED
      BY <3>1, <3>2, SeqOfMore
  <2>2. \A n \in 0..created : children'[n] \in Seq(1..child)
    BY <1>3, <1>7, <2>1
  <2>3. children' = [n \in DOMAIN children |-> children'[n]]
    <3>1. children' = [children EXCEPT ![parent_id(wired + 1)] = Append(@, wired + 1)]
      BY DEF Wire
    <3>2. QED
      BY <3>1
  <2>4. QED
    BY <1>2, <1>7, <2>2, <2>3
\* Where a node stands now: where it stood, or, the new one, last.
<1>9. \A n \in DOMAIN children : \A j \in DOMAIN children'[n] :
          \/ j \in DOMAIN children[n] /\ children'[n][j] = children[n][j]
          \/ n = parent /\ j = last /\ children'[n][j] = child
  BY <1>3
<1>10. ParentsAreTrue'
  <2>1. SUFFICES ASSUME NEW n \in DOMAIN children, NEW c \in 1..wired',
                        c \in Range(children'[n])
                 PROVE  IF n = 0 THEN Front(Path(c)) \notin Paths
                                 ELSE Path(n) = Front(Path(c))
    BY <1>2, <1>3 DEF ParentsAreTrue, Path, Paths
  <2>2. PICK j \in DOMAIN children'[n] : children'[n][j] = c
    BY <2>1 DEF Range
  <2>3. CASE j \in DOMAIN children[n] /\ children'[n][j] = children[n][j]
    <3>1. c \in 1..wired /\ c \in Range(children[n])
      BY <1>3, <2>2, <2>3 DEF Range
    <3>2. QED
      BY <3>1 DEF Inv, ParentsAreTrue
  <2>4. CASE n = parent /\ j = last /\ children'[n][j] = child
    BY <1>6, <2>2, <2>4
  <2>5. QED
    BY <1>9, <2>2, <2>3, <2>4
<1>11. ListedOnce'
  <2>1. SUFFICES ASSUME NEW c \in 1..wired'
                 PROVE  \E n \in DOMAIN children : \E i \in DOMAIN children'[n] :
                          /\ children'[n][i] = c
                          /\ \A m \in DOMAIN children : \A j \in DOMAIN children'[m] :
                                children'[m][j] = c => m = n /\ j = i
    BY <1>3 DEF ListedOnce
  <2>2. CASE c = child
    <3>1. last \in DOMAIN children'[parent] /\ children'[parent][last] = c
      BY <1>3, <2>2
    <3>2. \A m \in DOMAIN children : \A j \in DOMAIN children'[m] :
              children'[m][j] = c => m = parent /\ j = last
      BY <1>3, <1>4, <1>9, <2>2
    <3>3. QED
      BY <1>3, <3>1, <3>2
  <2>3. CASE c \in 1..wired
    <3>1. PICK n \in DOMAIN children : \E i \in DOMAIN children[n] :
              /\ children[n][i] = c
              /\ \A m \in DOMAIN children : \A j \in DOMAIN children[m] :
                    children[m][j] = c => m = n /\ j = i
      BY <2>3 DEF Inv, ListedOnce
    <3>2. PICK i \in DOMAIN children[n] :
              /\ children[n][i] = c
              /\ \A m \in DOMAIN children : \A j \in DOMAIN children[m] :
                    children[m][j] = c => m = n /\ j = i
      BY <3>1
    <3>3. i \in DOMAIN children'[n] /\ children'[n][i] = c
      BY <1>3, <3>2
    <3>4. \A m \in DOMAIN children : \A j \in DOMAIN children'[m] :
              children'[m][j] = c => m = n /\ j = i
      BY <1>4, <1>9, <2>3, <3>2
    <3>5. QED
      BY <3>3, <3>4
  <2>4. QED
    BY <1>2, <1>4, <2>2, <2>3
<1>12. wired' \in 0..created'
  BY <1>1, <1>2
<1>13. created' \in 0..Len(entries)
  BY <1>1, <1>2
<1>14. QED
  BY <1>1, <1>2, <1>5, <1>8, <1>10, <1>11, <1>12, <1>13 DEF Inv

-----------------------------------------------------------------------------
LEMMA SpecInv == Spec => []Inv
<1>1. Inv /\ [Next]_vars => Inv'
  <2>1. ASSUME Inv, UNCHANGED vars
        PROVE  Inv'
    <3>1. /\ entries' = entries /\ created' = created /\ by_path' = by_path
          /\ wired' = wired /\ children' = children
      BY <2>1 DEF vars
    <3>2. MapIsExact' /\ ListedOnce'
      <4>1. MapIsExact'
        BY <2>1, <3>1 DEF Inv, MapIsExact, Path
      <4>2. ListedOnce'
        <5>1. ListedOnce /\ wired' = wired /\ children' = children
          BY <2>1, <3>1 DEF Inv
        <5>2. SUFFICES ASSUME NEW c \in 1..wired
                       PROVE  \E n \in DOMAIN children : \E i \in DOMAIN children[n] :
                                /\ children[n][i] = c
                                /\ \A m \in DOMAIN children : \A j \in DOMAIN children[m] :
                                      children[m][j] = c => m = n /\ j = i
          BY <5>1 DEF ListedOnce
        <5>3. QED
          BY <5>1, Zenon DEF ListedOnce
      <4>3. QED
        BY <4>1, <4>2
    <3>3. ParentsAreTrue'
      BY <2>1, <3>1 DEF Inv, ParentsAreTrue, Path, Paths
    <3>4. QED
      BY <2>1, <3>1, <3>2, <3>3 DEF Inv
  <2>2. QED
    BY <2>1, AddNodeStep, WireStep DEF Next
<1>2. QED
  BY InitInv, <1>1, PTL DEF Spec

(***************************************************************************)
(* Both loops of build_tree stay in the node table, for listings of every  *)
(* length: a child's number is always that of a node.                      *)
(***************************************************************************)
THEOREM TypeCorrect == Spec => []TypeOK
<1>1. Inv => TypeOK
  <2> SUFFICES ASSUME Inv PROVE TypeOK
    OBVIOUS
  <2>2. \A p \in DOMAIN by_path : by_path[p] \in 1..created
    BY DEF Inv, MapIsExact
  <2>3. children \in [0..created -> Seq(1..wired)]
    BY DEF Inv
  <2>4. ASSUME NEW n \in DOMAIN children
        PROVE  Range(children[n]) \subseteq 1..wired
    <3>1. children[n] \in Seq(1..wired)
      BY <2>3
    <3>2. QED
      <4>1. \A j \in DOMAIN children[n] : children[n][j] \in 1..wired
        BY <3>1, LenProperties, ElementOfSeq
      <4>2. QED
        BY <4>1 DEF Range
  <2>5. QED
    <3>1. DOMAIN children = 0..created
      BY <2>3
    <3>2. entries \in Listings /\ created \in 0..Len(entries) /\ wired \in 0..created
      BY DEF Inv
    <3>3. QED
      BY <2>2, <2>4, <3>1, <3>2, Zenon DEF TypeOK
<1>2. QED
  BY SpecInv, <1>1, PTL

(***************************************************************************)
(* Whatever is listed twice or missing, a node hangs below a node of its   *)
(* parent's path, and below the root only when the listing has none.       *)
(***************************************************************************)
THEOREM ParentsStayTrue == Spec => []ParentsAreTrue
<1>1. Inv => ParentsAreTrue
  BY DEF Inv
<1>2. QED
  BY SpecInv, <1>1, PTL

(***************************************************************************)
(* Every node is one child of one node, also when its path is listed more  *)
(* than once (build_tree's second loop).                                   *)
(***************************************************************************)
THEOREM TreeIsATree == Spec => []ListedOnce
<1>1. Inv => ListedOnce
  BY DEF Inv
<1>2. QED
  BY SpecInv, <1>1, PTL

-----------------------------------------------------------------------------
(***************************************************************************)
(* A walk of n steps from a, the k-th of them h[k]: both a traversal with  *)
(* read_dir and the lookups of a path's names are one.                     *)
(***************************************************************************)
Walks(f, a, n, h) == f = [k \in 0..n |-> IF k = 0 THEN a ELSE h[k][f[k - 1]]]

\* Naturals have a least one among them.
LEMMA LeastNatural ==
    ASSUME NEW T \in SUBSET Nat, T # {}
    PROVE  \E x \in T : \A y \in T : x <= y
<1> DEFINE Less == OpToRel(<, Nat)
<1>1. \A x, y \in Nat : x < y => <<x, y>> \in Less
  BY DEF OpToRel
<1>2. IsWellFoundedOn(Less, Nat)
  BY NatLessThanWellFounded
<1> HIDE DEF Less
<1>3. PICK x \in T : \A y \in T : ~(<<y, x>> \in Less)
  BY <1>2, WFMin
<1>4. \A y \in T : ~(y < x)
  BY <1>1, <1>3
<1>5. \A y \in T : x <= y
  BY <1>4
<1>6. QED
  BY <1>5

\* What holds at 0 and is passed on from each number to the next holds up to n.
LEMMA StepByStep ==
    ASSUME NEW n \in Nat, NEW T, 0 \in T, \A k \in 0..(n - 1) : k \in T => k + 1 \in T
    PROVE  \A k \in 0..n : k \in T
<1> DEFINE Bad == {k \in 0..n : k \notin T}
<1>1. SUFFICES ASSUME Bad # {} PROVE FALSE
  OBVIOUS
<1>2. PICK m \in Bad : \A y \in Bad : m <= y
  <2>1. Bad \in SUBSET Nat
    OBVIOUS
  <2>2. QED
    BY <2>1, <1>1, LeastNatural
<1>3. m \in 0..n /\ m \notin T /\ m # 0
  BY <1>2
<1>4. m - 1 \in 0..(n - 1) /\ m - 1 \in 0..n /\ ~(m <= m - 1) /\ (m - 1) + 1 = m
  BY <1>3
<1>5. m - 1 \in T
  BY <1>2, <1>4
<1>6. QED
  BY <1>3, <1>4, <1>5

LEMMA WalkExists ==
    ASSUME NEW S, NEW a \in S, NEW n \in Nat, NEW h,
           \A k \in 1..n : \A x \in S : h[k][x] \in S
    PROVE  \E f : f \in [0..n -> S] /\ Walks(f, a, n, h)
<1> DEFINE T == {m \in Nat : \E f : Walks(f, a, m, h)}
<1>1. 0 \in T
  <2>1. Walks([k \in 0..0 |-> a], a, 0, h)
    BY DEF Walks
  <2>2. QED
    BY <2>1
<1>2. ASSUME NEW m \in 0..(n - 1), m \in T PROVE m + 1 \in T
  <2>1. PICK f : Walks(f, a, m, h)
    BY <1>2
  <2> DEFINE g == [k \in 0..(m + 1) |-> IF k = 0 THEN a ELSE h[k][f[k - 1]]]
  <2>2. \A k \in 0..m : f[k] = IF k = 0 THEN a ELSE h[k][f[k - 1]]
    BY <2>1 DEF Walks
  <2>3. \A k \in 0..(m + 1) : g[k] = IF k = 0 THEN a ELSE h[k][f[k - 1]]
    OBVIOUS
  <2>4. \A k \in 0..m : k \in 0..(m + 1)
    OBVIOUS
  <2> HIDE DEF g
  <2>5. \A k \in 0..m : g[k] = f[k]
    BY <2>2, <2>3, <2>4
  <2>6. \A k \in 0..(m + 1) : k # 0 => k - 1 \in 0..m
    OBVIOUS
  <2>7. \A k \in 0..(m + 1) : (IF k = 0 THEN a ELSE h[k][f[k - 1]])
                                  = (IF k = 0 THEN a ELSE h[k][g[k - 1]])
    BY <2>5, <2>6
  <2>8. [k \in 0..(m + 1) |-> IF k = 0 THEN a ELSE h[k][f[k - 1]]]
            = [k \in 0..(m + 1) |-> IF k = 0 THEN a ELSE h[k][g[k - 1]]]
    BY <2>7
  <2>9. Walks(g, a, m + 1, h)
    BY <2>8 DEF Walks, g
  <2>10. m + 1 \in Nat
    OBVIOUS
  <2>11. QED
    BY <2>9, <2>10
<1>3. n \in T
  <2> HIDE DEF T
  <2>1. \A k \in 0..n : k \in T
    BY <1>1, <1>2, StepByStep
  <2>2. QED
    BY <2>1
<1>4. PICK f : Walks(f, a, n, h)
  BY <1>3
<1>5. DOMAIN f = 0..n /\ \A k \in 0..n : f[k] = IF k = 0 THEN a ELSE h[k][f[k - 1]]
  BY <1>4 DEF Walks
<1> DEFINE Typed == {k \in Nat : f[k] \in S}
<1>6. 0 \in Typed
  BY <1>5
<1>7. ASSUME NEW k \in 0..(n - 1), k \in Typed PROVE k + 1 \in Typed
  <2>1. k + 1 \in 0..n /\ k + 1 \in 1..n /\ k + 1 # 0 /\ (k + 1) - 1 = k /\ k + 1 \in Nat
    OBVIOUS
  <2>2. f[k + 1] = h[k + 1][f[k]]
    BY <2>1, <1>5
  <2>3. QED
    BY <2>1, <2>2, <1>7
<1>8. \A k \in 0..n : k \in Typed
  <2> HIDE DEF Typed
  <2>1. QED
    BY <1>6, <1>7, StepByStep
<1>9. f \in [0..n -> S]
  <2>1. f = [k \in 0..n |-> f[k]]
    BY <1>4 DEF Walks
  <2>2. QED
    BY <2>1, <1>8
<1>10. QED
  BY <1>4, <1>9

-----------------------------------------------------------------------------
(***************************************************************************)
(* The finished tree.                                                      *)
(***************************************************************************)
N == Len(entries)
Hangs(i, n) == IF n = 0 THEN Front(Path(i)) \notin Paths ELSE Path(n) = Front(Path(i))

LEMMA Tree ==
    ASSUME Inv, Built
    PROVE  /\ N \in Nat /\ DOMAIN entries = 1..N /\ DOMAIN children = 0..N
           /\ \A i \in 1..N : Path(i) \in Seq(Names) /\ Len(Path(i)) \in Nat \ {0}
           /\ \A n \in 0..N : Len(children[n]) \in Nat /\ DOMAIN children[n] = 1..Len(children[n])
           /\ \A n \in 0..N : \A j \in DOMAIN children[n] :
                 children[n][j] \in 1..N /\ Hangs(children[n][j], n)
           /\ \A i \in 1..N : \E n \in 0..N : \E j \in DOMAIN children[n] : children[n][j] = i
<1>1. /\ entries \in Seq(Entry) /\ N \in Nat
      /\ \A i \in 1..N : Path(i) \in Seq(Names) /\ Path(i) # << >>
  BY ListingFacts DEF Inv, N
<1>2. DOMAIN entries = 1..N
  BY <1>1, LenProperties DEF N
<1>3. created = N /\ wired = N
  BY DEF Built, N
<1>4. children \in [0..N -> Seq(1..N)]
  BY <1>3 DEF Inv
<1>5. \A i \in 1..N : Len(Path(i)) \in Nat \ {0}
  <2>1. ASSUME NEW i \in 1..N PROVE Len(Path(i)) \in Nat \ {0}
    <3>1. Path(i) \in Seq(Names) /\ Path(i) # << >>
      BY <1>1
    <3>2. Len(Path(i)) # 0
      BY <3>1, EmptySeq
    <3>3. QED
      BY <3>1, <3>2, LenProperties
  <2>2. QED
    BY <2>1
<1>6. ASSUME NEW n \in 0..N
      PROVE  /\ Len(children[n]) \in Nat /\ DOMAIN children[n] = 1..Len(children[n])
             /\ \A j \in DOMAIN children[n] :
                   children[n][j] \in 1..N /\ Hangs(children[n][j], n)
  <2>1. children[n] \in Seq(1..N)
    BY <1>4
  <2>2. Len(children[n]) \in Nat /\ DOMAIN children[n] = 1..Len(children[n])
    BY <2>1, LenProperties
  <2>3. ASSUME NEW j \in DOMAIN children[n]
        PROVE  children[n][j] \in 1..N /\ Hangs(children[n][j], n)
    <3>1. children[n][j] \in 1..N
      BY <2>1, <2>2, ElementOfSeq
    <3>2. children[n][j] \in Range(children[n])
      BY DEF Range
    <3>3. n \in DOMAIN children
      BY <1>4
    <3>4. ParentsAreTrue
      BY DEF Inv
    <3>5. QED
      BY <3>1, <3>2, <3>3, <3>4, <1>3 DEF ParentsAreTrue, Hangs
  <2>4. QED
    BY <2>2, <2>3
<1>7. \A i \in 1..N : \E n \in 0..N : \E j \in DOMAIN children[n] : children[n][j] = i
  BY <1>3, <1>4 DEF Inv, ListedOnce
<1>8. DOMAIN children = 0..N
  BY <1>4
<1>9. QED
  BY <1>1, <1>2, <1>5, <1>6, <1>7, <1>8

\* A child's path is one name longer than its parent's.
LEMMA FrontIsShorter ==
    ASSUME NEW s \in Seq(Names), Len(s) \in Nat \ {0}
    PROVE  /\ Front(s) \in Seq(Names) /\ Len(Front(s)) = Len(s) - 1
           /\ \A k \in 1..(Len(s) - 1) : Front(s)[k] = s[k]
<1> DEFINE n == Len(s) - 1
           front == SubSeq(s, 1, n)
<1>1. n \in Nat /\ 1 \in Int /\ n \in Int /\ (\A k \in 1..n : s[k] \in Names)
  BY ElementOfSeq
<1> HIDE DEF n
<1>2. /\ front \in Seq(Names) /\ Len(front) = IF 1 <= n THEN n - 1 + 1 ELSE 0
      /\ \A k \in 1..(n - 1 + 1) : front[k] = s[1 + k - 1]
  BY <1>1, SubSeqProperties
<1> HIDE DEF front
<1>3. n - 1 + 1 = n /\ \A k \in 1..n : 1 + k - 1 = k
  BY <1>1
<1>4. Len(front) = n /\ \A k \in 1..n : front[k] = s[k]
  <2>1. Len(front) = n
    BY <1>1, <1>2, <1>3
  <2>2. ASSUME NEW k \in 1..n PROVE front[k] = s[k]
    <3>1. k \in 1..(n - 1 + 1) /\ 1 + k - 1 = k
      BY <1>3
    <3>2. front[k] = s[1 + k - 1]
      BY <3>1, <1>2
    <3>3. QED
      BY <3>1, <3>2
  <2>3. QED
    BY <2>1, <2>2
<1>5. Front(s) = front
  BY DEF Front, front, n
<1>6. QED
  BY <1>2, <1>4, <1>5 DEF n

LEMMA HangsBelowDir ==
    ASSUME Inv, Built, \A s \in Listings : ParentsAreDirs(s),
           NEW i \in 1..N, NEW n \in 1..N, Hangs(i, n)
    PROVE  IsDir(n) /\ Len(Path(n)) < Len(Path(i))
<1>1. Path(n) = Front(Path(i)) /\ n # 0
  BY DEF Hangs
<1>2. DOMAIN entries = 1..N /\ Path(i) \in Seq(Names) /\ Len(Path(i)) \in Nat \ {0}
  BY Tree
<1>3. Len(Path(n)) = Len(Path(i)) - 1
  BY <1>1, <1>2, FrontIsShorter
<1>4. entries[n].kind = "Dir"
  <2>1. ParentsAreDirs(entries)
    BY DEF Inv
  <2>2. QED
    BY <2>1, <1>1, <1>2 DEF ParentsAreDirs, Path
<1>5. QED
  BY <1>2, <1>3, <1>4 DEF IsDir

(***************************************************************************)
(* How many levels below the root a node is found at most: one more than   *)
(* there are nodes of a shorter path.                                      *)
(***************************************************************************)
Shorter(i) == {j \in 1..N : Len(Path(j)) < Len(Path(i))}
Depth(i) == Cardinality(Shorter(i)) + 1

LEMMA DepthFacts ==
    ASSUME Inv, Built, NEW i \in 1..N
    PROVE  /\ Depth(i) \in 1..N
           /\ \A p \in 1..N : Len(Path(p)) < Len(Path(i)) => Depth(p) < Depth(i)
<1>1. N \in Nat /\ \A j \in 1..N : Len(Path(j)) \in Nat
  BY Tree
<1>2. IsFiniteSet(1..N) /\ Cardinality(1..N) = N
  <2>1. 1 \in Int /\ N \in Int
    BY <1>1
  <2>2. IsFiniteSet(1..N) /\ Cardinality(1..N) = IF 1 > N THEN 0 ELSE N - 1 + 1
    BY <2>1, FS_Interval
  <2>3. QED
    BY <2>2, <1>1
<1>3. \A j \in 1..N : Shorter(j) \in SUBSET (1..N) /\ j \notin Shorter(j)
  BY <1>1 DEF Shorter
<1>4. \A j \in 1..N : /\ IsFiniteSet(Shorter(j)) /\ Cardinality(Shorter(j)) \in Nat
                      /\ Cardinality(Shorter(j)) < N
  <2> SUFFICES ASSUME NEW j \in 1..N
               PROVE  /\ IsFiniteSet(Shorter(j)) /\ Cardinality(Shorter(j)) \in Nat
                      /\ Cardinality(Shorter(j)) < N
    OBVIOUS
  <2>1. /\ IsFiniteSet(Shorter(j)) /\ Cardinality(Shorter(j)) <= Cardinality(1..N)
        /\ (Cardinality(1..N) = Cardinality(Shorter(j)) => 1..N = Shorter(j))
    BY <1>2, <1>3, FS_Subset
  <2>2. Cardinality(Shorter(j)) \in Nat
    BY <2>1, FS_CardinalityType
  <2>3. 1..N # Shorter(j)
    BY <1>3
  <2>4. QED
    BY <2>1, <2>2, <2>3, <1>1, <1>2
<1>5. ASSUME NEW p \in 1..N, Len(Path(p)) < Len(Path(i))
      PROVE  Cardinality(Shorter(p)) < Cardinality(Shorter(i))
  <2>1. p \in Shorter(i) /\ p \notin Shorter(p)
    BY <1>3, <1>5 DEF Shorter
  <2>2. Shorter(p) \in SUBSET Shorter(i)
    BY <1>1, <1>5 DEF Shorter
  <2>3. IsFiniteSet(Shorter(i))
    BY <1>4
  <2>4. /\ Cardinality(Shorter(p)) <= Cardinality(Shorter(i))
        /\ (Cardinality(Shorter(i)) = Cardinality(Shorter(p)) => Shorter(i) = Shorter(p))
    BY <2>2, <2>3, FS_Subset
  <2>5. Cardinality(Shorter(p)) # Cardinality(Shorter(i))
    BY <2>1, <2>4
  <2>6. QED
    BY <2>4, <2>5, <1>4
<1>6. QED
  BY <1>1, <1>4, <1>5 DEF Depth

-----------------------------------------------------------------------------
(***************************************************************************)
(* A traversal with read_dir.                                              *)
(***************************************************************************)
LEMMA ReadDir ==
    ASSUME Inv, Built, NEW n \in 0..N
    PROVE  read_dir(n) \subseteq 0..N
<1>1. N \in Nat /\ \A j \in DOMAIN children[n] : children[n][j] \in 1..N
  BY Tree
<1>2. QED
  BY <1>1 DEF read_dir, Range

Spread(X) == X \cup UNION {read_dir(n) : n \in X}
Traverses(f) ==
    f = [level \in 0..N |-> IF level = 0 THEN {0}
                            ELSE f[level - 1] \cup UNION {read_dir(n) : n \in f[level - 1]}]

LEMMA Traversal ==
    ASSUME Inv, Built
    PROVE  \E f : /\ Listed = f[N] /\ f[0] = {0}
                  /\ \A k \in 0..N : f[k] \subseteq 0..N
                  /\ \A k \in 0..(N - 1) : f[k + 1] = Spread(f[k])
<1> DEFINE Nodes == 0..N
           h == [k \in 1..N |-> [X \in SUBSET Nodes |-> Spread(X)]]
<1>1. N \in Nat
  BY Tree
<1>2. \A X \in SUBSET Nodes : Spread(X) \in SUBSET Nodes
  BY ReadDir DEF Spread
<1>3. {0} \in SUBSET Nodes
  BY <1>1
<1>4. \A k \in 1..N : \A X \in SUBSET Nodes : h[k][X] = Spread(X)
  OBVIOUS
<1> HIDE DEF h, Nodes
<1>5. \E f : Traverses(f)
  <2>1. \A k \in 1..N : \A X \in SUBSET Nodes : h[k][X] \in SUBSET Nodes
    BY <1>2, <1>4
  <2>2. PICK f : f \in [0..N -> SUBSET Nodes] /\ Walks(f, {0}, N, h)
    BY <2>1, <1>1, <1>3, WalkExists
  <2>3. \A k \in 0..N : k # 0 => k - 1 \in 0..N /\ k \in 1..N
    BY <1>1
  <2>4. \A k \in 0..N : (IF k = 0 THEN {0} ELSE h[k][f[k - 1]])
                            = (IF k = 0 THEN {0} ELSE Spread(f[k - 1]))
    BY <2>2, <2>3, <1>4
  <2>5. f = [k \in 0..N |-> IF k = 0 THEN {0} ELSE Spread(f[k - 1])]
    BY <2>2, <2>4 DEF Walks
  <2>6. QED
    BY <2>5 DEF Traverses, Spread
<1>6. PICK f : f = (CHOOSE g : Traverses(g)) /\ Traverses(f)
  BY <1>5
<1>7. Listed = f[N]
  BY <1>6 DEF Listed, Traverses, N
<1>8. \A k \in 0..N : f[k] = IF k = 0 THEN {0} ELSE Spread(f[k - 1])
  BY <1>6 DEF Traverses, Spread
<1>9. f[0] = {0} /\ \A k \in 0..(N - 1) : f[k + 1] = Spread(f[k])
  <2>1. 0 \in 0..N
    BY <1>1
  <2>2. \A k \in 0..(N - 1) : k + 1 \in 0..N /\ k + 1 # 0 /\ (k + 1) - 1 = k
    BY <1>1
  <2>3. ASSUME NEW k \in 0..(N - 1) PROVE f[k + 1] = Spread(f[k])
    BY <2>2, <1>8
  <2>4. QED
    BY <2>1, <2>3, <1>8
<1>10. \A k \in 0..N : f[k] \subseteq Nodes
  <2> DEFINE T == {k \in Nat : f[k] \in SUBSET Nodes}
  <2>1. 0 \in T
    BY <1>3, <1>9
  <2>2. ASSUME NEW k \in 0..(N - 1), k \in T PROVE k + 1 \in T
    BY <2>2, <1>2, <1>9
  <2> HIDE DEF T
  <2>3. \A k \in 0..N : k \in T
    BY <2>1, <2>2, <1>1, StepByStep
  <2>4. QED
    BY <2>3 DEF T
<1>11. QED
  BY <1>7, <1>9, <1>10 DEF Nodes

\* What is reached at a level is reached at every later one.
LEMMA ReachedStays ==
    ASSUME NEW f, NEW n \in Nat, \A k \in 0..(n - 1) : f[k + 1] = Spread(f[k]),
           NEW x, NEW low \in 0..n, x \in f[low]
    PROVE  \A k \in low..n : x \in f[k]
<1> DEFINE T == {k \in Nat : low + k <= n => x \in f[low + k]}
<1>1. 0 \in T
  OBVIOUS
<1>2. ASSUME NEW k \in 0..(n - low - 1), k \in T PROVE k + 1 \in T
  <2>1. low + k \in 0..(n - 1) /\ low + (k + 1) = (low + k) + 1 /\ k + 1 \in Nat
    OBVIOUS
  <2>2. x \in f[low + k] /\ f[(low + k) + 1] = Spread(f[low + k])
    BY <2>1, <1>2
  <2>3. x \in f[(low + k) + 1]
    BY <2>2 DEF Spread
  <2>4. QED
    BY <2>1, <2>3
<1> HIDE DEF T
<1>3. n - low \in Nat
  OBVIOUS
<1>4. \A k \in 0..(n - low) : k \in T
  <2> DEFINE m == n - low
  <2>1. m \in Nat /\ \A k \in 0..(m - 1) : k \in T => k + 1 \in T
    BY <1>2, <1>3
  <2> HIDE DEF m
  <2>2. \A k \in 0..m : k \in T
    BY <2>1, <1>1, StepByStep
  <2>3. QED
    BY <2>2 DEF m
<1>5. ASSUME NEW k \in low..n PROVE x \in f[k]
  <2>1. k - low \in 0..(n - low) /\ low + (k - low) = k
    OBVIOUS
  <2>2. k - low \in T
    BY <2>1, <1>4
  <2>3. QED
    BY <2>1, <2>2 DEF T
<1>6. QED
  BY <1>5

(***************************************************************************)
(* "attached to the root so it is never lost": for every listing, with     *)
(* duplicates and orphans in any order, a walk with read_dir reaches every *)
(* node, as long as no file is the parent of an entry.                     *)
(***************************************************************************)
THEOREM NothingIsLost ==
    ASSUME \A s \in Listings : ParentsAreDirs(s)
    PROVE  Spec => []EveryEntryIsListed
<1>1. Inv => EveryEntryIsListed
  <2> SUFFICES ASSUME Inv, Built PROVE Listed = 0..N
    BY DEF EveryEntryIsListed, N
  <2>1. PICK f : /\ Listed = f[N] /\ f[0] = {0}
                 /\ \A k \in 0..N : f[k] \subseteq 0..N
                 /\ \A k \in 0..(N - 1) : f[k + 1] = Spread(f[k])
    BY Traversal
  <2>2. N \in Nat /\ \A i \in 1..N : Len(Path(i)) \in Nat
    BY Tree
  <2> DEFINE Lost == {i \in 1..N : i \notin f[Depth(i)]}
             Lengths == {Len(Path(i)) : i \in Lost}
  <2>3. Lost = {}
    <3>1. SUFFICES ASSUME Lost # {} PROVE FALSE
      OBVIOUS
    <3>2. PICK i \in Lost : \A j \in Lost : Len(Path(i)) <= Len(Path(j))
      <4>1. Lengths \in SUBSET Nat /\ Lengths # {}
        BY <3>1, <2>2
      <4>2. PICK l \in Lengths : \A y \in Lengths : l <= y
        BY <4>1, LeastNatural
      <4>3. QED
        BY <4>2
    <3>3. i \in 1..N /\ i \notin f[Depth(i)] /\ Depth(i) \in 1..N
      BY <3>2, DepthFacts
    <3>4. PICK n \in 0..N : \E j \in DOMAIN children[n] : children[n][j] = i
      BY <3>3, Tree
    <3>5. Hangs(i, n) /\ i \in Range(children[n])
      BY <3>4, Tree DEF Range
    <3>6. n \in f[Depth(i) - 1] /\ IsDir(n)
      <4>1. CASE n = 0
        <5>1. Depth(i) - 1 \in 0..N /\ 0 \in 0..N /\ 0 \in f[0]
          BY <3>3, <2>1, <2>2
        <5>2. \A k \in 0..N : 0 \in f[k]
          BY <5>1, <2>1, <2>2, ReachedStays
        <5>3. QED
          BY <5>1, <5>2, <4>1 DEF IsDir
      <4>2. CASE n # 0
        <5>1. n \in 1..N
          BY <4>2
        <5>2. IsDir(n) /\ Len(Path(n)) < Len(Path(i))
          BY <5>1, <3>3, <3>5, HangsBelowDir
        <5>3. n \notin Lost
          BY <5>1, <5>2, <3>2, <3>3, <2>2
        <5>4. Depth(n) \in 1..N /\ Depth(n) < Depth(i)
          BY <5>1, <5>2, <3>3, DepthFacts
        <5>5. n \in f[Depth(n)] /\ Depth(n) \in 0..N /\ Depth(i) - 1 \in Depth(n)..N
          BY <5>1, <5>3, <5>4, <3>3, <2>2
        <5>6. \A k \in Depth(n)..N : n \in f[k]
          BY <5>5, <2>1, <2>2, ReachedStays
        <5>7. QED
          BY <5>2, <5>5, <5>6
      <4>3. QED
        BY <4>1, <4>2
    <3>7. i \in read_dir(n)
      BY <3>5, <3>6 DEF read_dir
    <3>8. i \in Spread(f[Depth(i) - 1])
      BY <3>6, <3>7 DEF Spread
    <3>9. Depth(i) - 1 \in 0..(N - 1) /\ (Depth(i) - 1) + 1 = Depth(i)
      BY <3>3, <2>2
    <3>10. f[Depth(i)] = Spread(f[Depth(i) - 1])
      BY <3>9, <2>1
    <3>11. QED
      BY <3>3, <3>8, <3>10
  <2>4. ASSUME NEW i \in 0..N PROVE i \in f[N]
    <3>1. CASE i = 0
      <4>1. 0 \in 0..N /\ N \in 0..N /\ 0 \in f[0]
        BY <2>1, <2>2
      <4>2. \A k \in 0..N : 0 \in f[k]
        BY <4>1, <2>1, <2>2, ReachedStays
      <4>3. QED
        BY <4>1, <4>2, <3>1
    <3>2. CASE i # 0
      <4>1. i \in 1..N /\ i \in f[Depth(i)]
        BY <3>2, <2>3
      <4>2. Depth(i) \in 1..N
        BY <4>1, DepthFacts
      <4>3. Depth(i) \in 0..N /\ N \in Depth(i)..N
        BY <4>2, <2>2
      <4>4. \A k \in Depth(i)..N : i \in f[k]
        BY <4>1, <4>3, <2>1, <2>2, ReachedStays
      <4>5. QED
        BY <4>3, <4>4
    <3>3. QED
      BY <3>1, <3>2
  <2>5. f[N] \subseteq 0..N
    BY <2>1, <2>2
  <2>6. QED
    BY <2>1, <2>4, <2>5
<1>2. QED
  BY SpecInv, <1>1, PTL

-----------------------------------------------------------------------------
(***************************************************************************)
(* The lookups of a path's names.                                          *)
(***************************************************************************)

\* The first k names of a path.
LEMMA FirstNames ==
    ASSUME NEW s \in Seq(Names), NEW k \in 0..Len(s)
    PROVE  /\ SubSeq(s, 1, k) \in Seq(Names) /\ Len(SubSeq(s, 1, k)) = k
           /\ \A j \in 1..k : SubSeq(s, 1, k)[j] = s[j]
<1> DEFINE first == SubSeq(s, 1, k)
<1>1. k \in Nat /\ 1 \in Int /\ k \in Int /\ (\A j \in 1..k : s[j] \in Names)
  BY LenProperties, ElementOfSeq
<1>2. /\ first \in Seq(Names) /\ Len(first) = IF 1 <= k THEN k - 1 + 1 ELSE 0
      /\ \A j \in 1..(k - 1 + 1) : first[j] = s[1 + j - 1]
  BY <1>1, SubSeqProperties
<1> HIDE DEF first
<1>3. k - 1 + 1 = k /\ \A j \in 1..k : 1 + j - 1 = j
  BY <1>1
<1>4. Len(first) = k
  BY <1>1, <1>2, <1>3
<1>5. ASSUME NEW j \in 1..k PROVE first[j] = s[j]
  <2>1. j \in 1..(k - 1 + 1) /\ 1 + j - 1 = j
    BY <1>3
  <2>2. first[j] = s[1 + j - 1]
    BY <2>1, <1>2
  <2>3. QED
    BY <2>1, <2>2
<1>6. QED
  BY <1>2, <1>4, <1>5 DEF first

LEMMA FrontAndLast ==
    ASSUME NEW s \in Seq(Names), NEW t \in Seq(Names),
           Len(s) \in Nat \ {0}, Len(t) \in Nat \ {0},
           Front(s) = Front(t), Last(s) = Last(t)
    PROVE  s = t
<1>1. /\ Len(Front(s)) = Len(s) - 1 /\ Len(Front(t)) = Len(t) - 1
      /\ \A k \in 1..(Len(s) - 1) : Front(s)[k] = s[k]
      /\ \A k \in 1..(Len(t) - 1) : Front(t)[k] = t[k]
  BY FrontIsShorter
<1>2. Len(s) = Len(t)
  BY <1>1
<1>3. s[Len(s)] = t[Len(s)]
  BY <1>2 DEF Last
<1>4. \A k \in 1..(Len(s) - 1) : s[k] = t[k]
  BY <1>1, <1>2
<1>5. \A k \in 1..Len(s) : s[k] = t[k]
  BY <1>3, <1>4
<1>6. QED
  BY <1>2, <1>5, SeqEqual

\* No path is listed twice, and every directory above one is listed.
PathsAreComplete == \A p \in Paths : Unique(p) /\ Above(p) \subseteq Paths

LEMMA UniqueNode ==
    ASSUME Inv, Built, PathsAreComplete, NEW i \in 1..N, NEW j \in 1..N, Path(i) = Path(j)
    PROVE  i = j
<1>1. DOMAIN entries = 1..N
  BY Tree
<1>2. Path(i) \in Paths
  BY <1>1 DEF Paths
<1>3. Unique(Path(i))
  BY <1>2 DEF PathsAreComplete
<1>4. QED
  BY <1>1, <1>3 DEF Unique

LEMMA LookupFindsChild ==
    ASSUME Inv, Built, \A s \in Listings : ParentsAreDirs(s), PathsAreComplete,
           NEW n \in 0..N, NEW c \in 1..N,
           IF n = 0 THEN Len(Path(c)) = 1 ELSE Path(n) = Front(Path(c))
    PROVE  lookup(n, Last(Path(c))) = c
<1>1. /\ N \in Nat /\ DOMAIN entries = 1..N
      /\ \A i \in 1..N : Path(i) \in Seq(Names) /\ Len(Path(i)) \in Nat \ {0}
      /\ \A m \in 0..N : Len(children[m]) \in Nat /\ DOMAIN children[m] = 1..Len(children[m])
      /\ \A m \in 0..N : \A j \in DOMAIN children[m] :
            children[m][j] \in 1..N /\ Hangs(children[m][j], m)
  BY Tree
<1>2. \A i \in 1..N : Path(i) \in Paths /\ Len(Front(Path(i))) = Len(Path(i)) - 1
  BY <1>1, FrontIsShorter DEF Paths
\* At the root hang only entries of one name.
<1>3. \A d \in 1..N : Hangs(d, 0) => Len(Path(d)) = 1
  <2> SUFFICES ASSUME NEW d \in 1..N, Hangs(d, 0), Len(Path(d)) # 1 PROVE FALSE
    OBVIOUS
  <2>1. Len(Path(d)) - 1 \in 1..(Len(Path(d)) - 1)
    <3> DEFINE l == Len(Path(d))
    <3>1. l \in Nat \ {0} /\ l # 1
      BY <1>1
    <3> HIDE DEF l
    <3>2. l - 1 \in 1..(l - 1)
      BY <3>1
    <3>3. QED
      BY <3>2 DEF l
  <2>2. Front(Path(d)) \in Above(Path(d))
    BY <2>1 DEF Above, Front
  <2>3. Front(Path(d)) \in Paths
    BY <2>2, <1>2 DEF PathsAreComplete
  <2>4. QED
    BY <2>3 DEF Hangs
<1>4. PICK m \in 0..N : \E j \in DOMAIN children[m] : children[m][j] = c
  BY Tree
<1>5. Hangs(c, m)
  BY <1>1, <1>4
<1>6. m = n
  <2>1. CASE m = 0
    <3>1. Front(Path(c)) \notin Paths
      BY <1>5, <2>1 DEF Hangs
    <3>2. n # 0 => Front(Path(c)) \in Paths
      <4>1. n # 0 => n \in 1..N
        BY <1>1
      <4>2. QED
        BY <4>1, <1>2
    <3>3. QED
      BY <3>1, <3>2, <2>1
  <2>2. CASE m # 0
    <3>1. m \in 1..N /\ Path(m) = Front(Path(c))
      BY <1>5, <2>2 DEF Hangs
    <3>2. Len(Path(c)) # 1
      <4>1. Len(Path(m)) \in Nat \ {0}
        BY <3>1, <1>1
      <4>2. Len(Path(m)) = Len(Path(c)) - 1
        BY <3>1, <1>2
      <4>3. QED
        BY <4>1, <4>2
    <3>3. n # 0 /\ Path(n) = Path(m)
      BY <3>1, <3>2
    <3>4. n \in 1..N
      BY <3>3, <1>1
    <3>5. QED
      BY <3>1, <3>3, <3>4, UniqueNode
  <2>3. QED
    BY <2>1, <2>2
<1> DEFINE named == {j \in DOMAIN children[n] : Last(Path(children[n][j])) = Last(Path(c))}
<1>7. \A j \in named : children[n][j] = c
  <2> SUFFICES ASSUME NEW j \in named PROVE children[n][j] = c
    OBVIOUS
  <2>1. children[n][j] \in 1..N /\ Hangs(children[n][j], n)
    BY <1>1
  <2>2. PICK d \in 1..N : d = children[n][j] /\ Hangs(d, n)
    BY <2>1
  <2>3. Last(Path(d)) = Last(Path(c))
    BY <2>2
  <2>4. /\ Path(c) \in Seq(Names) /\ Len(Path(c)) \in Nat \ {0}
        /\ Path(d) \in Seq(Names) /\ Len(Path(d)) \in Nat \ {0}
    BY <1>1
  <2>5. CASE n = 0
    <3>1. Len(Path(d)) = 1 /\ Len(Path(c)) = 1
      BY <1>3, <2>2, <2>5
    <3>2. \A k \in 1..Len(Path(d)) : Path(d)[k] = Path(c)[k]
      BY <3>1, <2>3 DEF Last
    <3>3. Path(d) = Path(c)
      BY <3>1, <3>2, <2>4, SeqEqual
    <3>4. QED
      BY <3>3, <2>2, UniqueNode
  <2>6. CASE n # 0
    <3>1. Front(Path(d)) = Front(Path(c))
      BY <2>2, <2>6 DEF Hangs
    <3>2. Path(d) = Path(c)
      BY <3>1, <2>3, <2>4, FrontAndLast
    <3>3. QED
      BY <3>2, <2>2, UniqueNode
  <2>7. QED
    BY <2>5, <2>6
<1>8. named # {}
  BY <1>4, <1>6
<1>9. Min(named) \in named
  <2>1. named \in SUBSET Nat
    BY <1>1
  <2> HIDE DEF named
  <2>2. \E x \in named : \A y \in named : x <= y
    BY <2>1, <1>8, LeastNatural
  <2>3. QED
    BY <2>2 DEF Min
<1>10. n >= 0 /\ IsDir(n)
  <2>1. CASE n = 0
    BY <2>1 DEF IsDir
  <2>2. CASE n # 0
    <3>1. n \in 1..N
      BY <2>2, <1>1
    <3>2. Hangs(c, n)
      BY <1>5, <1>6
    <3>3. QED
      BY <3>1, <3>2, <1>1, HangsBelowDir
  <2>3. QED
    BY <2>1, <2>2
<1>11. lookup(n, Last(Path(c))) = children[n][Min(named)]
  BY <1>8, <1>10 DEF lookup
<1>12. QED
  BY <1>7, <1>9, <1>11

Looks(f, path) ==
    f = [k \in 0..Len(path) |->
            IF k = 0 THEN 0
            ELSE IF f[k - 1] = -1 THEN -1 ELSE lookup(f[k - 1], path[k])]

LEMMA Resolution ==
    ASSUME Inv, Built, NEW path \in Seq(Names)
    PROVE  \E f : /\ Resolve(path) = f[Len(path)] /\ f[0] = 0
                  /\ \A k \in 1..Len(path) :
                        f[k] = IF f[k - 1] = -1 THEN -1 ELSE lookup(f[k - 1], path[k])
<1> DEFINE Nodes == (0..N) \cup {-1}
           Move(x, name) == IF x = -1 THEN -1 ELSE lookup(x, name)
           h == [k \in 1..Len(path) |-> [x \in Nodes |-> Move(x, path[k])]]
<1>1. N \in Nat /\ Len(path) \in Nat
  BY Tree, LenProperties
<1>2. \A x \in Nodes : \A name : Move(x, name) \in Nodes
  <2> SUFFICES ASSUME NEW x \in 0..N, NEW name PROVE lookup(x, name) \in Nodes
    OBVIOUS
  <2> DEFINE named == {j \in DOMAIN children[x] : Last(Path(children[x][j])) = name}
  <2>1. CASE named # {}
    <3>1. named \in SUBSET Nat /\ \A j \in named : children[x][j] \in 1..N
      BY Tree
    <3> HIDE DEF named
    <3>2. \E m \in named : \A y \in named : m <= y
      BY <3>1, <2>1, LeastNatural
    <3>3. Min(named) \in named
      BY <3>2 DEF Min
    <3>4. children[x][Min(named)] \in Nodes
      <4>1. children[x][Min(named)] \in 1..N
        BY <3>1, <3>3
      <4>2. QED
        BY <4>1, <1>1
    <3>5. lookup(x, name) \in {children[x][Min(named)], -1}
      BY DEF lookup, named
    <3>6. QED
      BY <3>4, <3>5
  <2>2. CASE named = {}
    BY <2>2 DEF lookup
  <2>3. QED
    BY <2>1, <2>2
<1>3. \A k \in 1..Len(path) : \A x \in Nodes : h[k][x] = Move(x, path[k])
  OBVIOUS
<1>4. 0 \in Nodes
  BY <1>1
<1> HIDE DEF h, Nodes, Move
<1>5. \E f : Looks(f, path)
  <2>1. \A k \in 1..Len(path) : \A x \in Nodes : h[k][x] \in Nodes
    BY <1>2, <1>3
  <2>2. PICK f : f \in [0..Len(path) -> Nodes] /\ Walks(f, 0, Len(path), h)
    BY <2>1, <1>1, <1>4, WalkExists
  <2>3. \A k \in 0..Len(path) : k # 0 => k - 1 \in 0..Len(path) /\ k \in 1..Len(path)
    BY <1>1
  <2>4. \A k \in 0..Len(path) : (IF k = 0 THEN 0 ELSE h[k][f[k - 1]])
                                    = (IF k = 0 THEN 0 ELSE Move(f[k - 1], path[k]))
    BY <2>2, <2>3, <1>3
  <2>5. f = [k \in 0..Len(path) |-> IF k = 0 THEN 0 ELSE Move(f[k - 1], path[k])]
    BY <2>2, <2>4 DEF Walks
  <2>6. QED
    BY <2>5 DEF Looks, Move
<1>6. PICK f : f = (CHOOSE g : Looks(g, path)) /\ Looks(f, path)
  BY <1>5
<1>7. Resolve(path) = f[Len(path)]
  BY <1>6 DEF Resolve, Looks
<1>8. \A k \in 0..Len(path) :
          f[k] = IF k = 0 THEN 0
                 ELSE IF f[k - 1] = -1 THEN -1 ELSE lookup(f[k - 1], path[k])
  BY <1>6 DEF Looks
<1>9. f[0] = 0
  BY <1>1, <1>8
<1>10. \A k \in 1..Len(path) : f[k] = IF f[k - 1] = -1 THEN -1 ELSE lookup(f[k - 1], path[k])
  <2>1. \A k \in 1..Len(path) : k \in 0..Len(path) /\ k # 0
    BY <1>1
  <2>2. QED
    BY <2>1, <1>8
<1>11. QED
  BY <1>7, <1>9, <1>10

(***************************************************************************)
(* In every listing that is complete and without duplicates, looking up    *)
(* the names of an entry's path one after the other, from the root, finds  *)
(* the entry.                                                              *)
(***************************************************************************)
THEOREM PathsResolve ==
    ASSUME \A s \in Listings : ParentsAreDirs(s)
    PROVE  Spec => []LookupFindsEntry
<1>1. Inv => LookupFindsEntry
  <2> SUFFICES ASSUME Inv, Built, PathsAreComplete, NEW i \in DOMAIN entries
               PROVE  Resolve(Path(i)) = i
    BY DEF LookupFindsEntry, PathsAreComplete
  <2> DEFINE path == Path(i)
             L == Len(path)
  <2>1. N \in Nat /\ DOMAIN entries = 1..N /\ i \in 1..N
    BY Tree
  <2>2. path \in Seq(Names) /\ L \in Nat \ {0}
    BY <2>1, Tree
  <2>3. SubSeq(path, 1, L) = path
    <3>1. /\ SubSeq(path, 1, L) \in Seq(Names) /\ Len(SubSeq(path, 1, L)) = L
          /\ \A j \in 1..L : SubSeq(path, 1, L)[j] = path[j]
      BY <2>2, FirstNames
    <3>2. QED
      BY <3>1, <2>2, SeqEqual
  <2>4. \A k \in 1..L : \E c \in 1..N : Path(c) = SubSeq(path, 1, k)
    <3> SUFFICES ASSUME NEW k \in 1..L PROVE \E c \in 1..N : Path(c) = SubSeq(path, 1, k)
      OBVIOUS
    <3>1. CASE k = L
      BY <3>1, <2>1, <2>3
    <3>2. CASE k # L
      <4>1. k \in 1..(L - 1)
        BY <3>2, <2>2
      <4>2. SubSeq(path, 1, k) \in Above(path)
        BY <4>1 DEF Above
      <4>3. path \in Paths
        BY DEF Paths
      <4>4. SubSeq(path, 1, k) \in Paths
        BY <4>2, <4>3 DEF PathsAreComplete
      <4>5. QED
        BY <4>4, <2>1 DEF Paths
    <3>3. QED
      BY <3>1, <3>2
  <2>5. PICK f : /\ Resolve(path) = f[L] /\ f[0] = 0
                 /\ \A k \in 1..L :
                       f[k] = IF f[k - 1] = -1 THEN -1 ELSE lookup(f[k - 1], path[k])
    BY <2>2, Resolution
  <2> DEFINE T == {k \in Nat : IF k = 0 THEN f[k] = 0
                               ELSE f[k] \in 1..N /\ Path(f[k]) = SubSeq(path, 1, k)}
  <2> HIDE DEF path, L
  <2>6. 0 \in T
    BY <2>5
  <2>7. ASSUME NEW k \in 0..(L - 1), k \in T PROVE k + 1 \in T
    <3>1. k \in 0..L /\ k + 1 \in 0..L /\ k + 1 \in 1..L /\ k + 1 # 0 /\ (k + 1) - 1 = k
          /\ k \in Nat /\ k + 1 \in Nat
      BY <2>2
    <3>2. PICK c \in 1..N : Path(c) = SubSeq(path, 1, k + 1)
      BY <2>4, <3>1
    <3>3. /\ Path(c) \in Seq(Names) /\ Len(Path(c)) = k + 1
          /\ \A j \in 1..(k + 1) : Path(c)[j] = path[j]
      <4>1. k + 1 \in 0..Len(path)
        BY <3>1 DEF L
      <4>2. QED
        BY <4>1, <3>2, <2>2, FirstNames
    <3>4. /\ SubSeq(path, 1, k) \in Seq(Names) /\ Len(SubSeq(path, 1, k)) = k
          /\ \A j \in 1..k : SubSeq(path, 1, k)[j] = path[j]
      <4>1. k \in 0..Len(path)
        BY <3>1 DEF L
      <4>2. QED
        BY <4>1, <2>2, FirstNames
    <3>5. Last(Path(c)) = path[k + 1]
      BY <3>1, <3>3 DEF Last
    <3>6. Front(Path(c)) = SubSeq(path, 1, k)
      <4>1. Len(Path(c)) \in Nat \ {0} /\ Len(Path(c)) - 1 = k
        BY <3>1, <3>3
      <4>2. /\ Front(Path(c)) \in Seq(Names) /\ Len(Front(Path(c))) = k
            /\ \A j \in 1..k : Front(Path(c))[j] = Path(c)[j]
        BY <4>1, <3>3, FrontIsShorter
      <4>3. \A j \in 1..k : j \in 1..(k + 1)
        BY <3>1
      <4>4. \A j \in 1..k : Front(Path(c))[j] = SubSeq(path, 1, k)[j]
        BY <4>2, <4>3, <3>3, <3>4
      <4>5. QED
        BY <4>2, <4>4, <3>4, SeqEqual
    <3>7. f[k] \in 0..N /\ IF f[k] = 0 THEN Len(Path(c)) = 1 ELSE Path(f[k]) = Front(Path(c))
      <4>1. CASE k = 0
        BY <4>1, <2>5, <2>1, <3>3
      <4>2. CASE k # 0
        <5>1. f[k] \in 1..N /\ Path(f[k]) = SubSeq(path, 1, k)
          BY <4>2, <2>7
        <5>2. f[k] \in 0..N /\ f[k] # 0
          BY <5>1, <2>1
        <5>3. QED
          BY <5>1, <5>2, <3>6
      <4>3. QED
        BY <4>1, <4>2
    <3>8. lookup(f[k], path[k + 1]) = c
      <4>1. lookup(f[k], Last(Path(c))) = c
        BY <3>7, LookupFindsChild
      <4>2. QED
        BY <4>1, <3>5
    <3>9. f[k + 1] = c
      <4>1. f[k + 1] = IF f[k] = -1 THEN -1 ELSE lookup(f[k], path[k + 1])
        BY <2>5, <3>1
      <4>2. f[k] # -1
        BY <3>7, <2>1
      <4>3. QED
        BY <4>1, <4>2, <3>8
    <3>10. QED
      BY <3>1, <3>2, <3>9
  <2>8. \A k \in 0..L : k \in T
    <3> HIDE DEF T
    <3>1. QED
      BY <2>6, <2>7, <2>2, StepByStep
  <2>9. L \in T /\ L # 0
    BY <2>8, <2>2
  <2>10. f[L] \in 1..N /\ Path(f[L]) = path
    BY <2>9, <2>3
  <2>11. f[L] = i
    BY <2>10, <2>1, UniqueNode DEF path
  <2>12. QED
    BY <2>5, <2>11 DEF path
<1>2. QED
  BY SpecInv, <1>1, PTL
=============================================================================
