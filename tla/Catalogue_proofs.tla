-------------------------- MODULE Catalogue_proofs --------------------------
(***************************************************************************)
(* For every archived tree, of any depth and size, whose directories other *)
(* than the root are not named <ROOT>, and wherever its catalogue is cut,  *)
(* parse_catalog lists what was written, and calls it complete exactly     *)
(* when the root was closed or an end of directory stood in its place.     *)
(***************************************************************************)
EXTENDS Catalogue, SequenceTheorems, TLAPS

(***************************************************************************)
(* Nothing has been written before the root.                               *)
(***************************************************************************)
RootIsFirst == outcome = "parsing" /\ open = << >> => written = << >>

(***************************************************************************)
(* While the walk goes on, depth counts the directories that are open and  *)
(* dir_stack is the prefix of the paths below them.                        *)
(***************************************************************************)
StackIsPrefix ==
    outcome = "parsing" =>
        /\ depth = Len(open)
        /\ dir_stack = IF open = << >> THEN << >> ELSE Prefix

Inv ==
    /\ TypeOK
    /\ StackIsPrefix
    /\ RootIsFirst
    /\ outcome = "parsing" => ~closed /\ ~stray
    /\ stray => entries = << >>
    /\ ListsTheTree
    /\ CompleteIffClosed

LEMMA InitInv == Init => Inv
<1> SUFFICES ASSUME Init PROVE Inv
  OBVIOUS
<1>1. << >> \in Paths /\ << >> \in Entries
  BY DEF Paths, Entries
<1>2. TypeOK
  BY <1>1 DEF Init, TypeOK
<1>3. QED
  BY <1>2 DEF Init, Inv, StackIsPrefix, RootIsFirst, ListsTheTree, CompleteIffClosed

(***************************************************************************)
(* What Front and Tail do to a path and to a path grown by one name.       *)
(***************************************************************************)
LEMMA FrontOfPath ==
    ASSUME NEW S, NEW s \in Seq(S), s # << >>
    PROVE  /\ Front(s) \in Seq(S)
           /\ Len(Front(s)) = Len(s) - 1
<1>1. Len(s) \in Nat \ {0} /\ \A i \in 1..(Len(s) - 1) : s[i] \in S
  OBVIOUS
<1> DEFINE n == Len(s) - 1
<1>2. /\ SubSeq(s, 1, n) \in Seq(S)
      /\ Len(SubSeq(s, 1, n)) = IF 1 <= n THEN n - 1 + 1 ELSE 0
      /\ \A i \in 1..(n - 1 + 1) : SubSeq(s, 1, n)[i] = s[1 + i - 1]
  <2>1. n \in Int
    BY <1>1
  <2>2. \A i \in 1..n : s[i] \in S
    BY <1>1
  <2> HIDE DEF n
  <2>3. QED
    BY <2>1, <2>2, SubSeqProperties
<1>3. Front(s) = SubSeq(s, 1, n)
  BY DEF Front
<1>4. n \in Nat
  BY <1>1
<1>5. Len(SubSeq(s, 1, n)) = n
  <2> HIDE DEF n
  <2>1. CASE 1 <= n
    BY <1>2, <1>4, <2>1
  <2>2. CASE ~(1 <= n)
    BY <1>2, <1>4, <2>2
  <2>3. QED
    BY <2>1, <2>2
<1>6. \A i \in 1..n : SubSeq(s, 1, n)[i] = s[i]
  <2> HIDE DEF n
  <2>1. n - 1 + 1 = n /\ \A i \in 1..n : 1 + i - 1 = i
    BY <1>4
  <2>2. QED
    BY <1>2, <2>1
<1>7. QED
  BY <1>2, <1>3, <1>5, <1>6

LEMMA TailOfAppend ==
    ASSUME NEW S, NEW s \in Seq(S), s # << >>, NEW e \in S
    PROVE  /\ Append(s, e) # << >>
           /\ Append(s, e)[1] = s[1]
           /\ Tail(Append(s, e)) = Append(Tail(s), e)
OBVIOUS

LEMMA FrontOfTail ==
    ASSUME NEW S, NEW s \in Seq(S), Len(s) > 1
    PROVE  /\ Front(s) # << >>
           /\ Front(s)[1] = s[1]
           /\ Tail(s) # << >>
           /\ Front(Tail(s)) = Tail(Front(s))
<1>1. Len(s) \in Nat /\ s # << >>
  OBVIOUS
<1>2. /\ Front(s) \in Seq(S)
      /\ Len(Front(s)) = Len(s) - 1
      /\ Head(Front(s)) = s[1]
      /\ Tail(Front(s)) = SubSeq(s, 2, Len(s) - 1)
  <2>1. 1 \in 1..Len(s) /\ Len(s) - 1 \in 1..Len(s)
    BY <1>1
  <2>2. /\ Head(SubSeq(s, 1, Len(s) - 1)) = s[1]
        /\ Tail(SubSeq(s, 1, Len(s) - 1)) = SubSeq(s, 1 + 1, Len(s) - 1)
    BY <2>1, HeadTailOfSubSeq
  <2>3. Front(s) \in Seq(S) /\ Len(Front(s)) = Len(s) - 1
    BY <1>1, FrontOfPath
  <2>4. QED
    BY <2>2, <2>3 DEF Front
<1>3. Front(s) # << >> /\ Front(s)[1] = s[1]
  BY <1>1, <1>2
<1>4. Tail(s) = SubSeq(s, 2, Len(s)) /\ Len(Tail(s)) = Len(s) - 1 /\ Tail(s) # << >>
  <2>1. Tail(s) = SubSeq(s, 2, Len(s))
    BY <1>1, TailIsSubSeq
  <2>2. Len(Tail(s)) = Len(s) - 1 /\ Tail(s) \in Seq(S)
    BY <1>1, HeadTailProperties
  <2>3. Tail(s) # << >>
    <3>1. Len(Tail(s)) # 0
      BY <1>1, <2>2
    <3>2. Len(<< >>) = 0
      OBVIOUS
    <3>3. QED
      BY <3>1, <3>2, Zenon
  <2>4. QED
    BY <2>1, <2>2, <2>3
<1>5. Front(Tail(s)) = SubSeq(s, 2, Len(s) - 1)
  <2>1. CASE Len(s) = 2
    <3>1. SubSeq(Tail(s), 1, 0) = << >> /\ SubSeq(s, 2, 1) = << >>
      BY SubSeqEmpty
    <3>2. QED
      BY <1>4, <2>1, <3>1 DEF Front
  <2>2. CASE Len(s) > 2
    <3>1. SubSeq(SubSeq(s, 2, Len(s)), 1, Len(s) - 2) = SubSeq(s, 2, Len(s) - 1)
      BY <1>1, <2>2, SubSeqOfSubSeq
    <3>2. Len(Tail(s)) - 1 = Len(s) - 2
      BY <1>1, <1>4
    <3>3. Front(Tail(s)) = SubSeq(Tail(s), 1, Len(s) - 2)
      BY <3>2, Zenon DEF Front
    <3>4. QED
      BY <1>4, <3>1, <3>3, Zenon
  <2>3. Len(s) = 2 \/ Len(s) > 2
    <3>1. \A k \in Nat : k > 1 => k = 2 \/ k > 2
      OBVIOUS
    <3>2. QED
      BY <1>1, <3>1, Zenon
  <2>4. QED
    BY <2>1, <2>2, <2>3, Zenon
<1>6. QED
  BY <1>2, <1>3, <1>4, <1>5

(***************************************************************************)
(* An entry's true path is the one join_path builds.                       *)
(***************************************************************************)
LEMMA ListedAsWritten ==
    ASSUME Inv, outcome = "parsing", NEW name \in Names, NEW kind \in Kinds,
           WriteEntry(name, kind)
    PROVE  /\ dir_stack = Prefix
           /\ List(name, kind) = written'
           /\ List(name, kind) \in Entries
           /\ depth > 0
<1>1. dir_stack = Prefix /\ dir_stack \in Paths /\ entries = written /\ entries \in Entries
  BY DEF Inv, TypeOK, StackIsPrefix, ListsTheTree, WriteEntry
<1>2. List(name, kind) = written'
  BY <1>1 DEF WriteEntry, List, join_path
<1>3. join_path(name) \in Paths
  BY <1>1 DEF join_path, Paths
<1>4. List(name, kind) \in Entries
  BY <1>1, <1>3 DEF List, Entries
<1>5. depth > 0
  BY DEF Inv, TypeOK, Paths, StackIsPrefix, WriteEntry
<1>6. QED
  BY <1>1, <1>2, <1>4, <1>5

(***************************************************************************)
(* Every step preserves the invariant, when only the root is named <ROOT>. *)
(***************************************************************************)
LEMMA StepInv == ASSUME ROOT \notin Names PROVE Inv /\ [Next]_vars => Inv'
<1> SUFFICES ASSUME Inv, [Next]_vars
             PROVE  Inv'
  OBVIOUS
<1> USE DEF Inv
<1>1. ASSUME NEW name \in RootNames, WriteRoot(name), ReadDirectory(name)
      PROVE  Inv'
  <2>1. /\ open = << >> /\ open' = <<name>>
        /\ depth = 0 /\ depth' = 1
        /\ dir_stack = << >>
        /\ entries' = entries
        /\ dir_stack' = IF name # ROOT THEN <<name>> ELSE << >>
    BY <1>1 DEF WriteRoot, ReadDirectory, TypeOK, Paths, StackIsPrefix
  <2>2. TypeOK'
    <3>1. open' \in Paths /\ dir_stack' \in Paths
      <4>1. << >> \in Paths /\ <<name>> \in Paths
        BY DEF Paths
      <4>2. QED
        BY <2>1, <4>1
    <3>2. depth' \in Nat
      BY <2>1
    <3>3. QED
      BY <1>1, <2>1, <3>1, <3>2 DEF WriteRoot, ReadDirectory, TypeOK
  <2>3. StackIsPrefix'
    BY <1>1, <2>1 DEF StackIsPrefix, Prefix
  <2>4. QED
    BY <1>1, <2>1, <2>2, <2>3
    DEF WriteRoot, ReadDirectory, RootIsFirst, ListsTheTree, CompleteIffClosed
<1>2. ASSUME NEW name \in Names, WriteDirectory(name), ReadDirectory(name)
      PROVE  Inv'
  <2>1. /\ WriteEntry(name, "Directory")
        /\ outcome = "parsing"
        /\ "Directory" \in Kinds
        /\ open' = Append(open, name)
        /\ open # << >>
        /\ open \in Paths
        /\ UNCHANGED <<complete, outcome, closed, stray>>
    BY <1>2 DEF WriteDirectory, WriteEntry, ReadDirectory, Kinds, TypeOK
  <2>2. /\ dir_stack = Prefix
        /\ List(name, "Directory") = written'
        /\ List(name, "Directory") \in Entries
        /\ depth > 0
    BY <2>1, ListedAsWritten
  <2>3. /\ depth' = depth + 1
        /\ entries' = List(name, "Directory")
        /\ dir_stack' = Append(dir_stack, name)
    BY <1>2, <2>2 DEF ReadDirectory, TypeOK
  <2>4. TypeOK'
    BY <2>1, <2>2, <2>3 DEF TypeOK, Paths
  <2>5. StackIsPrefix'
    <3>1. open' # << >> /\ open'[1] = open[1] /\ Tail(open') = Append(Tail(open), name)
      BY <2>1, TailOfAppend DEF Paths
    <3>2. Len(open') = Len(open) + 1
      BY <2>1 DEF Paths
    <3>3. depth = Len(open)
      BY <2>1 DEF StackIsPrefix
    <3>4. QED
      BY <2>1, <2>2, <2>3, <3>1, <3>2, <3>3 DEF StackIsPrefix, Prefix
  <2>6. QED
    <3>1. open' # << >>
      BY <2>1 DEF Paths
    <3>2. QED
      BY <2>1, <2>2, <2>3, <2>4, <2>5, <3>1 DEF RootIsFirst, ListsTheTree, CompleteIffClosed
<1>3. ASSUME NEW name \in Names, NEW kind \in Leaves, WriteLeaf(name, kind), ReadLeaf(name, kind)
      PROVE  Inv'
  <2>1. /\ WriteEntry(name, kind)
        /\ outcome = "parsing"
        /\ kind \in Kinds
        /\ UNCHANGED <<depth, dir_stack, complete, outcome, open, closed, stray>>
    BY <1>3 DEF WriteLeaf, ReadLeaf, Leaves
  <2>2. List(name, kind) = written' /\ List(name, kind) \in Entries
    BY <2>1, ListedAsWritten
  <2>3. entries' = List(name, kind)
    BY <1>3 DEF ReadLeaf
  <2>4. QED
    BY <2>1, <2>2, <2>3
    DEF WriteEntry, TypeOK, StackIsPrefix, RootIsFirst, Prefix, ListsTheTree, CompleteIffClosed
<1>4. CASE WriteEnd /\ ReadEnd
  <2>1. /\ open # << >> /\ open \in Paths
        /\ depth = Len(open) /\ dir_stack = Prefix /\ dir_stack \in Paths
        /\ outcome = "parsing"
    BY <1>4 DEF WriteEnd, ReadEnd, StackIsPrefix, TypeOK
  <2>2. /\ open' = Front(open) /\ open' \in Paths /\ Len(open') = Len(open) - 1
    BY <1>4, <2>1, FrontOfPath DEF WriteEnd, Paths
  <2>3. depth' = Len(open') /\ depth' \in Nat /\ Len(open) \in Nat \ {0}
    BY <1>4, <2>1, <2>2 DEF ReadEnd, saturating_sub, Paths
  <2>4. dir_stack' = Pop(dir_stack) /\ dir_stack' \in Paths
    BY <1>4, <2>1, FrontOfPath DEF ReadEnd, Pop, Paths
  <2>5. (depth' = 0) = (Len(open) = 1)
    BY <2>1, <2>2, <2>3
  <2>6. /\ complete' = (depth' = 0)
        /\ closed' = (depth' = 0)
        /\ outcome' = IF depth' = 0 THEN "ok" ELSE "parsing"
        /\ UNCHANGED <<entries, written, stray>>
    BY <1>4, <2>5 DEF WriteEnd, ReadEnd
  <2>7. ASSUME depth' # 0
        PROVE  dir_stack' = Prefix'
    <3>1. Len(open) > 1
      BY <2>2, <2>3, <2>7
    <3>2. /\ open' # << >> /\ open'[1] = open[1]
          /\ Tail(open) # << >> /\ Front(Tail(open)) = Tail(open')
      BY <2>1, <2>2, <3>1, FrontOfTail DEF Paths
    <3>3. Prefix' = IF open[1] = ROOT THEN Tail(open') ELSE open'
      BY <3>2 DEF Prefix
    <3>4. CASE open[1] = ROOT
      <4>1. dir_stack = Tail(open)
        BY <2>1, <3>4 DEF Prefix
      <4>2. QED
        BY <2>4, <3>2, <3>3, <3>4, <4>1 DEF Pop
    <3>5. CASE open[1] # ROOT
      <4>1. dir_stack = open
        BY <2>1, <3>5 DEF Prefix
      <4>2. QED
        BY <2>1, <2>2, <2>4, <3>3, <3>5, <4>1 DEF Pop
    <3>6. QED
      BY <3>4, <3>5
  <2>8. StackIsPrefix'
    BY <2>2, <2>3, <2>6, <2>7 DEF StackIsPrefix, Paths
  <2>9. TypeOK'
    BY <2>2, <2>3, <2>4, <2>6 DEF TypeOK
  <2>10. QED
    <3>1. outcome' = "parsing" => open' # << >>
      BY <2>2, <2>3, <2>6 DEF Paths
    <3>2. QED
      BY <2>1, <2>6, <2>8, <2>9, <3>1 DEF RootIsFirst, ListsTheTree, CompleteIffClosed
<1>5. CASE WriteStrayEnd /\ ReadEnd
  <2>1. /\ open = << >> /\ depth = 0 /\ dir_stack = << >>
        /\ written' = written /\ open' = open /\ closed' = closed /\ stray' = TRUE
    BY <1>5 DEF WriteStrayEnd, ReadEnd, TypeOK, Paths, StackIsPrefix
  <2>2. entries = << >>
    BY <1>5, <2>1 DEF ReadEnd, RootIsFirst, ListsTheTree
  <2>3. depth' = 0 /\ dir_stack' = dir_stack
    <3>1. 0 < 1
      OBVIOUS
    <3>2. QED
      BY <1>5, <2>1, <3>1, Zenon DEF ReadEnd, Pop, saturating_sub
  <2>4. complete' = TRUE /\ outcome' = "ok" /\ entries' = entries
    BY <1>5, <2>3, Zenon DEF ReadEnd
  <2>5. QED
    BY <2>1, <2>2, <2>3, <2>4
    DEF TypeOK, StackIsPrefix, RootIsFirst, ListsTheTree, CompleteIffClosed
<1>6. CASE (StopEarly \/ EntryCut \/ EntryMalformed) /\ UNCHANGED writer
  BY <1>6 DEF StopEarly, EntryCut, EntryMalformed, writer, TypeOK,
              StackIsPrefix, RootIsFirst, ListsTheTree, CompleteIffClosed
<1>7. CASE UNCHANGED vars
  BY <1>7 DEF vars, TypeOK, StackIsPrefix, RootIsFirst, Prefix, ListsTheTree, CompleteIffClosed
<1>8. QED
  BY <1>1, <1>2, <1>3, <1>4, <1>5, <1>6, <1>7 DEF Next

(***************************************************************************)
(* The parser's variables keep their types.                                *)
(***************************************************************************)
THEOREM TypeCorrect == ASSUME ROOT \notin Names PROVE Spec => []TypeOK
<1>1. Inv => TypeOK
  BY DEF Inv
<1>2. QED
  BY InitInv, StepInv, <1>1, PTL DEF Spec

(***************************************************************************)
(* parse_catalog lists every entry under its true path.                    *)
(***************************************************************************)
THEOREM ListingIsFaithful == ASSUME ROOT \notin Names PROVE Spec => []ListsTheTree
<1>1. Inv => ListsTheTree
  BY DEF Inv
<1>2. QED
  BY InitInv, StepInv, <1>1, PTL DEF Spec

(***************************************************************************)
(* is_complete() holds of exactly the catalogues whose root was closed, or *)
(* that begin with the end of a directory and of which nothing is listed.  *)
(***************************************************************************)
THEOREM CompletenessIsExact == ASSUME ROOT \notin Names PROVE Spec => []CompleteIffClosed
<1>1. Inv => CompleteIffClosed
  BY DEF Inv
<1>2. QED
  BY InitInv, StepInv, <1>1, PTL DEF Spec
=============================================================================
