---------------------------- MODULE Report_proofs ----------------------------
(***************************************************************************)
(* audit() on catalogues of every length, whatever their entries: what it  *)
(* reports, how often, and in which order; and what a reader makes of the  *)
(* text that write_bodyfile writes.                                        *)
(***************************************************************************)
EXTENDS Report, FiniteSetTheorems, SequenceTheorems, NaturalsInduction, WellFoundedInduction,
        TLAPS

(***************************************************************************)
(* The stable sort.  r ranks the positions 1..n.                           *)
(***************************************************************************)
Before(r, i, j) == r[i] > r[j] \/ (r[i] = r[j] /\ i < j)
Ahead(r, n, i) == {j \in 1..n : Before(r, j, i)}

PlaceOf(r, n) == [i \in 1..n |-> 1 + Cardinality(Ahead(r, n, i))]
Taken(r, n) == [k \in 1..n |-> CHOOSE i \in 1..n : PlaceOf(r, n)[i] = k]

\* No two positions have the same place, and every place is taken.
LEMMA Places ==
    ASSUME NEW n \in Nat, NEW r \in [1..n -> Nat]
    PROVE  /\ PlaceOf(r, n) \in [1..n -> 1..n]
           /\ \A i, j \in 1..n : Before(r, i, j) => PlaceOf(r, n)[i] < PlaceOf(r, n)[j]
           /\ \A k \in 1..n : \E i \in 1..n : PlaceOf(r, n)[i] = k
<1> DEFINE pl == PlaceOf(r, n)
<1>1. IsFiniteSet(1..n) /\ Cardinality(1..n) = n
  BY FS_Interval
<1>2. \A i \in 1..n : /\ Ahead(r, n, i) \in SUBSET (1..n)
                      /\ i \notin Ahead(r, n, i)
  BY DEF Ahead, Before
<1>3. \A i \in 1..n : /\ IsFiniteSet(Ahead(r, n, i))
                      /\ Cardinality(Ahead(r, n, i)) \in Nat
                      /\ Cardinality(Ahead(r, n, i)) < n
  <2>1. TAKE i \in 1..n
  <2>2. /\ IsFiniteSet(Ahead(r, n, i))
        /\ Cardinality(Ahead(r, n, i)) <= n
        /\ Cardinality(Ahead(r, n, i)) = n => Ahead(r, n, i) = 1..n
    BY <1>1, <1>2, FS_Subset
  <2>3. Cardinality(Ahead(r, n, i)) \in Nat
    BY <2>2, FS_CardinalityType
  <2>4. Cardinality(Ahead(r, n, i)) # n
    BY <2>2, <1>2
  <2>5. QED
    BY <2>2, <2>3, <2>4
<1>4. pl \in [1..n -> 1..n]
  <2>1. \A i \in 1..n : 1 + Cardinality(Ahead(r, n, i)) \in 1..n
    BY <1>3
  <2>2. QED
    BY <2>1 DEF PlaceOf
<1>5. \A i, j \in 1..n : Before(r, i, j) => pl[i] < pl[j]
  <2>1. SUFFICES ASSUME NEW i \in 1..n, NEW j \in 1..n, Before(r, i, j)
                 PROVE  Cardinality(Ahead(r, n, i)) < Cardinality(Ahead(r, n, j))
    BY <1>3 DEF PlaceOf
  <2>2. Ahead(r, n, i) \in SUBSET Ahead(r, n, j)
    BY <2>1 DEF Ahead, Before
  <2>3. i \in Ahead(r, n, j)
    BY <2>1 DEF Ahead
  <2>4. /\ Cardinality(Ahead(r, n, i)) <= Cardinality(Ahead(r, n, j))
        /\ Cardinality(Ahead(r, n, i)) # Cardinality(Ahead(r, n, j))
    <3>1. IsFiniteSet(Ahead(r, n, j))
      BY <1>3
    <3>2. Ahead(r, n, i) # Ahead(r, n, j)
      BY <2>3, <1>2
    <3>3. QED
      BY <3>1, <3>2, <2>2, FS_Subset
  <2>5. QED
    BY <2>4, <1>3
<1> HIDE DEF pl
<1>6. pl \in Injection(1..n, 1..n)
  <2>1. \A i, j \in 1..n : i # j => Before(r, i, j) \/ Before(r, j, i)
    BY DEF Before
  <2>2. \A i, j \in 1..n : pl[i] = pl[j] => i = j
    <3>1. \A i \in 1..n : pl[i] \in Nat
      BY <1>4
    <3>2. QED
      BY <2>1, <3>1, <1>5
  <2>3. QED
    BY <1>4, <2>2 DEF Injection, IsInjective
<1>7. pl \in Surjection(1..n, 1..n)
  BY <1>1, <1>6, FS_Injection
<1>8. QED
  BY <1>4, <1>5, <1>7 DEF Surjection, pl

\* Who takes each place, in the order of the places.
LEMMA InPlace ==
    ASSUME NEW n \in Nat, NEW r \in [1..n -> Nat]
    PROVE  /\ Taken(r, n) \in Bijection(1..n, 1..n)
           /\ \A i, j \in 1..n : i < j => Before(r, Taken(r, n)[i], Taken(r, n)[j])
<1> DEFINE pl == PlaceOf(r, n)
           p == Taken(r, n)
<1>1. /\ pl \in [1..n -> 1..n]
      /\ \A i, j \in 1..n : Before(r, i, j) => pl[i] < pl[j]
      /\ \A k \in 1..n : \E i \in 1..n : pl[i] = k
  BY Places
<1>2. p = [k \in 1..n |-> CHOOSE i \in 1..n : pl[i] = k]
  BY DEF Taken
<1> HIDE DEF pl, p
<1>3. \A k \in 1..n : p[k] \in 1..n /\ pl[p[k]] = k
  BY <1>1, <1>2
<1>4. p \in [1..n -> 1..n]
  BY <1>2, <1>3
<1>5. p \in Injection(1..n, 1..n)
  <2>1. \A i, j \in 1..n : p[i] = p[j] => i = j
    <3>1. TAKE i, j \in 1..n
    <3>2. pl[p[i]] = i /\ pl[p[j]] = j
      BY <1>3
    <3>3. QED
      BY <3>2
  <2>2. QED
    BY <2>1, <1>4 DEF Injection, IsInjective
<1>6. IsFiniteSet(1..n)
  BY FS_Interval
<1>7. p \in Surjection(1..n, 1..n)
  BY <1>5, <1>6, FS_Injection
<1>8. \A i, j \in 1..n : i < j => Before(r, p[i], p[j])
  <2>1. TAKE i, j \in 1..n
  <2>2. HAVE i < j
  <2>3. /\ p[i] \in 1..n /\ pl[p[i]] = i
        /\ p[j] \in 1..n /\ pl[p[j]] = j
    BY <1>3
  <2>4. ~ Before(r, p[j], p[i])
    <3>1. SUFFICES ASSUME Before(r, p[j], p[i])
                   PROVE  FALSE
      OBVIOUS
    <3>2. pl[p[j]] < pl[p[i]]
      BY <3>1, <2>3, <1>1
    <3>3. QED
      BY <3>2, <2>2, <2>3
  <2>5. p[i] # p[j]
    BY <2>2, <2>3
  <2>6. r[p[i]] \in Nat /\ r[p[j]] \in Nat
    BY <2>3
  <2>7. QED
    BY <2>3, <2>4, <2>5, <2>6 DEF Before
<1>9. QED
  BY <1>5, <1>7, <1>8 DEF Bijection, p

RankOf(list) == [i \in DOMAIN list |-> Rank[severity(list[i])]]

LEMMA Severities ==
    ASSUME NEW a
    PROVE  /\ severity(a) \in {"Low", "Medium", "High"}
           /\ Rank[severity(a)] \in Nat
           /\ Rank[severity(a)] = 3 <=> a.kind = "IncompleteCatalog"
<1>1. /\ severity(a) \in {"Low", "Medium", "High"}
      /\ severity(a) = "High" <=> a.kind = "IncompleteCatalog"
  BY DEF severity
<1>2. Rank["Low"] = 1 /\ Rank["Medium"] = 2 /\ Rank["High"] = 3
  BY DEF Rank
<1>3. QED
  BY <1>1, <1>2

\* The sorted list is the list in another order: p says which.
LEMMA StableSort ==
    ASSUME NEW S, NEW list \in Seq(S)
    PROVE  \E p \in Bijection(DOMAIN list, DOMAIN list) :
              /\ BySeverity(list) = [k \in DOMAIN list |-> list[p[k]]]
              /\ \A i, j \in DOMAIN list : i < j => Precedes(list, p[i], p[j])
<1> DEFINE n == Len(list)
           r == RankOf(list)
<1>1. n \in Nat /\ DOMAIN list = 1..n
  BY LenProperties
<1>2. r \in [1..n -> Nat]
  BY <1>1, Severities DEF RankOf
<1>3. \A i, j \in 1..n : Precedes(list, i, j) <=> Before(r, i, j)
  BY <1>1 DEF Precedes, Before, RankOf
<1> HIDE DEF n, r
<1>4. \A i \in 1..n : place(list, i) = PlaceOf(r, n)[i]
  <2>1. TAKE i \in 1..n
  <2>2. {j \in DOMAIN list : Precedes(list, j, i)} = Ahead(r, n, i)
    BY <1>1, <1>3 DEF Ahead
  <2>3. QED
    BY <2>2 DEF place, PlaceOf
<1>5. BySeverity(list) = [k \in DOMAIN list |-> list[Taken(r, n)[k]]]
  <2>1. \A k \in 1..n : (CHOOSE i \in DOMAIN list : place(list, i) = k)
                          = (CHOOSE i \in 1..n : PlaceOf(r, n)[i] = k)
    <3>1. TAKE k \in 1..n
    <3>2. \A i : i \in DOMAIN list /\ place(list, i) = k
                    <=> i \in 1..n /\ PlaceOf(r, n)[i] = k
      BY <1>1, <1>4
    <3>3. QED
      BY <3>2
  <2>2. \A k \in 1..n : Taken(r, n)[k] = CHOOSE i \in 1..n : PlaceOf(r, n)[i] = k
    BY DEF Taken
  <2> DEFINE at(k) == CHOOSE i \in DOMAIN list : place(list, i) = k
  <2>3. BySeverity(list) = [k \in DOMAIN list |-> list[at(k)]]
    BY DEF BySeverity
  <2>4. \A k \in DOMAIN list : at(k) = Taken(r, n)[k]
    <3>1. TAKE k \in DOMAIN list
    <3>2. k \in 1..n
      BY <1>1
    <3>3. at(k) = CHOOSE i \in 1..n : PlaceOf(r, n)[i] = k
      BY <3>2, <2>1, Zenon
    <3>4. QED
      BY <3>2, <3>3, <2>2, Zenon
  <2> HIDE DEF at
  <2>5. QED
    BY <2>3, <2>4
<1>6. /\ Taken(r, n) \in Bijection(1..n, 1..n)
      /\ \A i, j \in 1..n : i < j => Before(r, Taken(r, n)[i], Taken(r, n)[j])
  BY <1>1, <1>2, InPlace
<1>7. \A i \in 1..n : Taken(r, n)[i] \in 1..n
  BY <1>6 DEF Bijection, Injection
<1>8. QED
  BY <1>1, <1>3, <1>5, <1>6, <1>7

-----------------------------------------------------------------------------
(***************************************************************************)
(* How often something stands in a list.                                   *)
(***************************************************************************)
Positions(list, a) == {i \in DOMAIN list : list[i] = a}
Count(list, a) == Cardinality(Positions(list, a))

LEMMA PositionsAreFinite ==
    ASSUME NEW S, NEW list \in Seq(S), NEW a
    PROVE  IsFiniteSet(Positions(list, a)) /\ Count(list, a) \in Nat
<1>1. DOMAIN list = 1..Len(list) /\ Len(list) \in Nat
  BY LenProperties
<1>2. IsFiniteSet(1..Len(list))
  BY <1>1, FS_Interval
<1>3. Positions(list, a) \in SUBSET (1..Len(list))
  BY <1>1 DEF Positions
<1>4. IsFiniteSet(Positions(list, a))
  BY <1>2, <1>3, FS_Subset
<1>5. QED
  BY <1>4, FS_CardinalityType DEF Count

\* What is behind Len(s) in s \o t.
Behind(s, t, a) == {i \in (Len(s) + 1)..(Len(s) + Len(t)) : t[i - Len(s)] = a}

LEMMA CountBehind ==
    ASSUME NEW S, NEW s \in Seq(S), NEW t \in Seq(S), NEW a
    PROVE  /\ IsFiniteSet(Behind(s, t, a))
           /\ Cardinality(Behind(s, t, a)) = Count(t, a)
<1> DEFINE m == Len(s)
           f == [i \in Positions(t, a) |-> m + i]
<1>1. m \in Nat /\ Len(t) \in Nat /\ DOMAIN t = 1..Len(t)
  BY LenProperties
<1> HIDE DEF m
<1>2. Behind(s, t, a) = {i \in (m + 1)..(m + Len(t)) : t[i - m] = a}
  BY DEF Behind, m
<1>3. Positions(t, a) = {i \in 1..Len(t) : t[i] = a}
  BY <1>1 DEF Positions
<1>4. \A i \in Positions(t, a) : m + i \in Behind(s, t, a)
  <2>1. TAKE i \in Positions(t, a)
  <2>2. i \in 1..Len(t) /\ t[i] = a
    BY <1>3
  <2>3. m + i \in (m + 1)..(m + Len(t)) /\ (m + i) - m = i
    BY <2>2, <1>1
  <2>4. QED
    BY <2>2, <2>3, <1>2
<1>5. f \in [Positions(t, a) -> Behind(s, t, a)]
  BY <1>4
<1>6. \A i, j \in Positions(t, a) : f[i] = f[j] => i = j
  BY <1>1, <1>3
<1>7. \A k \in Behind(s, t, a) : \E i \in Positions(t, a) : f[i] = k
  <2>1. TAKE k \in Behind(s, t, a)
  <2>2. k \in (m + 1)..(m + Len(t)) /\ t[k - m] = a
    BY <1>2
  <2>3. k - m \in 1..Len(t) /\ m + (k - m) = k
    BY <2>2, <1>1
  <2>4. k - m \in Positions(t, a)
    BY <2>2, <2>3, <1>3
  <2>5. QED
    BY <2>3, <2>4
<1> HIDE DEF f
<1>8. f \in Bijection(Positions(t, a), Behind(s, t, a))
  BY <1>5, <1>6, <1>7 DEF Bijection, Injection, Surjection, IsInjective
<1>9. ExistsBijection(Positions(t, a), Behind(s, t, a))
  BY <1>8 DEF ExistsBijection
<1>10. QED
  BY <1>9, PositionsAreFinite, FS_Bijection DEF Count

LEMMA CountConcat ==
    ASSUME NEW S, NEW s \in Seq(S), NEW t \in Seq(S), NEW a
    PROVE  Count(s \o t, a) = Count(s, a) + Count(t, a)
<1>1. /\ Len(s) \in Nat /\ Len(t) \in Nat
      /\ DOMAIN s = 1..Len(s) /\ DOMAIN t = 1..Len(t)
      /\ DOMAIN (s \o t) = 1..(Len(s) + Len(t))
      /\ \A i \in 1..(Len(s) + Len(t)) :
            (s \o t)[i] = IF i <= Len(s) THEN s[i] ELSE t[i - Len(s)]
  BY LenProperties, ConcatProperties
<1>2. Positions(s \o t, a) = Positions(s, a) \cup Behind(s, t, a)
  BY <1>1 DEF Positions, Behind
<1>3. Positions(s, a) \cap Behind(s, t, a) = {}
  BY <1>1 DEF Positions, Behind
<1>4. Cardinality(Positions(s, a) \cup Behind(s, t, a))
        = Count(s, a) + Count(t, a) - Cardinality({})
  BY <1>3, PositionsAreFinite, CountBehind, FS_Union DEF Count
<1>5. Count(s, a) \in Nat /\ Count(t, a) \in Nat
  BY PositionsAreFinite
<1>6. QED
  BY <1>2, <1>4, <1>5, FS_EmptySet DEF Count

\* Sorting changes no count.
LEMMA CountSorted ==
    ASSUME NEW S, NEW list \in Seq(S), NEW a
    PROVE  /\ BySeverity(list) \in Seq(S)
           /\ DOMAIN BySeverity(list) = DOMAIN list
           /\ Count(BySeverity(list), a) = Count(list, a)
<1>1. PICK p \in Bijection(DOMAIN list, DOMAIN list) :
              BySeverity(list) = [k \in DOMAIN list |-> list[p[k]]]
  BY StableSort
<1>2. /\ p \in [DOMAIN list -> DOMAIN list]
      /\ \A i, j \in DOMAIN list : p[i] = p[j] => i = j
      /\ \A k \in DOMAIN list : \E i \in DOMAIN list : p[i] = k
  BY <1>1 DEF Bijection, Injection, Surjection, IsInjective
<1>3. DOMAIN list = 1..Len(list) /\ Len(list) \in Nat
  BY LenProperties
<1>4. \A i \in DOMAIN list : list[i] \in S
  BY <1>3, ElementOfSeq
<1>5. BySeverity(list) \in Seq(S)
  <2>1. BySeverity(list) \in [1..Len(list) -> S]
    BY <1>1, <1>2, <1>3, <1>4
  <2>2. QED
    BY <2>1, <1>3, SeqDef
<1> DEFINE f == [k \in Positions(BySeverity(list), a) |-> p[k]]
<1>6. Positions(BySeverity(list), a) = {k \in DOMAIN list : list[p[k]] = a}
  BY <1>1 DEF Positions
<1>7. /\ f \in [Positions(BySeverity(list), a) -> Positions(list, a)]
      /\ \A i, j \in Positions(BySeverity(list), a) : f[i] = f[j] => i = j
      /\ \A k \in Positions(list, a) : \E i \in Positions(BySeverity(list), a) : f[i] = k
  BY <1>6, <1>2 DEF Positions
<1> HIDE DEF f
<1>8. f \in Bijection(Positions(BySeverity(list), a), Positions(list, a))
  BY <1>7 DEF Bijection, Injection, Surjection, IsInjective
<1>9. ExistsBijection(Positions(BySeverity(list), a), Positions(list, a))
  BY <1>8 DEF ExistsBijection
<1>10. Count(BySeverity(list), a) = Count(list, a)
  BY <1>9, <1>5, PositionsAreFinite, FS_Bijection DEF Count
<1>11. QED
  BY <1>1, <1>5, <1>10

-----------------------------------------------------------------------------
(***************************************************************************)
(* What one entry adds to the list.                                        *)
(***************************************************************************)
Singles == {"AbsolutePath", "ParentTraversal", "ControlCharsInName", "FutureTimestamp"}
About(path) == {Anomaly(kind, path) : kind \in Singles}

LEMMA CountOne ==
    ASSUME NEW S, NEW x \in S
    PROVE  /\ <<x>> \in Seq(S)
           /\ \A a : Count(<<x>>, a) = IF a = x THEN 1 ELSE 0
<1> DEFINE w == <<x>>
<1>1. w \in Seq(S) /\ DOMAIN w = {1} /\ w[1] = x
  OBVIOUS
<1> HIDE DEF w
<1>2. ASSUME NEW a
      PROVE  Positions(w, a) = IF a = x THEN {1} ELSE {}
  BY <1>1 DEF Positions
<1>3. ASSUME NEW a
      PROVE  Count(w, a) = IF a = x THEN 1 ELSE 0
  BY <1>2, FS_EmptySet, FS_Singleton DEF Count
<1>4. QED
  BY <1>1, <1>3 DEF w

LEMMA CountEmpty ==
    ASSUME NEW a
    PROVE  Count(<< >>, a) = 0
<1>1. Positions(<< >>, a) = {}
  BY DEF Positions
<1>2. QED
  BY <1>1, FS_EmptySet DEF Count

LEMMA Single ==
    ASSUME NEW S, NEW condition, NEW kind, NEW path, Anomaly(kind, path) \in S
    PROVE  /\ When(condition, kind, path) \in Seq(S)
           /\ Len(When(condition, kind, path)) \in 0..1
<1> DEFINE w == When(condition, kind, path)
<1>1. CASE condition
  <2>1. w = <<Anomaly(kind, path)>>
    BY <1>1 DEF When
  <2>2. QED
    BY <2>1
<1>2. CASE ~condition
  <2>1. w = << >>
    BY <1>2 DEF When
  <2>2. QED
    BY <2>1
<1>3. QED
  BY <1>1, <1>2

Few(s, S, n) == s \in Seq(S) /\ Len(s) \in 0..n

LEMMA OneMore ==
    ASSUME NEW S, NEW n \in Nat, NEW s, Few(s, S, n), NEW t, Few(t, S, 1)
    PROVE  Few(s \o t, S, n + 1)
<1>1. /\ s \in Seq(S) /\ t \in Seq(S)
      /\ Len(s) \in 0..n /\ Len(t) \in 0..1
  BY DEF Few
<1>2. s \o t \in Seq(S) /\ Len(s \o t) = Len(s) + Len(t)
  BY <1>1, ConcatProperties
<1>3. \A i \in 0..n, j \in 0..1 : i + j \in 0..(n + 1)
  OBVIOUS
<1>4. QED
  BY <1>1, <1>2, <1>3, Zenon DEF Few

LEMMA ObservationsAreFew ==
    ASSUME NEW e
    PROVE  /\ Observations(e) \in Seq(About(lossy(e.path)))
           /\ Len(Observations(e)) \in 0..6
<1> DEFINE q == lossy(e.path)
           S == About(lossy(e.path))
           w1 == When(IsAbsolute(e.path), "AbsolutePath", q)
           w2 == When(IsTraversal(e.path), "ParentTraversal", q)
           w3 == When(HasControls(e.path), "ControlCharsInName", q)
           w4 == When(IsFuture(e.atime), "FutureTimestamp", q)
           w5 == When(IsFuture(e.mtime), "FutureTimestamp", q)
           w6 == When(IsFuture(e.ctime), "FutureTimestamp", q)
<1>1. Observations(e) = w1 \o w2 \o w3 \o w4 \o w5 \o w6
  BY DEF Observations
<1>2. \A kind \in Singles : Anomaly(kind, q) \in S
  BY DEF About
<1>3. /\ Anomaly("AbsolutePath", q) \in S /\ Anomaly("ParentTraversal", q) \in S
      /\ Anomaly("ControlCharsInName", q) \in S /\ Anomaly("FutureTimestamp", q) \in S
  BY <1>2 DEF Singles
<1> HIDE DEF S, q
<1>4. /\ Few(w1, S, 1) /\ Few(w2, S, 1) /\ Few(w3, S, 1)
      /\ Few(w4, S, 1) /\ Few(w5, S, 1) /\ Few(w6, S, 1)
  BY <1>3, Single DEF Few
<1> HIDE DEF w1, w2, w3, w4, w5, w6
<1>5. 1 \in Nat /\ 2 \in Nat /\ 3 \in Nat /\ 4 \in Nat /\ 5 \in Nat
  OBVIOUS
<1>6. Few(w1 \o w2, S, 1 + 1)
  BY <1>4, <1>5, OneMore, Zenon
<1>7. Few(w1 \o w2 \o w3, S, 2 + 1)
  BY <1>4, <1>5, <1>6, 1 + 1 = 2, OneMore, Zenon
<1>8. Few(w1 \o w2 \o w3 \o w4, S, 3 + 1)
  BY <1>4, <1>5, <1>7, 2 + 1 = 3, OneMore, Zenon
<1>9. Few(w1 \o w2 \o w3 \o w4 \o w5, S, 4 + 1)
  BY <1>4, <1>5, <1>8, 3 + 1 = 4, OneMore, Zenon
<1>10. Few(w1 \o w2 \o w3 \o w4 \o w5 \o w6, S, 5 + 1)
  BY <1>4, <1>5, <1>9, 4 + 1 = 5, OneMore, Zenon
<1>11. QED
  BY <1>1, <1>10 DEF S, q, Few

-----------------------------------------------------------------------------
(***************************************************************************)
(* What is counted in the first n entries, and in one more.                *)
(***************************************************************************)
SeenIn(n) == {entries[i].path : i \in 1..n}
TwiceIn(n) ==
    {entries[i].path : i \in {j \in 1..n :
        \E k \in 1..n : k # j /\ entries[k].path = entries[j].path}}

LEMMA OneMoreSeen ==
    ASSUME NEW n \in Nat
    PROVE  /\ SeenIn(n + 1) = SeenIn(n) \cup {entries[n + 1].path}
           /\ TwiceIn(n + 1) = IF entries[n + 1].path \in SeenIn(n)
                               THEN TwiceIn(n) \cup {entries[n + 1].path}
                               ELSE TwiceIn(n)
<1> DEFINE path(i) == entries[i].path
<1>1. /\ SeenIn(n) = {path(i) : i \in 1..n}
      /\ SeenIn(n + 1) = {path(i) : i \in 1..(n + 1)}
  BY DEF SeenIn
<1>2. /\ TwiceIn(n) = {path(i) : i \in {j \in 1..n : \E k \in 1..n : k # j /\ path(k) = path(j)}}
      /\ TwiceIn(n + 1) = {path(i) : i \in {j \in 1..(n + 1) :
                              \E k \in 1..(n + 1) : k # j /\ path(k) = path(j)}}
  BY DEF TwiceIn
<1> HIDE DEF path
<1>3. 1..(n + 1) = 1..n \cup {n + 1} /\ n + 1 \notin 1..n
  OBVIOUS
<1>4. SeenIn(n + 1) = SeenIn(n) \cup {path(n + 1)}
  BY <1>1, <1>3
<1>5. ASSUME path(n + 1) \notin SeenIn(n)
      PROVE  TwiceIn(n + 1) = TwiceIn(n)
  <2>1. \A i \in 1..n : path(i) # path(n + 1)
    BY <1>1, <1>5
  <2>2. \A j \in 1..(n + 1) : (\E k \in 1..(n + 1) : k # j /\ path(k) = path(j))
            <=> j \in 1..n /\ \E k \in 1..n : k # j /\ path(k) = path(j)
    BY <2>1, <1>3
  <2>3. QED
    BY <2>2, <1>2, <1>3
<1>6. ASSUME path(n + 1) \in SeenIn(n)
      PROVE  TwiceIn(n + 1) = TwiceIn(n) \cup {path(n + 1)}
  <2>1. PICK m \in 1..n : path(m) = path(n + 1)
    BY <1>1, <1>6
  <2>2. \A q : q \in TwiceIn(n + 1) <=> \E j \in 1..(n + 1) : /\ q = path(j)
                 /\ \E k \in 1..(n + 1) : k # j /\ path(k) = path(j)
    BY <1>2
  <2>3. \A q : q \in TwiceIn(n) <=> \E j \in 1..n : /\ q = path(j)
                 /\ \E k \in 1..n : k # j /\ path(k) = path(j)
    BY <1>2
  <2>4. \A q : q \in TwiceIn(n) => q \in TwiceIn(n + 1)
    BY <2>2, <2>3, <1>3
  <2>5. path(n + 1) \in TwiceIn(n + 1)
    BY <2>1, <2>2, <1>3
  <2>6. ASSUME NEW q \in TwiceIn(n + 1), q # path(n + 1)
        PROVE  q \in TwiceIn(n)
    <3>1. PICK j \in 1..(n + 1) : /\ q = path(j)
                 /\ \E k \in 1..(n + 1) : k # j /\ path(k) = path(j)
      BY <2>2, <2>6
    <3>2. PICK k \in 1..(n + 1) : k # j /\ path(k) = path(j)
      BY <3>1
    <3>3. j \in 1..n /\ k \in 1..n
      BY <3>1, <3>2, <2>6, <1>3
    <3>4. QED
      BY <3>1, <3>2, <3>3, <2>3
  <2>7. QED
    BY <2>4, <2>5, <2>6
<1>7. QED
  BY <1>4, <1>5, <1>6 DEF path

\* What an entry adds to what is observed.
Added(n, a) == {<<n, k>> : k \in Positions(Observations(entries[n]), a)}

LEMMA OneMoreObserved ==
    ASSUME NEW n \in Nat, NEW a
    PROVE  /\ IsFiniteSet(Observed(n, a))
           /\ Cardinality(Observed(n, a)) \in Nat
           /\ Cardinality(Observed(n + 1, a))
                = Cardinality(Observed(n, a)) + Count(Observations(entries[n + 1]), a)
<1> DEFINE list(i) == Observations(entries[i])
           f == [k \in Positions(list(n + 1), a) |-> <<n + 1, k>>]
<1>1. \A m \in Nat : IsFiniteSet(Observed(m, a)) /\ Cardinality(Observed(m, a)) \in Nat
  <2>1. TAKE m \in Nat
  <2>2. IsFiniteSet(1..m) /\ IsFiniteSet(1..6)
    <3>1. 1 \in Int /\ 6 \in Int /\ m \in Int
      OBVIOUS
    <3>2. QED
      BY <3>1, FS_Interval, Zenon
  <2>3. IsFiniteSet((1..m) \X (1..6))
    BY <2>2, FS_Product
  <2>4. Observed(m, a) \in SUBSET ((1..m) \X (1..6))
    BY DEF Observed
  <2>5. IsFiniteSet(Observed(m, a))
    BY <2>3, <2>4, FS_Subset
  <2>6. QED
    BY <2>5, FS_CardinalityType
<1>2. \A m \in Nat : Observed(m, a) =
          {p \in (1..m) \X (1..6) : p[2] \in DOMAIN list(p[1]) /\ list(p[1])[p[2]] = a}
  BY DEF Observed
<1>3. /\ list(n + 1) \in Seq(About(lossy(entries[n + 1].path)))
      /\ Len(list(n + 1)) \in 0..6
  BY ObservationsAreFew
<1>4. Added(n + 1, a) = {<<n + 1, k>> : k \in Positions(list(n + 1), a)}
  BY DEF Added
<1> HIDE DEF list
<1>5. Positions(list(n + 1), a) = {k \in 1..6 : k \in DOMAIN list(n + 1) /\ list(n + 1)[k] = a}
  <2>1. DOMAIN list(n + 1) = 1..Len(list(n + 1))
    BY <1>3, LenProperties
  <2> DEFINE k == Len(list(n + 1))
  <2>2. k \in 0..6
    BY <1>3
  <2> HIDE DEF k
  <2>3. 1..k \subseteq 1..6
    BY <2>2
  <2>4. QED
    BY <2>1, <2>3 DEF Positions, k
<1>6. Observed(n + 1, a) = Observed(n, a) \cup Added(n + 1, a)
  <2>1. 1..(n + 1) = 1..n \cup {n + 1} /\ n + 1 \in Nat
    OBVIOUS
  <2>2. ASSUME NEW p
        PROVE  p \in Observed(n + 1, a) <=> p \in Observed(n, a) \/ p \in Added(n + 1, a)
    <3>1. p \in Observed(n + 1, a) <=> \E i \in 1..(n + 1), k \in 1..6 :
              p = <<i, k>> /\ k \in DOMAIN list(i) /\ list(i)[k] = a
      BY <1>2, <2>1
    <3>2. p \in Observed(n, a) <=> \E i \in 1..n, k \in 1..6 :
              p = <<i, k>> /\ k \in DOMAIN list(i) /\ list(i)[k] = a
      BY <1>2
    <3>3. p \in Added(n + 1, a) <=> \E k \in 1..6 :
              p = <<n + 1, k>> /\ k \in DOMAIN list(n + 1) /\ list(n + 1)[k] = a
      BY <1>4, <1>5
    <3>4. QED
      BY <2>1, <3>1, <3>2, <3>3
  <2>3. QED
    BY <2>2
<1>7. Observed(n, a) \cap Added(n + 1, a) = {}
  <2>1. \A p \in Observed(n, a) : p[1] \in 1..n
    BY <1>2
  <2>2. \A p \in Added(n + 1, a) : p[1] = n + 1
    BY <1>4
  <2>3. n + 1 \notin 1..n
    OBVIOUS
  <2>4. QED
    BY <2>1, <2>2, <2>3
<1>8. f \in Bijection(Positions(list(n + 1), a), Added(n + 1, a))
  <2>1. f \in [Positions(list(n + 1), a) -> Added(n + 1, a)]
    BY <1>4
  <2>2. \A i, j \in Positions(list(n + 1), a) : f[i] = f[j] => i = j
    OBVIOUS
  <2>3. \A p \in Added(n + 1, a) : \E k \in Positions(list(n + 1), a) : f[k] = p
    BY <1>4
  <2> HIDE DEF f
  <2>4. QED
    BY <2>1, <2>2, <2>3 DEF Bijection, Injection, Surjection, IsInjective
<1>9. /\ IsFiniteSet(Added(n + 1, a))
      /\ Cardinality(Added(n + 1, a)) = Count(list(n + 1), a)
      /\ Count(list(n + 1), a) \in Nat
  BY <1>3, <1>8, PositionsAreFinite, FS_Bijection DEF ExistsBijection, Count
<1>10. Cardinality(Observed(n, a) \cup Added(n + 1, a))
         = Cardinality(Observed(n, a)) + Cardinality(Added(n + 1, a)) - Cardinality({})
  BY <1>1, <1>7, <1>9, FS_Union
<1>11. Cardinality(Observed(n + 1, a))
         = Cardinality(Observed(n, a)) + Count(list(n + 1), a)
  <2>1. \A u, v \in Nat : u + v - 0 = u + v
    OBVIOUS
  <2>2. Cardinality(Observed(n + 1, a))
          = Cardinality(Observed(n, a)) + Count(list(n + 1), a) - 0
    BY <1>6, <1>9, <1>10, FS_EmptySet, Zenon
  <2>3. Cardinality(Observed(n, a)) \in Nat /\ Count(list(n + 1), a) \in Nat
    BY <1>1, <1>9, Zenon
  <2>4. QED
    BY <2>1, <2>2, <2>3, Zenon
<1>12. QED
  BY <1>1, <1>11 DEF list

-----------------------------------------------------------------------------
(***************************************************************************)
(* Both walks go through the entries once, and the audit's sets hold what  *)
(* it has passed.                                                          *)
(***************************************************************************)
Auditing == phase \in {"auditing", "audited"}

Walk ==
    /\ TypeOK
    /\ entries \in Seq(EntryFields)
    /\ phase = "called" => next = 1
    /\ phase = "audited" => next = Len(entries) + 1
    /\ Auditing => seen = SeenIn(next - 1) /\ dup_seen = TwiceIn(next - 1)
    /\ ~Auditing => seen = {} /\ dup_seen = {}

LEMMA Passed ==
    ASSUME NEW n
    PROVE  TwiceIn(n) \subseteq SeenIn(n)
BY DEF TwiceIn, SeenIn

LEMMA WalkInit ==
    ASSUME Init
    PROVE  Walk
<1>1. PICK l \in Listings : entries = l.entries /\ complete = l.complete
  BY DEF Init
<1>2. entries \in Seq(EntryFields) /\ complete \in BOOLEAN
  BY <1>1, ReportConstants DEF ReportConstants
<1>3. Len(entries) \in Nat
  BY <1>2, LenProperties
<1>4. /\ phase = "called" /\ next = 1 /\ anomalies = << >>
      /\ seen = {} /\ dup_seen = {} /\ out = << >>
  BY DEF Init
<1>5. next \in 1..(Len(entries) + 1)
  BY <1>3, <1>4
<1>6. QED
  BY <1>2, <1>4, <1>5 DEF Walk, TypeOK, Auditing

\* An action that examines no entry leaves the sets alone.
LEMMA WalkStays ==
    ASSUME Walk, entries' = entries, complete' = complete,
           UNCHANGED <<seen, dup_seen>>,
           next' \in 1..(Len(entries) + 1),
           phase' \in {"called", "auditing", "audited", "writing", "written", "failed"},
           phase' = "called" => next' = 1,
           phase' = "audited" => next' = Len(entries) + 1,
           phase' \notin {"auditing", "audited"} => anomalies' = << >>,
           phase' \notin {"writing", "written", "failed"} => out' = << >>,
           phase' \in {"auditing", "audited"} =>
                next' = next /\ phase \in {"called", "auditing", "audited"},
           phase' \notin {"auditing", "audited"} => phase \notin {"auditing", "audited"}
    PROVE  Walk'
<1>1. SeenIn(0) = {} /\ TwiceIn(0) = {}
  BY DEF SeenIn, TwiceIn
<1>2. CASE phase' \in {"auditing", "audited"}
  <2>1. next' = next
    BY <1>2
  <2>2. seen = SeenIn(next - 1) /\ dup_seen = TwiceIn(next - 1)
    <3>1. CASE phase = "called"
      <4>1. next - 1 = 0
        BY <3>1 DEF Walk
      <4>2. QED
        BY <4>1, <3>1, <1>1 DEF Walk, Auditing
    <3>2. CASE phase # "called"
      BY <1>2, <3>2 DEF Walk, Auditing
    <3>3. QED
      BY <3>1, <3>2
  <2>3. (seen = SeenIn(next - 1) /\ dup_seen = TwiceIn(next - 1))'
    BY <2>1, <2>2 DEF SeenIn, TwiceIn
  <2>4. QED
    BY <1>2, <2>3 DEF Walk, TypeOK, Auditing
<1>3. CASE phase' \notin {"auditing", "audited"}
  <2>1. seen = {} /\ dup_seen = {}
    BY <1>3 DEF Walk, Auditing
  <2>2. QED
    BY <1>3, <2>1 DEF Walk, TypeOK, Auditing
<1>4. QED
  BY <1>2, <1>3

LEMMA WalkExamine ==
    ASSUME Walk, Examine
    PROVE  Walk'
<1> DEFINE n == next - 1
<1>1. /\ entries \in Seq(EntryFields) /\ Len(entries) \in Nat
      /\ next \in 1..(Len(entries) + 1) /\ next <= Len(entries)
      /\ phase = "auditing" /\ next' = next + 1
      /\ entries' = entries /\ complete' = complete /\ phase' = phase /\ out' = out
      /\ out = << >>
  BY LenProperties DEF Walk, TypeOK, Examine
<1>2. n \in Nat /\ n + 1 = next /\ next' - 1 = n + 1
  BY <1>1
<1>3. seen = SeenIn(n) /\ dup_seen = TwiceIn(n)
  BY <1>1 DEF Walk, Auditing
<1>4. /\ seen' = seen \cup {entries[next].path}
      /\ dup_seen' = IF entries[next].path \in seen
                     THEN dup_seen \cup {entries[next].path} ELSE dup_seen
  BY DEF Examine
<1> HIDE DEF n
<1>5. /\ SeenIn(n + 1) = SeenIn(n) \cup {entries[n + 1].path}
      /\ TwiceIn(n + 1) = IF entries[n + 1].path \in SeenIn(n)
                          THEN TwiceIn(n) \cup {entries[n + 1].path} ELSE TwiceIn(n)
  BY <1>2, OneMoreSeen
<1>6. seen' = SeenIn(n + 1) /\ dup_seen' = TwiceIn(n + 1)
  BY <1>2, <1>3, <1>4, <1>5
<1>7. SeenIn(next - 1)' = SeenIn(n + 1) /\ TwiceIn(next - 1)' = TwiceIn(n + 1)
  BY <1>1, <1>2 DEF SeenIn, TwiceIn
<1>8. next' \in 1..(Len(entries) + 1)
  BY <1>1
<1>9. /\ dup_seen' \subseteq seen'
      /\ seen' \subseteq {entries'[i].path : i \in 1..(next' - 1)}
  BY <1>1, <1>2, <1>6, Passed DEF SeenIn
<1>10. TypeOK'
  BY <1>1, <1>8, <1>9 DEF Walk, TypeOK
<1>11. QED
  BY <1>1, <1>6, <1>7, <1>10 DEF Walk, Auditing

LEMMA WalkStep ==
    ASSUME Walk, [Next]_vars
    PROVE  Walk'
<1>1. /\ entries \in Seq(EntryFields) /\ Len(entries) \in Nat
      /\ next \in 1..(Len(entries) + 1)
  BY LenProperties DEF Walk, TypeOK
<1>2. next > Len(entries) => next = Len(entries) + 1
  BY <1>1
<1>3. next <= Len(entries) => next + 1 \in 1..(Len(entries) + 1)
  BY <1>1
<1>4. CASE CallAudit
  BY <1>1, <1>4, WalkStays DEF CallAudit, Walk, TypeOK
<1>5. CASE Examine
  BY <1>5, WalkExamine
<1>6. CASE SortAnomalies
  BY <1>1, <1>2, <1>6, WalkStays DEF SortAnomalies, Walk, TypeOK
<1>7. CASE CallBodyfile
  BY <1>1, <1>7, WalkStays DEF CallBodyfile, Walk, TypeOK
<1>8. CASE WriteLine
  BY <1>1, <1>3, <1>8, WalkStays DEF WriteLine, Walk, TypeOK
<1>9. CASE Written
  BY <1>1, <1>9, WalkStays DEF Written, Walk, TypeOK
<1>10. CASE WriteFails
  BY <1>1, <1>10, WalkStays DEF WriteFails, Walk, TypeOK
<1>11. CASE UNCHANGED vars
  BY <1>11 DEF vars, Walk, TypeOK, Auditing, SeenIn, TwiceIn
<1>12. QED
  BY <1>4, <1>5, <1>6, <1>7, <1>8, <1>9, <1>10, <1>11 DEF Next

(***************************************************************************)
(* Each walk takes the entries one by one and keeps to its own variables.  *)
(***************************************************************************)
THEOREM TypesHold == Spec => []TypeOK
<1>1. Init => Walk
  BY WalkInit
<1>2. Walk /\ [Next]_vars => Walk'
  BY WalkStep
<1>3. Walk => TypeOK
  BY DEF Walk
<1>4. QED
  BY <1>1, <1>2, <1>3, PTL DEF Spec

-----------------------------------------------------------------------------
(***************************************************************************)
(* The audit's list says, of the entries passed, each thing as often as it *)
(* is there; sorting it changes no count.                                  *)
(***************************************************************************)
Truncated == Anomaly("IncompleteCatalog", << >>)
Listed ==
    {Anomaly(kind, q) : kind \in Singles \cup {"DuplicatePath"}, q \in Shown}
        \cup {Truncated}
Alike(paths, q) == {p \in paths : lossy(p) = q}

Tally ==
    Auditing =>
        /\ anomalies \in Seq(Listed)
        /\ IsFiniteSet(dup_seen)
        /\ \A q \in Shown :
            /\ Count(anomalies, Anomaly("DuplicatePath", q)) = Cardinality(Alike(dup_seen, q))
            /\ \A kind \in Singles :
                Count(anomalies, Anomaly(kind, q))
                    = Cardinality(Observed(next - 1, Anomaly(kind, q)))
        /\ Count(anomalies, Truncated) = IF complete THEN 0 ELSE 1

LEMMA Anomalies ==
    /\ \A kind, path, kind2, path2 :
        Anomaly(kind, path) = Anomaly(kind2, path2) <=> kind = kind2 /\ path = path2
    /\ "DuplicatePath" \notin Singles
    /\ "IncompleteCatalog" \notin Singles
    /\ "IncompleteCatalog" # "DuplicatePath"
<1>1. \A kind, path : /\ Anomaly(kind, path).kind = kind
                      /\ Anomaly(kind, path).path = path
  BY DEF Anomaly
<1>2. QED
  BY <1>1 DEF Singles

LEMMA TallyInit ==
    ASSUME Init
    PROVE  Tally
BY DEF Init, Tally, Auditing

LEMMA TallyCall ==
    ASSUME Walk, CallAudit
    PROVE  Tally'
<1>1. /\ complete \in BOOLEAN /\ complete' = complete /\ entries' = entries
      /\ anomalies' = When(~complete, "IncompleteCatalog", << >>)
      /\ next' = next /\ next = 1 /\ dup_seen' = dup_seen /\ dup_seen = {}
  BY DEF Walk, TypeOK, CallAudit, Auditing
<1>2. Truncated \in Listed
  BY DEF Listed
<1>3. /\ anomalies' \in Seq(Listed)
      /\ ~complete => \A a : Count(anomalies', a) = IF a = Truncated THEN 1 ELSE 0
      /\ complete => \A a : Count(anomalies', a) = 0
  <2>1. CASE complete
    <3>1. anomalies' = << >>
      BY <1>1, <2>1 DEF When
    <3>2. << >> \in Seq(Listed)
      OBVIOUS
    <3>3. QED
      BY <2>1, <3>1, <3>2, CountEmpty
  <2>2. CASE ~complete
    <3>1. anomalies' = <<Truncated>>
      BY <1>1, <2>2 DEF When, Truncated
    <3>2. <<Truncated>> \in Seq(Listed)
      BY <1>2
    <3>3. \A a : Count(<<Truncated>>, a) = IF a = Truncated THEN 1 ELSE 0
      BY <1>2, CountOne
    <3>4. QED
      BY <2>2, <3>1, <3>2, <3>3
  <2>3. QED
    BY <2>1, <2>2
<1>4. Listed' = Listed
  BY <1>1 DEF Listed, Shown
<1>5. \A kind \in Singles \cup {"DuplicatePath"} : \A q : Anomaly(kind, q) # Truncated
  BY Anomalies DEF Truncated
<1>6. \A kind \in Singles \cup {"DuplicatePath"} : \A q : Count(anomalies', Anomaly(kind, q)) = 0
  BY <1>1, <1>3, <1>5
<1>7. Count(anomalies', Truncated) = IF complete THEN 0 ELSE 1
  BY <1>1, <1>3
<1>8. \A a : Observed(0, a) = {}
  BY DEF Observed
<1>9. \A a : Observed(next - 1, a)' = {}
  BY <1>1 DEF Observed
<1>10. \A q : Alike(dup_seen, q)' = {}
  BY <1>1 DEF Alike
<1>11. QED
  BY <1>1, <1>3, <1>4, <1>6, <1>7, <1>9, <1>10, FS_EmptySet DEF Tally

LEMMA TallySort ==
    ASSUME Walk, Tally, SortAnomalies
    PROVE  Tally'
<1>1. /\ Auditing /\ anomalies \in Seq(Listed)
      /\ anomalies' = BySeverity(anomalies)
      /\ UNCHANGED <<entries, complete, next, dup_seen>>
  BY DEF Tally, SortAnomalies, Auditing
<1>2. /\ anomalies' \in Seq(Listed)
      /\ \A a : Count(anomalies', a) = Count(anomalies, a)
  BY <1>1, CountSorted
<1>3. Listed' = Listed /\ Shown' = Shown
  BY <1>1 DEF Listed, Shown
<1>4. /\ \A a : Observed(next - 1, a)' = Observed(next - 1, a)
      /\ \A q : Alike(dup_seen, q)' = Alike(dup_seen, q)
  BY <1>1 DEF Observed, Alike
<1>5. QED
  BY <1>1, <1>2, <1>3, <1>4 DEF Tally

LEMMA Wider ==
    ASSUME NEW S, NEW T, S \subseteq T, NEW s \in Seq(S)
    PROVE  s \in Seq(T)
<1>1. s \in [1..Len(s) -> S] /\ Len(s) \in Nat
  BY LenProperties
<1>2. s \in [1..Len(s) -> T]
  BY <1>1
<1>3. QED
  BY <1>1, <1>2, SeqDef

LEMMA Absent ==
    ASSUME NEW S, NEW list \in Seq(S), NEW a, a \notin S
    PROVE  Count(list, a) = 0
<1>1. \A i \in DOMAIN list : list[i] \in S
  BY LenProperties, ElementOfSeq
<1>2. Positions(list, a) = {}
  BY <1>1 DEF Positions
<1>3. QED
  BY <1>2, FS_EmptySet DEF Count

LEMMA OneMoreAlike ==
    ASSUME NEW S, IsFiniteSet(S), NEW x, x \notin S, NEW q
    PROVE  /\ IsFiniteSet(S \cup {x})
           /\ Cardinality(Alike(S, q)) \in Nat
           /\ Cardinality(Alike(S \cup {x}, q))
                = Cardinality(Alike(S, q)) + IF q = lossy(x) THEN 1 ELSE 0
<1>1. Alike(S, q) \in SUBSET S /\ x \notin Alike(S, q)
  BY DEF Alike
<1>2. IsFiniteSet(Alike(S, q)) /\ Cardinality(Alike(S, q)) \in Nat
  BY <1>1, FS_Subset, FS_CardinalityType
<1>3. IsFiniteSet(S \cup {x})
  BY FS_AddElement
<1>4. CASE q = lossy(x)
  <2>1. Alike(S \cup {x}, q) = Alike(S, q) \cup {x}
    BY <1>4 DEF Alike
  <2>2. Cardinality(Alike(S, q) \cup {x}) = Cardinality(Alike(S, q)) + 1
    BY <1>1, <1>2, FS_AddElement
  <2>3. QED
    BY <1>2, <1>3, <1>4, <2>1, <2>2
<1>5. CASE q # lossy(x)
  <2>1. Alike(S \cup {x}, q) = Alike(S, q)
    BY <1>5 DEF Alike
  <2>2. QED
    BY <1>2, <1>3, <1>5, <2>1
<1>6. QED
  BY <1>4, <1>5

LEMMA TallyExamine ==
    ASSUME Walk, Tally, Examine
    PROVE  Tally'
<1> DEFINE n == next - 1
           path == entries[next].path
           again == path \in seen /\ path \notin dup_seen
           obs == Observations(entries[next])
           dup == When(again, "DuplicatePath", lossy(path))
           Twin(q) == Anomaly("DuplicatePath", q)
<1>1. /\ Auditing /\ Auditing'
      /\ next \in 1..Len(entries) /\ next \in DOMAIN entries /\ next' = next + 1
      /\ entries' = entries /\ complete' = complete
  BY LenProperties DEF Walk, TypeOK, Examine, Auditing
<1>2. n \in Nat /\ n + 1 = next /\ next' - 1 = n + 1
  <2>1. Len(entries) \in Nat
    BY LenProperties DEF Walk
  <2>2. QED
    BY <1>1, <2>1
<1>3. /\ anomalies' = anomalies \o obs \o dup
      /\ dup_seen' = IF path \in seen THEN dup_seen \cup {path} ELSE dup_seen
  BY DEF Examine
<1>4. dup = IF again THEN <<Twin(lossy(path))>> ELSE << >>
  BY DEF When
<1>5. /\ anomalies \in Seq(Listed) /\ IsFiniteSet(dup_seen)
      /\ Count(anomalies, Truncated) = IF complete THEN 0 ELSE 1
      /\ \A q \in Shown : Count(anomalies, Twin(q)) = Cardinality(Alike(dup_seen, q))
      /\ \A q \in Shown : \A kind \in Singles :
            Count(anomalies, Anomaly(kind, q)) = Cardinality(Observed(n, Anomaly(kind, q)))
  BY <1>1 DEF Tally
<1>6. dup_seen \subseteq seen
  BY DEF Walk, TypeOK
<1>7. lossy(path) \in Shown
  BY <1>1 DEF Shown
<1>8. obs \in Seq(About(lossy(path)))
  BY ObservationsAreFew
<1>9. /\ About(lossy(path)) \subseteq Listed
      /\ Twin(lossy(path)) \in Listed
  BY <1>7 DEF About, Listed
<1>10. /\ \A q : Twin(q) \notin About(lossy(path))
       /\ Truncated \notin About(lossy(path))
       /\ \A q : Twin(q) # Truncated
       /\ \A kind \in Singles : \A q, r : Anomaly(kind, q) # Twin(r)
       /\ \A q, r : Twin(q) = Twin(r) <=> q = r
  BY Anomalies DEF About, Truncated
<1> HIDE DEF n, path, obs, dup, Twin
<1>11. obs \in Seq(Listed)
  BY <1>8, <1>9, Wider
<1>12. dup \in Seq(Listed)
  <2>1. << >> \in Seq(Listed) /\ <<Twin(lossy(path))>> \in Seq(Listed)
    BY <1>9
  <2>2. QED
    BY <2>1, <1>4
<1>13. anomalies \o obs \in Seq(Listed)
  BY <1>5, <1>11, ConcatProperties
<1>14. anomalies' \in Seq(Listed)
  BY <1>3, <1>12, <1>13, ConcatProperties
<1>15. \A a : /\ Count(anomalies', a) = Count(anomalies, a) + Count(obs, a) + Count(dup, a)
              /\ Count(anomalies, a) \in Nat /\ Count(obs, a) \in Nat /\ Count(dup, a) \in Nat
  <2>1. TAKE a
  <2>2. Count(anomalies \o obs \o dup, a) = Count(anomalies \o obs, a) + Count(dup, a)
    BY <1>12, <1>13, CountConcat
  <2>3. Count(anomalies \o obs, a) = Count(anomalies, a) + Count(obs, a)
    BY <1>5, <1>11, CountConcat
  <2>4. Count(anomalies, a) \in Nat /\ Count(obs, a) \in Nat /\ Count(dup, a) \in Nat
    BY <1>5, <1>11, <1>12, PositionsAreFinite
  <2>5. QED
    BY <1>3, <2>2, <2>3, <2>4
<1>16. /\ \A q : Count(obs, Twin(q)) = 0
       /\ Count(obs, Truncated) = 0
  BY <1>8, <1>10, Absent
<1>17. \A a : Count(dup, a) = IF again /\ a = Twin(lossy(path)) THEN 1 ELSE 0
  <2>1. \A a : /\ Count(<<Twin(lossy(path))>>, a) = IF a = Twin(lossy(path)) THEN 1 ELSE 0
               /\ Count(<< >>, a) = 0
    BY <1>9, CountOne, CountEmpty
  <2>2. QED
    BY <2>1, <1>4
<1>18. /\ Listed' = Listed /\ Shown' = Shown
       /\ \A a : Observed(next - 1, a)' = Observed(n + 1, a)
  BY <1>1, <1>2 DEF Listed, Shown, Observed
<1>19. IsFiniteSet(dup_seen') /\ \A q : Cardinality(Alike(dup_seen, q)) \in Nat /\
         Cardinality(Alike(dup_seen', q))
            = Cardinality(Alike(dup_seen, q)) + IF again /\ q = lossy(path) THEN 1 ELSE 0
  <2>1. CASE again
    <3>1. dup_seen' = dup_seen \cup {path}
      BY <2>1, <1>3
    <3>2. path \notin dup_seen
      BY <2>1
    <3>3. IsFiniteSet(dup_seen \cup {path})
      BY <1>5, FS_AddElement
    <3>4. ASSUME NEW q
          PROVE  /\ Cardinality(Alike(dup_seen, q)) \in Nat
                 /\ Cardinality(Alike(dup_seen \cup {path}, q))
                      = Cardinality(Alike(dup_seen, q)) + IF q = lossy(path) THEN 1 ELSE 0
      <4>1. IsFiniteSet(dup_seen)
        BY <1>5
      <4>2. QED
        BY <3>2, <4>1, OneMoreAlike, Zenon
    <3>5. QED
      BY <2>1, <3>1, <3>3, <3>4
  <2>2. CASE ~again
    <3>1. dup_seen' = dup_seen
      BY <2>2, <1>3
    <3>2. \A q : Cardinality(Alike(dup_seen, q)) \in Nat
      <4>1. \A q : Alike(dup_seen, q) \in SUBSET dup_seen
        BY DEF Alike
      <4>2. QED
        BY <4>1, <1>5, FS_Subset, FS_CardinalityType
    <3>3. QED
      BY <2>2, <3>1, <3>2, <1>5
  <2>3. QED
    BY <2>1, <2>2
<1> HIDE DEF again
<1>20. \A q \in Shown : Count(anomalies', Twin(q)) = Cardinality(Alike(dup_seen', q))
  <2>1. TAKE q \in Shown
  <2>2. /\ Count(anomalies', Twin(q)) = Count(anomalies, Twin(q)) + 0 + Count(dup, Twin(q))
        /\ Count(anomalies, Twin(q)) \in Nat /\ Count(dup, Twin(q)) \in Nat
    BY <1>15, <1>16
  <2>3. Count(dup, Twin(q)) = IF again /\ q = lossy(path) THEN 1 ELSE 0
    BY <1>10, <1>17
  <2>4. QED
    BY <2>2, <2>3, <1>5, <1>19
<1>21. \A q \in Shown : \A kind \in Singles :
            Count(anomalies', Anomaly(kind, q))
                = Cardinality(Observed(n + 1, Anomaly(kind, q)))
  <2>1. TAKE q \in Shown
  <2>2. TAKE kind \in Singles
  <2> DEFINE a == Anomaly(kind, q)
  <2>3. Count(dup, a) = 0
    BY <1>10, <1>17
  <2>4. Cardinality(Observed(n + 1, a)) = Cardinality(Observed(n, a)) + Count(obs, a)
    BY <1>2, OneMoreObserved DEF obs
  <2>5. Count(anomalies, a) = Cardinality(Observed(n, a))
    BY <1>5
  <2> HIDE DEF a
  <2>6. Count(anomalies', a) = Cardinality(Observed(n + 1, a))
    BY <2>3, <2>4, <2>5, <1>15
  <2>7. QED
    BY <2>6 DEF a
<1>22. Count(anomalies', Truncated) = IF complete THEN 0 ELSE 1
  <2>1. Count(dup, Truncated) = 0
    BY <1>10, <1>17
  <2>2. QED
    BY <2>1, <1>5, <1>15, <1>16
<1>23. QED
  BY <1>1, <1>14, <1>18, <1>19, <1>20, <1>21, <1>22 DEF Tally, Twin

LEMMA TallyStep ==
    ASSUME Walk, Tally, [Next]_vars
    PROVE  Tally'
<1>1. CASE CallAudit
  BY <1>1, TallyCall
<1>2. CASE Examine
  BY <1>2, TallyExamine
<1>3. CASE SortAnomalies
  BY <1>3, TallySort
<1>4. CASE CallBodyfile
  BY <1>4 DEF CallBodyfile, Tally, Auditing
<1>5. CASE WriteLine
  BY <1>5 DEF WriteLine, Tally, Auditing
<1>6. CASE Written
  BY <1>6 DEF Written, Tally, Auditing
<1>7. CASE WriteFails
  BY <1>7 DEF WriteFails, Tally, Auditing
<1>8. CASE UNCHANGED vars
  BY <1>8 DEF vars, Tally, Auditing, Listed, Shown, Alike, Observed
<1>9. QED
  BY <1>1, <1>2, <1>3, <1>4, <1>5, <1>6, <1>7, <1>8 DEF Next

LEMMA TallyIsExact ==
    ASSUME Walk, Tally
    PROVE  ReportsExactly
<1>1. SUFFICES ASSUME phase = "audited"
               PROVE  ReportsExactly
  BY DEF ReportsExactly
<1>2. /\ Len(entries) \in Nat /\ DOMAIN entries = 1..Len(entries)
      /\ next = Len(entries) + 1 /\ next - 1 = Len(entries)
  BY <1>1, LenProperties DEF Walk
<1>3. /\ anomalies \in Seq(Listed)
      /\ \A q \in Shown :
            /\ Count(anomalies, Anomaly("DuplicatePath", q)) = Cardinality(Alike(dup_seen, q))
            /\ \A kind \in Singles :
                Count(anomalies, Anomaly(kind, q))
                    = Cardinality(Observed(next - 1, Anomaly(kind, q)))
      /\ Count(anomalies, Truncated) = IF complete THEN 0 ELSE 1
      /\ dup_seen = TwiceIn(next - 1)
  BY <1>1 DEF Tally, Auditing, Walk
<1>4. \A kind, q : Reported(kind, q) = Count(anomalies, Anomaly(kind, q))
  BY DEF Reported, Count, Positions
<1>5. dup_seen = StoredTwice
  BY <1>2, <1>3 DEF TwiceIn, StoredTwice
<1>6. \A q \in Shown : Reported("DuplicatePath", q) = Cardinality({p \in StoredTwice : lossy(p) = q})
  BY <1>3, <1>4, <1>5 DEF Alike
<1>7. \A q \in Shown : \A kind \in Singles :
          Reported(kind, q) = Cardinality(Observed(Len(entries), Anomaly(kind, q)))
  BY <1>2, <1>3, <1>4
<1>8. Reported("IncompleteCatalog", << >>) = IF complete THEN 0 ELSE 1
  BY <1>3, <1>4 DEF Truncated
<1>9. \A i \in DOMAIN anomalies :
          anomalies[i].kind # "IncompleteCatalog" => anomalies[i].path \in Shown
  <2>1. TAKE i \in DOMAIN anomalies
  <2>2. anomalies[i] \in Listed
    BY <1>3, LenProperties, ElementOfSeq
  <2>3. anomalies[i] = Truncated \/ \E kind, q : q \in Shown /\ anomalies[i] = Anomaly(kind, q)
    BY <2>2 DEF Listed
  <2>4. QED
    BY <2>3 DEF Truncated, Anomaly
<1>10. QED
  BY <1>6, <1>7, <1>8, <1>9 DEF ReportsExactly, Singles

(***************************************************************************)
(* The audit reports each thing as often as the catalogue shows it: a path *)
(* that several entries store once, what is wrong with one entry alone     *)
(* once for that entry, and that the catalogue is cut short once.          *)
(***************************************************************************)
THEOREM NothingMissedNorRepeated == Spec => []ReportsExactly
<1>1. Init => Walk /\ Tally
  BY WalkInit, TallyInit
<1>2. Walk /\ Tally /\ [Next]_vars => Walk' /\ Tally'
  BY WalkStep, TallyStep
<1>3. Walk /\ Tally => ReportsExactly
  BY TallyIsExact
<1>4. QED
  BY <1>1, <1>2, <1>3, PTL DEF Spec

-----------------------------------------------------------------------------
(***************************************************************************)
(* The order.  Before the sort the list follows the entries, with what is  *)
(* said of the catalogue in front.                                         *)
(***************************************************************************)
OfCatalogue(a) == a.kind = "IncompleteCatalog"
Follows(first, second) ==
    \A k, m \in DOMAIN entries : OnlyEntry(k, first.path) /\ OnlyEntry(m, second.path) => k <= m
Ordered(list, n) ==
    /\ \A i \in DOMAIN list : OfCatalogue(list[i]) => i = 1
    /\ \A i \in DOMAIN list : ~OfCatalogue(list[i]) =>
            \E x \in 1..n : list[i].path = lossy(entries[x].path)
    /\ \A i, j \in DOMAIN list :
            i < j /\ ~OfCatalogue(list[i]) /\ ~OfCatalogue(list[j]) => Follows(list[i], list[j])

InOrder == phase = "auditing" => Ordered(anomalies, next - 1)

\* What entry n adds comes behind.
LEMMA OrderExtends ==
    ASSUME NEW n \in 1..Len(entries), entries \in Seq(EntryFields),
           NEW S, NEW list \in Seq(S), NEW more \in Seq(S),
           Ordered(list, n),
           \A i \in DOMAIN more : /\ ~OfCatalogue(more[i])
                                  /\ more[i].path = lossy(entries[n].path)
    PROVE  Ordered(list \o more, n)
<1> DEFINE both == list \o more
<1>1. /\ Len(list) \in Nat /\ Len(more) \in Nat
      /\ DOMAIN list = 1..Len(list) /\ DOMAIN more = 1..Len(more)
      /\ DOMAIN both = 1..(Len(list) + Len(more))
      /\ \A i \in 1..(Len(list) + Len(more)) :
            both[i] = IF i <= Len(list) THEN list[i] ELSE more[i - Len(list)]
  BY LenProperties, ConcatProperties
<1> HIDE DEF both
<1>2. \A i \in DOMAIN both : \/ i \in DOMAIN list /\ both[i] = list[i]
                             \/ /\ i > Len(list) /\ i - Len(list) \in DOMAIN more
                                /\ both[i] = more[i - Len(list)]
  BY <1>1
<1>3. \A i \in DOMAIN both : i \notin DOMAIN list =>
          ~OfCatalogue(both[i]) /\ both[i].path = lossy(entries[n].path)
  BY <1>2
<1>4. \A i \in DOMAIN both : i \in DOMAIN list => both[i] = list[i]
  BY <1>1
<1>5. \A i \in DOMAIN both : OfCatalogue(both[i]) => i = 1
  BY <1>3, <1>4 DEF Ordered
<1>6. \A i \in DOMAIN both : ~OfCatalogue(both[i]) =>
          \E x \in 1..n : both[i].path = lossy(entries[x].path)
  <2>1. n \in 1..n
    OBVIOUS
  <2>2. QED
    BY <1>3, <1>4, <2>1 DEF Ordered
<1>7. ASSUME NEW i \in DOMAIN both, NEW j \in DOMAIN both, i < j,
             ~OfCatalogue(both[i]), ~OfCatalogue(both[j])
      PROVE  Follows(both[i], both[j])
  <2>1. CASE j \in DOMAIN list
    <3>1. i \in DOMAIN list
      BY <2>1, <1>1, <1>7
    <3>2. QED
      BY <2>1, <3>1, <1>4, <1>7 DEF Ordered
  <2>2. CASE j \notin DOMAIN list
    <3>1. both[j].path = lossy(entries[n].path) /\ n \in DOMAIN entries
      BY <2>2, <1>3, LenProperties
    <3>2. PICK x \in 1..n : both[i].path = lossy(entries[x].path) /\ x \in DOMAIN entries
      BY <1>6, <1>7, LenProperties
    <3>3. \A k \in DOMAIN entries : OnlyEntry(k, both[i].path) => k = x
      BY <3>2 DEF OnlyEntry
    <3>4. \A m \in DOMAIN entries : OnlyEntry(m, both[j].path) => m = n
      BY <3>1 DEF OnlyEntry
    <3>5. x <= n
      OBVIOUS
    <3>6. QED
      BY <3>3, <3>4, <3>5 DEF Follows
  <2>3. QED
    BY <2>1, <2>2
<1>8. QED
  BY <1>5, <1>6, <1>7 DEF Ordered, both

LEMMA OrderInit ==
    ASSUME Init
    PROVE  InOrder /\ WorstFirst
BY DEF Init, InOrder, WorstFirst

LEMMA OrderCall ==
    ASSUME Walk, CallAudit
    PROVE  InOrder'
<1>1. /\ anomalies' = When(~complete, "IncompleteCatalog", << >>)
      /\ next' = next
  BY DEF CallAudit
<1>2. DOMAIN anomalies' \subseteq {1} /\ \A i \in DOMAIN anomalies' : OfCatalogue(anomalies'[i])
  <2>1. CASE complete
    BY <1>1, <2>1 DEF When
  <2>2. CASE ~complete
    <3>1. anomalies' = <<Anomaly("IncompleteCatalog", << >>)>>
      BY <1>1, <2>2 DEF When
    <3>2. QED
      BY <3>1 DEF Anomaly, OfCatalogue
  <2>3. QED
    BY <2>1, <2>2
<1>3. Ordered(anomalies, next - 1)'
  BY <1>1, <1>2 DEF Ordered, OfCatalogue
<1>4. QED
  BY <1>3 DEF InOrder

LEMMA OrderExamine ==
    ASSUME Walk, Tally, InOrder, Examine
    PROVE  InOrder'
<1> DEFINE n == next - 1
           path == entries[next].path
           again == path \in seen /\ path \notin dup_seen
           obs == Observations(entries[next])
           dup == When(again, "DuplicatePath", lossy(path))
           S == About(lossy(path)) \cup {Anomaly("DuplicatePath", lossy(path))}
<1>1. /\ phase = "auditing" /\ phase' = "auditing"
      /\ entries \in Seq(EntryFields) /\ Len(entries) \in Nat
      /\ next \in 1..Len(entries) /\ next' = next + 1 /\ entries' = entries
  BY LenProperties DEF Walk, TypeOK, Examine
<1>2. anomalies' = anomalies \o obs \o dup
  BY DEF Examine
<1>3. anomalies \in Seq(Listed) /\ Ordered(anomalies, n)
  BY <1>1 DEF Tally, Auditing, InOrder
<1>4. \A a \in S : ~OfCatalogue(a) /\ a.path = lossy(path)
  BY DEF About, Anomaly, OfCatalogue, Singles
<1>5. obs \in Seq(About(lossy(path)))
  BY ObservationsAreFew
<1>6. dup = IF again THEN <<Anomaly("DuplicatePath", lossy(path))>> ELSE << >>
  BY DEF When
<1>7. About(lossy(path)) \subseteq S /\ Anomaly("DuplicatePath", lossy(path)) \in S
  OBVIOUS
<1> HIDE DEF path, obs, dup, S, again
<1>8. obs \in Seq(S)
  BY <1>5, <1>7, Wider
<1>9. dup \in Seq(S)
  <2>1. << >> \in Seq(S) /\ <<Anomaly("DuplicatePath", lossy(path))>> \in Seq(S)
    BY <1>7
  <2>2. QED
    BY <2>1, <1>6
<1>10. /\ \A i \in DOMAIN obs : ~OfCatalogue(obs[i]) /\ obs[i].path = lossy(entries[next].path)
       /\ \A i \in DOMAIN dup : ~OfCatalogue(dup[i]) /\ dup[i].path = lossy(entries[next].path)
  <2>1. /\ \A i \in DOMAIN obs : obs[i] \in S
        /\ \A i \in DOMAIN dup : dup[i] \in S
    BY <1>8, <1>9, LenProperties, ElementOfSeq
  <2>2. QED
    BY <2>1, <1>4 DEF path
<1>11. Ordered(anomalies, next)
  <2>1. 1..n \subseteq 1..next
    BY <1>1
  <2> HIDE DEF n
  <2>2. QED
    BY <1>3, <2>1 DEF Ordered
<1>12. Listed \subseteq Listed \cup S /\ S \subseteq Listed \cup S
  OBVIOUS
<1>13. /\ anomalies \in Seq(Listed \cup S) /\ obs \in Seq(Listed \cup S)
       /\ dup \in Seq(Listed \cup S)
  BY <1>3, <1>8, <1>9, <1>12, Wider, Zenon
<1>14. anomalies \o obs \in Seq(Listed \cup S) /\ Ordered(anomalies \o obs, next)
  BY <1>1, <1>10, <1>11, <1>13, OrderExtends, ConcatProperties
<1>15. Ordered(anomalies \o obs \o dup, next)
  BY <1>1, <1>10, <1>13, <1>14, OrderExtends
<1>16. next' - 1 = next
  BY <1>1
<1>17. Ordered(anomalies, next - 1)'
  <2> DEFINE both == anomalies \o obs \o dup
  <2> HIDE DEF both
  <2>1. \A k, q : OnlyEntry(k, q)' <=> OnlyEntry(k, q)
    BY <1>1 DEF OnlyEntry
  <2>2. Ordered(both, next) /\ anomalies' = both
    BY <1>2, <1>15 DEF both
  <2>3. QED
    BY <2>1, <2>2, <1>1, <1>16 DEF Ordered, Follows, OfCatalogue
<1>18. QED
  BY <1>17 DEF InOrder

\* The sort puts the worst in front and keeps the order of the others.
LEMMA SortedWorstFirst ==
    ASSUME Walk, Tally, InOrder, SortAnomalies
    PROVE  WorstFirst'
<1>1. /\ anomalies \in Seq(Listed) /\ Ordered(anomalies, next - 1)
      /\ anomalies' = BySeverity(anomalies) /\ entries' = entries
  BY DEF Tally, Auditing, InOrder, SortAnomalies
<1> DEFINE list == anomalies
           sorted == anomalies'
<1>2. PICK p \in Bijection(DOMAIN list, DOMAIN list) :
              /\ sorted = [k \in DOMAIN list |-> list[p[k]]]
              /\ \A i, j \in DOMAIN list : i < j => Precedes(list, p[i], p[j])
  BY <1>1, StableSort
<1>3. p \in [DOMAIN list -> DOMAIN list]
  BY DEF Bijection, Injection
<1>4. \A i \in DOMAIN sorted : /\ i \in DOMAIN list /\ p[i] \in DOMAIN list
                               /\ sorted[i] = list[p[i]]
  BY <1>2, <1>3
<1>5. ASSUME NEW i \in DOMAIN sorted, NEW j \in DOMAIN sorted, i < j
      PROVE  /\ Rank[severity(sorted[i])] >= Rank[severity(sorted[j])]
             /\ Rank[severity(sorted[i])] = Rank[severity(sorted[j])] => Follows(sorted[i], sorted[j])
  <2> DEFINE a == p[i]
             b == p[j]
             first == Rank[severity(list[a])]
             second == Rank[severity(list[b])]
  <2>1. /\ sorted[i] = list[a] /\ sorted[j] = list[b]
        /\ a \in DOMAIN list /\ b \in DOMAIN list
    BY <1>4
  <2>2. first > second \/ (first = second /\ a < b)
    BY <1>2, <1>4, <1>5 DEF Precedes
  <2>3. /\ first \in Nat /\ second \in Nat
        /\ first = 3 <=> OfCatalogue(list[a])
        /\ second = 3 <=> OfCatalogue(list[b])
    BY Severities DEF OfCatalogue
  <2> HIDE DEF a, b, first, second
  <2>4. first >= second
    BY <2>2, <2>3
  <2>5. ASSUME first = second
        PROVE  Follows(list[a], list[b])
    <3>1. a < b
      BY <2>2, <2>3, <2>5
    <3>2. CASE first = 3
      <4>1. a = 1 /\ b = 1
        BY <3>2, <2>1, <2>3, <2>5, <1>1 DEF Ordered
      <4>2. QED
        BY <4>1, <3>1
    <3>3. CASE first # 3
      BY <3>1, <3>3, <2>1, <2>3, <2>5, <1>1 DEF Ordered
    <3>4. QED
      BY <3>2, <3>3
  <2>6. QED
    BY <2>1, <2>4, <2>5 DEF first, second
<1>6. QED
  BY <1>1, <1>5 DEF WorstFirst, Follows, OnlyEntry

LEMMA OrderStep ==
    ASSUME Walk, Tally, InOrder, WorstFirst, [Next]_vars
    PROVE  InOrder' /\ WorstFirst'
<1>1. CASE CallAudit
  BY <1>1, OrderCall DEF CallAudit, WorstFirst
<1>2. CASE Examine
  <2>1. phase' = "auditing"
    BY <1>2 DEF Examine
  <2>2. QED
    BY <1>2, <2>1, OrderExamine DEF WorstFirst
<1>3. CASE SortAnomalies
  <2>1. phase' = "audited"
    BY <1>3 DEF SortAnomalies
  <2>2. QED
    BY <1>3, <2>1, SortedWorstFirst DEF InOrder
<1>4. CASE CallBodyfile
  BY <1>4 DEF CallBodyfile, InOrder, WorstFirst
<1>5. CASE WriteLine
  BY <1>5 DEF WriteLine, InOrder, WorstFirst
<1>6. CASE Written
  BY <1>6 DEF Written, InOrder, WorstFirst
<1>7. CASE WriteFails
  BY <1>7 DEF WriteFails, InOrder, WorstFirst
<1>8. CASE UNCHANGED vars
  BY <1>8 DEF vars, InOrder, WorstFirst, Ordered, Follows, OnlyEntry
<1>9. QED
  BY <1>1, <1>2, <1>3, <1>4, <1>5, <1>6, <1>7, <1>8 DEF Next

(***************************************************************************)
(* The audit's list begins with what is worst, and what is equally severe  *)
(* stands in it as the entries stand in the catalogue: the sort is stable, *)
(* and the list it sorts is in the catalogue's order.                      *)
(***************************************************************************)
THEOREM WorstComesFirst == Spec => []WorstFirst
<1>1. Init => Walk /\ Tally /\ InOrder /\ WorstFirst
  BY WalkInit, TallyInit, OrderInit
<1>2. Walk /\ Tally /\ InOrder /\ WorstFirst /\ [Next]_vars
        => Walk' /\ Tally' /\ InOrder' /\ WorstFirst'
  BY WalkStep, TallyStep, OrderStep
<1>3. QED
  BY <1>1, <1>2, PTL DEF Spec
-----------------------------------------------------------------------------
\* Naturals have a least one among them.
LEMMA LeastNatural ==
    ASSUME NEW T \in SUBSET Nat, T # {}
    PROVE  \E x \in T : \A y \in T : x <= y
<1> DEFINE Less == OpToRel(<, Nat)
<1>1. \A x, y \in Nat : x < y => <<x, y>> \in Less
  BY DEF OpToRel
<1>2. IsWellFoundedOn(Less, Nat)
  BY NatLessThanWellFounded
<1> HIDE DEF Less
<1>3. PICK x \in T : \A y \in T : ~(<<y, x>> \in Less)
  BY <1>2, WFMin
<1>4. \A y \in T : ~(y < x)
  BY <1>1, <1>3
<1>5. \A y \in T : x <= y
  BY <1>4
<1>6. QED
  BY <1>5

\* What holds at 0 and is passed on from each number to the next holds up to n.
LEMMA StepByStep ==
    ASSUME NEW n \in Nat, NEW T, 0 \in T, \A k \in 0..(n - 1) : k \in T => k + 1 \in T
    PROVE  \A k \in 0..n : k \in T
<1> DEFINE Bad == {k \in 0..n : k \notin T}
<1>1. SUFFICES ASSUME Bad # {} PROVE FALSE
  OBVIOUS
<1>2. PICK m \in Bad : \A y \in Bad : m <= y
  <2>1. Bad \in SUBSET Nat
    OBVIOUS
  <2>2. QED
    BY <2>1, <1>1, LeastNatural
<1>3. m \in 0..n /\ m \notin T /\ m # 0
  BY <1>2
<1>4. m - 1 \in 0..(n - 1) /\ m - 1 \in 0..n /\ ~(m <= m - 1) /\ (m - 1) + 1 = m
  BY <1>3
<1>5. m - 1 \in T
  BY <1>2, <1>4
<1>6. QED
  BY <1>3, <1>4, <1>5

-----------------------------------------------------------------------------
(***************************************************************************)
(* The bodyfile: the reader goes through a text character by character.    *)
(***************************************************************************)
Reads(f, r, text, n) == f = [i \in 0..n |-> IF i = 0 THEN r ELSE Read(f[i - 1], text[i])]

LEMMA ReadingExists ==
    ASSUME NEW r, NEW text, NEW n \in Nat
    PROVE  \E f : Reads(f, r, text, n)
<1> DEFINE T == {m \in Nat : \E f : Reads(f, r, text, m)}
<1>1. 0 \in T
  <2>1. Reads([i \in 0..0 |-> r], r, text, 0)
    BY DEF Reads
  <2>2. QED
    BY <2>1
<1>2. ASSUME NEW m \in 0..(n - 1), m \in T PROVE m + 1 \in T
  <2>1. PICK f : Reads(f, r, text, m)
    BY <1>2
  <2> DEFINE g == [i \in 0..(m + 1) |-> IF i = 0 THEN r ELSE Read(f[i - 1], text[i])]
  <2>2. \A i \in 0..m : f[i] = IF i = 0 THEN r ELSE Read(f[i - 1], text[i])
    BY <2>1 DEF Reads
  <2>3. \A i \in 0..(m + 1) : g[i] = IF i = 0 THEN r ELSE Read(f[i - 1], text[i])
    OBVIOUS
  <2>4. \A i \in 0..m : i \in 0..(m + 1)
    OBVIOUS
  <2> HIDE DEF g
  <2>5. \A i \in 0..m : g[i] = f[i]
    BY <2>2, <2>3, <2>4
  <2>6. \A i \in 0..(m + 1) : i # 0 => i - 1 \in 0..m
    OBVIOUS
  <2>7. \A i \in 0..(m + 1) : (IF i = 0 THEN r ELSE Read(f[i - 1], text[i]))
                                  = (IF i = 0 THEN r ELSE Read(g[i - 1], text[i]))
    BY <2>5, <2>6
  <2>8. [i \in 0..(m + 1) |-> IF i = 0 THEN r ELSE Read(f[i - 1], text[i])]
            = [i \in 0..(m + 1) |-> IF i = 0 THEN r ELSE Read(g[i - 1], text[i])]
    BY <2>7
  <2>9. Reads(g, r, text, m + 1)
    BY <2>8 DEF Reads, g
  <2>10. m + 1 \in Nat
    OBVIOUS
  <2>11. QED
    BY <2>9, <2>10
<1> HIDE DEF T
<1>3. \A k \in 0..n : k \in T
  BY <1>1, <1>2, StepByStep
<1>4. QED
  BY <1>3 DEF T

\* What After makes of a text, step by step.
Steps(f, r, text, n) ==
    /\ f[0] = r
    /\ \A i \in 1..n : f[i] = Read(f[i - 1], text[i])
    /\ After(r, text) = f[n]

LEMMA AfterIs ==
    ASSUME NEW S, NEW text \in Seq(S), NEW r, NEW n, Len(text) = n
    PROVE  \E f : Steps(f, r, text, n)
<1>1. n \in Nat
  BY LenProperties
<1>2. \E f : Reads(f, r, text, Len(text))
  BY <1>1, ReadingExists
<1> DEFINE f == CHOOSE g : Reads(g, r, text, Len(text))
<1>3. Reads(f, r, text, n)
  BY <1>2
<1>4. After(r, text) = f[n]
  BY DEF After, Reads
<1> HIDE DEF f
<1>5. \A i \in 0..n : f[i] = IF i = 0 THEN r ELSE Read(f[i - 1], text[i])
  BY <1>3 DEF Reads
<1>6. f[0] = r /\ \A i \in 1..n : f[i] = Read(f[i - 1], text[i])
  BY <1>1, <1>5
<1>7. QED
  BY <1>4, <1>6 DEF Steps

LEMMA AfterOne ==
    ASSUME NEW r, NEW c
    PROVE  After(r, <<c>>) = Read(r, c)
<1> DEFINE text == <<c>>
<1>1. text \in Seq({c}) /\ Len(text) = 1 /\ text[1] = c
  OBVIOUS
<1> HIDE DEF text
<1>2. PICK f : Steps(f, r, text, 1)
  BY <1>1, AfterIs
<1>3. 1 \in 1..1 /\ 1 - 1 = 0
  OBVIOUS
<1>4. After(r, text) = Read(r, c)
  BY <1>1, <1>2, <1>3 DEF Steps
<1>5. QED
  BY <1>4 DEF text

LEMMA AfterNothing ==
    ASSUME NEW r
    PROVE  After(r, << >>) = r
<1> DEFINE text == << >>
<1>1. text \in Seq({}) /\ Len(text) = 0
  OBVIOUS
<1> HIDE DEF text
<1>2. PICK f : Steps(f, r, text, 0)
  BY <1>1, AfterIs
<1>3. After(r, text) = r
  BY <1>2 DEF Steps
<1>4. QED
  BY <1>3 DEF text

LEMMA AfterConcat ==
    ASSUME NEW S, NEW s \in Seq(S), NEW t \in Seq(S), NEW r
    PROVE  After(r, s \o t) = After(After(r, s), t)
<1> DEFINE m == Len(s)
           n == Len(t)
           u == s \o t
<1>1. /\ m \in Nat /\ n \in Nat /\ u \in Seq(S) /\ Len(u) = m + n
      /\ \A i \in 1..(m + n) : u[i] = IF i <= m THEN s[i] ELSE t[i - m]
  BY LenProperties, ConcatProperties
<1> HIDE DEF m, n, u
<1>2. PICK f : Steps(f, r, u, m + n)
  BY <1>1, AfterIs
<1>3. PICK g : Steps(g, r, s, m)
  BY AfterIs DEF m
<1>4. PICK h : Steps(h, g[m], t, n)
  BY AfterIs DEF n
<1>12. m \in Nat
  BY <1>1
<1>13. n \in Nat
  BY <1>1
<1> DEFINE Same == {k \in Nat : k <= m => f[k] = g[k]}
           Later == {k \in Nat : k <= n => f[m + k] = h[k]}
<1>5. 0 \in Same
  BY <1>2, <1>3 DEF Steps
<1>6. ASSUME NEW k \in 0..(m - 1), k \in Same PROVE k + 1 \in Same
  <2>1. /\ k + 1 \in 1..(m + n) /\ k + 1 \in 1..m /\ k + 1 <= m /\ k <= m
        /\ (k + 1) - 1 = k /\ k + 1 \in Nat
    BY <1>1
  <2>2. f[k + 1] = Read(f[k], s[k + 1])
    BY <2>1, <1>1, <1>2 DEF Steps
  <2>3. g[k + 1] = Read(g[k], s[k + 1])
    BY <2>1, <1>3 DEF Steps
  <2>4. QED
    BY <2>1, <2>2, <2>3, <1>6
<1>7. f[m] = g[m]
  <2> HIDE DEF Same
  <2>1. \A k \in 0..m : k \in Same
    BY <1>12, <1>5, <1>6, StepByStep
  <2>2. QED
    BY <2>1, <1>12 DEF Same
<1>8. 0 \in Later
  BY <1>1, <1>4, <1>7 DEF Steps
<1>9. ASSUME NEW k \in 0..(n - 1), k \in Later PROVE k + 1 \in Later
  <2>1. /\ m + (k + 1) \in 1..(m + n) /\ ~(m + (k + 1) <= m) /\ (m + (k + 1)) - m = k + 1
        /\ (m + (k + 1)) - 1 = m + k
        /\ k + 1 \in 1..n /\ k <= n /\ (k + 1) - 1 = k /\ k + 1 \in Nat
    BY <1>1
  <2>2. f[m + (k + 1)] = Read(f[m + k], t[k + 1])
    BY <2>1, <1>1, <1>2 DEF Steps
  <2>3. h[k + 1] = Read(h[k], t[k + 1])
    BY <2>1, <1>4 DEF Steps
  <2>4. QED
    BY <2>1, <2>2, <2>3, <1>9
<1>10. f[m + n] = h[n]
  <2> HIDE DEF Later
  <2>1. \A k \in 0..n : k \in Later
    BY <1>13, <1>8, <1>9, StepByStep
  <2>2. QED
    BY <2>1, <1>13 DEF Later
<1>11. QED
  BY <1>2, <1>3, <1>4, <1>10 DEF u, Steps

-----------------------------------------------------------------------------
\* The reader inside a field, with no escape begun.
Inside(l, f, x) == Reader(l, f, x, << >>)

LEMMA Newline == NEWLINE \in Controls /\ NEWLINE \notin Printed
BY ReportConstants DEF ReportConstants, NEWLINE

LEMMA AfterTwo ==
    ASSUME NEW r, NEW a, NEW b
    PROVE  After(r, <<a, b>>) = Read(Read(r, a), b)
<1> DEFINE text == <<a, b>>
<1>1. text \in Seq({a, b}) /\ Len(text) = 2 /\ text[1] = a /\ text[2] = b
  OBVIOUS
<1> HIDE DEF text
<1>2. PICK f : Steps(f, r, text, 2)
  BY <1>1, AfterIs
<1>3. 1 \in 1..2 /\ 1 - 1 = 0 /\ 2 \in 1..2 /\ 2 - 1 = 1
  OBVIOUS
<1>4. After(r, text) = Read(Read(r, a), b)
  BY <1>1, <1>2, <1>3 DEF Steps
<1>5. QED
  BY <1>4 DEF text

LEMMA AfterFour ==
    ASSUME NEW r, NEW a, NEW b, NEW c, NEW d
    PROVE  After(r, <<a, b, c, d>>) = Read(Read(Read(Read(r, a), b), c), d)
<1> DEFINE text == <<a, b, c, d>>
<1>1. /\ text \in Seq({a, b, c, d}) /\ Len(text) = 4
      /\ text[1] = a /\ text[2] = b /\ text[3] = c /\ text[4] = d
  OBVIOUS
<1> HIDE DEF text
<1>2. PICK f : Steps(f, r, text, 4)
  BY <1>1, AfterIs
<1>3. \A i \in 1..4 : f[i] = Read(f[i - 1], text[i])
  BY <1>2 DEF Steps
<1>4. f[1] = Read(r, a) /\ f[2] = Read(f[1], b) /\ f[3] = Read(f[2], c) /\ f[4] = Read(f[3], d)
  <2>1. f[0] = r
    BY <1>2 DEF Steps
  <2>2. 1 \in 1..4 /\ 2 \in 1..4 /\ 3 \in 1..4 /\ 4 \in 1..4
        /\ 1 - 1 = 0 /\ 2 - 1 = 1 /\ 3 - 1 = 2 /\ 4 - 1 = 3
    OBVIOUS
  <2>3. QED
    BY <2>1, <2>2, <1>1, <1>3
<1>5. After(r, text) = f[4]
  BY <1>2 DEF Steps
<1>6. After(r, text) = Read(Read(Read(Read(r, a), b), c), d)
  BY <1>4, <1>5
<1>7. QED
  BY <1>6 DEF text

LEMMA ReaderHas ==
    ASSUME NEW l, NEW f, NEW x, NEW u
    PROVE  /\ Reader(l, f, x, u).lines = l
           /\ Reader(l, f, x, u).fields = f
           /\ Reader(l, f, x, u).field = x
           /\ Reader(l, f, x, u).begun = u
BY DEF Reader

LEMMA Singleton ==
    ASSUME NEW c, NEW d
    PROVE  /\ Append(<< >>, c) = <<c>>
           /\ Len(<<c>>) = 1
           /\ <<c>>[1] = c
           /\ <<c>> = <<d>> => c = d
OBVIOUS

\* The alternatives of a step of the reader.
IsBar(unit) == unit = <<"|">>
IsBreak(unit) == unit = <<NEWLINE>>

LEMMA Exclusive ==
    ASSUME NEW unit
    PROVE  /\ IsBar(unit) => ~IsBreak(unit) /\ ~Unfinished(unit)
           /\ IsBreak(unit) => ~Unfinished(unit)
<1>1. NEWLINE # "|" /\ NEWLINE # "\\"
  BY Newline DEF Printed
<1>2. /\ <<"|">> # <<"\\">> /\ Len(<<"|">>) = 1 /\ <<"|">> # <<NEWLINE>>
      /\ Len(<<NEWLINE>>) = 1 /\ <<NEWLINE>> # <<"\\">>
  BY <1>1
<1>3. QED
  BY <1>2 DEF Unfinished, IsBar, IsBreak

ReadUnit(l, f, x, unit) ==
    CASE IsBar(unit) -> Inside(l, Append(f, x), << >>)
      [] IsBreak(unit) -> Inside(Append(l, Append(f, x)), << >>, << >>)
      [] Unfinished(unit) -> Reader(l, f, x, unit)
      [] OTHER -> Inside(l, f, Append(x, Meaning(unit)))

LEMMA ReadABar ==
    ASSUME NEW l, NEW f, NEW x, NEW u, NEW c, NEW unit, Append(u, c) = unit,
           IsBar(unit)
    PROVE  Read(Reader(l, f, x, u), c) = Inside(l, Append(f, x), << >>)
<1> DEFINE r == Reader(l, f, x, u)
<1>1. r.lines = l /\ r.fields = f /\ r.field = x /\ r.begun = u
  BY ReaderHas
<1> HIDE DEF r
<1>2. Read(r, c) = ReadUnit(l, f, x, unit)
  BY <1>1, Zenon DEF Read, ReadUnit, IsBar, IsBreak, Inside
<1>3. ReadUnit(l, f, x, unit) = Inside(l, Append(f, x), << >>)
  BY Exclusive DEF ReadUnit
<1>4. QED
  BY <1>2, <1>3 DEF r

LEMMA ReadABreak ==
    ASSUME NEW l, NEW f, NEW x, NEW u, NEW c, NEW unit, Append(u, c) = unit,
           IsBreak(unit)
    PROVE  Read(Reader(l, f, x, u), c) = Inside(Append(l, Append(f, x)), << >>, << >>)
<1> DEFINE r == Reader(l, f, x, u)
<1>1. r.lines = l /\ r.fields = f /\ r.field = x /\ r.begun = u
  BY ReaderHas
<1> HIDE DEF r
<1>2. Read(r, c) = ReadUnit(l, f, x, unit)
  BY <1>1, Zenon DEF Read, ReadUnit, IsBar, IsBreak, Inside
<1>3. ReadUnit(l, f, x, unit) = Inside(Append(l, Append(f, x)), << >>, << >>)
  BY Exclusive DEF ReadUnit
<1>4. QED
  BY <1>2, <1>3 DEF r

LEMMA ReadAPart ==
    ASSUME NEW l, NEW f, NEW x, NEW u, NEW c, NEW unit, Append(u, c) = unit,
           Unfinished(unit), ~IsBar(unit), ~IsBreak(unit)
    PROVE  Read(Reader(l, f, x, u), c) = Reader(l, f, x, unit)
<1> DEFINE r == Reader(l, f, x, u)
<1>1. r.lines = l /\ r.fields = f /\ r.field = x /\ r.begun = u
  BY ReaderHas
<1> HIDE DEF r
<1>2. Read(r, c) = ReadUnit(l, f, x, unit)
  BY <1>1, Zenon DEF Read, ReadUnit, IsBar, IsBreak, Inside
<1>3. ReadUnit(l, f, x, unit) = Reader(l, f, x, unit)
  BY Exclusive DEF ReadUnit
<1>4. QED
  BY <1>2, <1>3 DEF r

LEMMA ReadAUnit ==
    ASSUME NEW l, NEW f, NEW x, NEW u, NEW c, NEW unit, Append(u, c) = unit,
           ~IsBar(unit), ~IsBreak(unit), ~Unfinished(unit)
    PROVE  Read(Reader(l, f, x, u), c) = Inside(l, f, Append(x, Meaning(unit)))
<1> DEFINE r == Reader(l, f, x, u)
<1>1. r.lines = l /\ r.fields = f /\ r.field = x /\ r.begun = u
  BY ReaderHas
<1> HIDE DEF r
<1>2. Read(r, c) = ReadUnit(l, f, x, unit)
  BY <1>1, Zenon DEF Read, ReadUnit, IsBar, IsBreak, Inside
<1>3. ReadUnit(l, f, x, unit) = Inside(l, f, Append(x, Meaning(unit)))
  BY Exclusive DEF ReadUnit
<1>4. QED
  BY <1>2, <1>3 DEF r

LEMMA AppendTwo == ASSUME NEW a, NEW b PROVE Append(<<a>>, b) = <<a, b>>
<1> DEFINE S == {a, b}
           s == Append(<<a>>, b)
           t == <<a, b>>
<1>1. s \in Seq(S) /\ Len(s) = 2 /\ s[1] = a /\ s[2] = b
  OBVIOUS
<1>2. t \in Seq(S) /\ Len(t) = 2 /\ t[1] = a /\ t[2] = b
  OBVIOUS
<1> HIDE DEF s, t, S
<1>3. \A i \in 1..Len(s) : s[i] = t[i]
  BY <1>1, <1>2
<1>4. s = t
  BY <1>1, <1>2, <1>3, SeqEqual
<1>5. QED
  BY <1>4 DEF s, t

LEMMA AppendThree == ASSUME NEW a, NEW b, NEW c PROVE Append(<<a, b>>, c) = <<a, b, c>>
<1> DEFINE S == {a, b, c}
           s == Append(<<a, b>>, c)
           t == <<a, b, c>>
<1>1. s \in Seq(S) /\ Len(s) = 3 /\ s[1] = a /\ s[2] = b /\ s[3] = c
  OBVIOUS
<1>2. t \in Seq(S) /\ Len(t) = 3 /\ t[1] = a /\ t[2] = b /\ t[3] = c
  OBVIOUS
<1> HIDE DEF s, t, S
<1>3. \A i \in 1..Len(s) : s[i] = t[i]
  BY <1>1, <1>2
<1>4. s = t
  BY <1>1, <1>2, <1>3, SeqEqual
<1>5. QED
  BY <1>4 DEF s, t

LEMMA AppendFour == ASSUME NEW a, NEW b, NEW c, NEW d PROVE Append(<<a, b, c>>, d) = <<a, b, c, d>>
<1> DEFINE S == {a, b, c, d}
           s == Append(<<a, b, c>>, d)
           t == <<a, b, c, d>>
<1>1. s \in Seq(S) /\ Len(s) = 4 /\ s[1] = a /\ s[2] = b /\ s[3] = c /\ s[4] = d
  OBVIOUS
<1>2. t \in Seq(S) /\ Len(t) = 4 /\ t[1] = a /\ t[2] = b /\ t[3] = c /\ t[4] = d
  OBVIOUS
<1> HIDE DEF s, t, S
<1>3. \A i \in 1..Len(s) : s[i] = t[i]
  BY <1>1, <1>2
<1>4. s = t
  BY <1>1, <1>2, <1>3, SeqEqual
<1>5. QED
  BY <1>4 DEF s, t

LEMMA ReadPlain ==
    ASSUME NEW l, NEW f, NEW x, NEW c, c # "|", c # "\\", c # NEWLINE
    PROVE  Read(Inside(l, f, x), c) = Inside(l, f, Append(x, c))
<1> DEFINE unit == <<c>>
<1>1. /\ Append(<< >>, c) = unit /\ Len(unit) = 1 /\ unit[1] = c
      /\ unit # <<"|">> /\ unit # <<NEWLINE>> /\ unit # <<"\\">>
  BY Singleton
<1> HIDE DEF unit
<1>2. ~Unfinished(unit) /\ ~IsBar(unit) /\ ~IsBreak(unit)
  BY <1>1 DEF Unfinished, IsBar, IsBreak
<1>3. Meaning(unit) = c
  BY <1>1 DEF Meaning
<1>4. Append(<< >>, c) = unit
  BY <1>1
<1>5. Read(Reader(l, f, x, << >>), c) = Inside(l, f, Append(x, Meaning(unit)))
  BY <1>2, <1>4, ReadAUnit
<1>6. QED
  BY <1>3, <1>5 DEF Inside

LEMMA ReadBar ==
    ASSUME NEW l, NEW f, NEW x
    PROVE  Read(Inside(l, f, x), "|") = Inside(l, Append(f, x), << >>)
<1> DEFINE c == "|"
           unit == <<c>>
<1>1. Append(<< >>, c) = unit /\ IsBar(unit)
  BY Singleton DEF IsBar
<1> HIDE DEF unit, c
<1>2. Read(Reader(l, f, x, << >>), c) = Inside(l, Append(f, x), << >>)
  BY <1>1, ReadABar
<1>3. QED
  BY <1>2 DEF Inside, c

LEMMA ReadNewline ==
    ASSUME NEW l, NEW f, NEW x
    PROVE  Read(Inside(l, f, x), NEWLINE) = Inside(Append(l, Append(f, x)), << >>, << >>)
<1> DEFINE c == NEWLINE
           unit == <<c>>
<1>1. Append(<< >>, c) = unit /\ IsBreak(unit)
  BY Singleton DEF IsBreak
<1> HIDE DEF unit, c
<1>2. Read(Reader(l, f, x, << >>), c) = Inside(Append(l, Append(f, x)), << >>, << >>)
  BY <1>1, ReadABreak
<1>3. QED
  BY <1>2 DEF Inside, c

LEMMA ReadBackslash ==
    ASSUME NEW l, NEW f, NEW x
    PROVE  Read(Inside(l, f, x), "\\") = Reader(l, f, x, <<"\\">>)
<1> DEFINE c == "\\"
           unit == <<c>>
<1>1. Append(<< >>, c) = unit /\ Unfinished(unit)
  BY Singleton DEF Unfinished
<1>2. ~IsBar(unit) /\ ~IsBreak(unit)
  BY <1>1, Exclusive
<1> HIDE DEF unit, c
<1> DEFINE none == << >>
<1>3. Append(none, c) = unit /\ Unfinished(unit)
  BY <1>1
<1> HIDE DEF none
<1>4. Read(Reader(l, f, x, none), c) = Reader(l, f, x, unit)
  BY <1>3, <1>2, ReadAPart
<1>5. Read(Reader(l, f, x, << >>), c) = Reader(l, f, x, unit)
  BY <1>4 DEF none
<1>6. QED
  BY <1>5 DEF Inside, unit, c

\* In an escape a bar and a line break are characters like others.
LEMMA LongUnit ==
    ASSUME NEW unit, Len(unit) \in 2..4
    PROVE  ~IsBar(unit) /\ ~IsBreak(unit)
<1>1. Len(<<"|">>) = 1 /\ Len(<<NEWLINE>>) = 1
  BY Singleton
<1>2. QED
  BY <1>1 DEF IsBar, IsBreak

LEMMA ReadEscaped ==
    ASSUME NEW l, NEW f, NEW x, NEW c, c # "x"
    PROVE  After(Inside(l, f, x), <<"\\", c>>) = Inside(l, f, Append(x, c))
<1> DEFINE one == <<"\\">>
           unit == <<"\\", c>>
<1>1. Append(one, c) = unit /\ Len(unit) = 2 /\ unit[2] = c
  BY AppendTwo
<1>2. unit # <<"\\">>
  OBVIOUS
<1>3. Read(Inside(l, f, x), "\\") = Reader(l, f, x, one)
  BY ReadBackslash
<1>4. After(Inside(l, f, x), unit) = Read(Read(Inside(l, f, x), "\\"), c)
  BY AfterTwo
<1> HIDE DEF unit, one
<1>5. Len(unit) \in 2..4 /\ ~Unfinished(unit) /\ Meaning(unit) = c
  BY <1>1, <1>2 DEF Unfinished, Meaning
<1>6. ~IsBar(unit) /\ ~IsBreak(unit)
  BY <1>5, LongUnit
<1>7. Append(one, c) = unit /\ ~Unfinished(unit)
  BY <1>1, <1>5
<1>8. Read(Reader(l, f, x, one), c) = Inside(l, f, Append(x, Meaning(unit)))
  BY <1>6, <1>7, ReadAUnit
<1>9. After(Inside(l, f, x), unit) = Inside(l, f, Append(x, c))
  BY <1>3, <1>4, <1>5, <1>8
<1>10. QED
  BY <1>9 DEF unit

\* The two digits give back the character: no other has the same code.
LEMMA HexDigits == \A i, j \in 1..16 : HEX[i] = HEX[j] => i = j
BY DEF HEX

LEMMA CodedBack ==
    ASSUME NEW c \in Controls
    PROVE  Coded(HEX[(Code[c] \div 16) + 1], HEX[(Code[c] % 16) + 1]) = {c}
<1> DEFINE a == Code[c] \div 16
           b == Code[c] % 16
<1>1. Code[c] \in (0..31) \cup {127}
  BY ReportConstants DEF ReportConstants
<1>2. a \in 0..15 /\ b \in 0..15 /\ Code[c] = 16 * a + b
  BY <1>1
<1> HIDE DEF a, b
<1>3. c \in Coded(HEX[a + 1], HEX[b + 1])
  BY <1>2 DEF Coded
<1>4. ASSUME NEW d \in Coded(HEX[a + 1], HEX[b + 1])
      PROVE  d = c
  <2>1. PICK i, j \in 0..15 :
             HEX[i + 1] = HEX[a + 1] /\ HEX[j + 1] = HEX[b + 1] /\ Code[d] = 16 * i + j
    BY DEF Coded
  <2>2. /\ i + 1 \in 1..16 /\ j + 1 \in 1..16 /\ a + 1 \in 1..16 /\ b + 1 \in 1..16
    BY <1>2
  <2>3. i + 1 = a + 1 /\ j + 1 = b + 1
    BY <2>1, <2>2, HexDigits
  <2>4. i = a /\ j = b
    BY <2>3, <1>2
  <2>5. Code[d] = Code[c] /\ d \in Controls
    BY <2>1, <2>4, <1>2 DEF Coded
  <2>6. QED
    BY <2>5, ReportConstants DEF ReportConstants
<1>5. QED
  BY <1>3, <1>4 DEF a, b

LEMMA ReadHex ==
    ASSUME NEW l, NEW f, NEW x, NEW c \in Controls
    PROVE  After(Inside(l, f, x), hex(c)) = Inside(l, f, Append(x, c))
<1> DEFINE h == HEX[(Code[c] \div 16) + 1]
           k == HEX[(Code[c] % 16) + 1]
           one == <<"\\">>
           two == <<"\\", "x">>
           three == <<"\\", "x", h>>
           four == <<"\\", "x", h, k>>
<1>1. Coded(h, k) = {c}
  BY CodedBack
<1>2. hex(c) = four
  BY DEF hex
<1> HIDE DEF h, k
<1>3. /\ Append(one, "x") = two /\ Len(two) = 2 /\ two[2] = "x"
      /\ Append(two, h) = three /\ Len(three) = 3 /\ three[2] = "x"
      /\ Append(three, k) = four /\ Len(four) = 4 /\ four[3] = h /\ four[4] = k
      /\ Len(one) = 1
  BY AppendTwo, AppendThree, AppendFour
<1>4. After(Inside(l, f, x), four) = Read(Read(Read(Read(Inside(l, f, x), "\\"), "x"), h), k)
  BY AfterFour
<1>5. Read(Inside(l, f, x), "\\") = Reader(l, f, x, one)
  BY ReadBackslash
<1> HIDE DEF one, two, three, four
<1>6. /\ Len(two) \in 2..4 /\ Unfinished(two)
      /\ Len(three) \in 2..4 /\ Unfinished(three)
  BY <1>3 DEF Unfinished
<1>7. Len(four) \in 2..4 /\ ~Unfinished(four)
  <2>1. Len(<<"\\">>) = 1
    BY Singleton
  <2>2. QED
    BY <2>1, <1>3 DEF Unfinished
<1>8. Meaning(four) = c
  <2>1. (CHOOSE d \in {c} : TRUE) = c
    OBVIOUS
  <2>2. QED
    BY <2>1, <1>1, <1>3 DEF Meaning
<1>9. Read(Reader(l, f, x, one), "x") = Reader(l, f, x, two)
  <2>1. Append(one, "x") = two /\ Unfinished(two) /\ ~IsBar(two) /\ ~IsBreak(two)
    BY <1>3, <1>6, LongUnit
  <2>2. QED
    BY <2>1, ReadAPart
<1>10. Read(Reader(l, f, x, two), h) = Reader(l, f, x, three)
  <2>1. Append(two, h) = three /\ Unfinished(three) /\ ~IsBar(three) /\ ~IsBreak(three)
    BY <1>3, <1>6, LongUnit
  <2>2. QED
    BY <2>1, ReadAPart
<1>11. Read(Reader(l, f, x, three), k) = Inside(l, f, Append(x, c))
  <2>1. Append(three, k) = four /\ ~Unfinished(four) /\ ~IsBar(four) /\ ~IsBreak(four)
    BY <1>3, <1>7, LongUnit
  <2>2. Read(Reader(l, f, x, three), k) = Inside(l, f, Append(x, Meaning(four)))
    BY <2>1, ReadAUnit
  <2>3. QED
    BY <2>2, <1>8
<1>12. QED
  BY <1>2, <1>4, <1>5, <1>9, <1>10, <1>11, Zenon

LEMMA ReadEscape ==
    ASSUME NEW l, NEW f, NEW x, NEW c
    PROVE  After(Inside(l, f, x), escape(c)) = Inside(l, f, Append(x, c))
<1>1. CASE c \in {"\\", "|"}
  <2>1. escape(c) = <<"\\", c>> /\ c # "x"
    <3>1. c \notin Controls
      BY <1>1, ReportConstants DEF ReportConstants, Printed
    <3>2. QED
      BY <1>1, <3>1 DEF escape
  <2>2. QED
    BY <2>1, ReadEscaped
<1>2. CASE c \in Controls
  <2>1. escape(c) = hex(c)
    <3>1. c \notin {"\\", "|"}
      BY <1>2, ReportConstants DEF ReportConstants, Printed
    <3>2. QED
      BY <1>2, <3>1 DEF escape
  <2>2. QED
    BY <2>1, <1>2, ReadHex
<1>3. CASE c \notin {"\\", "|"} /\ c \notin Controls
  <2>1. escape(c) = <<c>>
    BY <1>3 DEF escape
  <2>2. c # NEWLINE
    BY <1>3, Newline
  <2>3. QED
    BY <2>1, <2>2, <1>3, AfterOne, ReadPlain
<1>4. QED
  BY <1>1, <1>2, <1>3

-----------------------------------------------------------------------------
\* What a bodyfile is written with, and what stands between two line breaks.
Letters ==
    STRING \cup Printed \cup Controls \cup {REPLACEMENT} \cup {ToText[n] : n \in DOMAIN ToText}
Chars == Letters \ {NEWLINE}

LEMMA PrintedChars == Printed \subseteq Chars
BY Newline DEF Letters, Chars

LEMMA OneChar ==
    ASSUME NEW S, NEW a \in S
    PROVE  <<a>> \in Seq(S)
OBVIOUS

LEMMA TwoChars ==
    ASSUME NEW S, NEW a \in S, NEW b \in S
    PROVE  <<a, b>> \in Seq(S)
OBVIOUS

LEMMA FourChars ==
    ASSUME NEW S, NEW a \in S, NEW b \in S, NEW c \in S, NEW d \in S
    PROVE  <<a, b, c, d>> \in Seq(S)
OBVIOUS

LEMMA HexPrinted == \A k \in 1..16 : HEX[k] \in Printed
<1>1. /\ HEX[1] = "0" /\ HEX[2] = "1" /\ HEX[3] = "2" /\ HEX[4] = "3"
      /\ HEX[5] = "4" /\ HEX[6] = "5" /\ HEX[7] = "6" /\ HEX[8] = "7"
      /\ HEX[9] = "8" /\ HEX[10] = "9" /\ HEX[11] = "a" /\ HEX[12] = "b"
      /\ HEX[13] = "c" /\ HEX[14] = "d" /\ HEX[15] = "e" /\ HEX[16] = "f"
  BY DEF HEX
<1>2. {"0", "1", "2", "3", "4", "5", "6", "7", "8", "9", "a", "b", "c", "d", "e", "f"}
          \subseteq Printed
  BY DEF Printed
<1>3. /\ \A k \in 1..4 : HEX[k] \in {"0", "1", "2", "3"}
      /\ \A k \in 5..8 : HEX[k] \in {"4", "5", "6", "7"}
      /\ \A k \in 9..12 : HEX[k] \in {"8", "9", "a", "b"}
      /\ \A k \in 13..16 : HEX[k] \in {"c", "d", "e", "f"}
  BY <1>1
<1>4. \A k \in 1..16 : k \in 1..4 \/ k \in 5..8 \/ k \in 9..12 \/ k \in 13..16
  OBVIOUS
<1>5. QED
  BY <1>2, <1>3, <1>4

LEMMA EscapeChars ==
    ASSUME NEW c \in Letters
    PROVE  escape(c) \in Seq(Chars)
<1>1. CASE c \in {"\\", "|"}
  <2>1. escape(c) = <<"\\", c>>
    <3>1. c \notin Controls
      BY <1>1, ReportConstants DEF ReportConstants, Printed
    <3>2. QED
      BY <1>1, <3>1 DEF escape
  <2>2. "\\" \in Chars /\ c \in Chars
    BY <1>1, PrintedChars DEF Printed
  <2>3. QED
    BY <2>1, <2>2, TwoChars
<1>2. CASE c \in Controls
  <2>1. escape(c) = hex(c)
    <3>1. c \notin {"\\", "|"}
      BY <1>2, ReportConstants DEF ReportConstants, Printed
    <3>2. QED
      BY <1>2, <3>1 DEF escape
  <2> DEFINE i == (Code[c] \div 16) + 1
             j == (Code[c] % 16) + 1
  <2>2. i \in 1..16 /\ j \in 1..16
    <3>1. Code[c] \in (0..31) \cup {127}
      BY <1>2, ReportConstants DEF ReportConstants
    <3>2. QED
      BY <3>1
  <2>3. hex(c) = <<"\\", "x", HEX[i], HEX[j]>>
    BY DEF hex
  <2> HIDE DEF i, j
  <2>4. \A k \in 1..16 : HEX[k] \in Printed
    BY HexPrinted
  <2>5. "\\" \in Chars /\ "x" \in Chars /\ HEX[i] \in Chars /\ HEX[j] \in Chars
    <3>1. "\\" \in Printed /\ "x" \in Printed
      BY DEF Printed
    <3>2. QED
      BY <3>1, <2>2, <2>4, PrintedChars
  <2>6. QED
    BY <2>1, <2>3, <2>5, FourChars
<1>3. CASE c \notin {"\\", "|"} /\ c \notin Controls
  <2>1. escape(c) = <<c>>
    BY <1>3 DEF escape
  <2>2. c \in Chars
    BY <1>3, Newline DEF Chars
  <2>3. QED
    BY <2>1, <2>2, OneChar
<1>4. QED
  BY <1>1, <1>2, <1>3

-----------------------------------------------------------------------------
(***************************************************************************)
(* An escaped name: its characters, one escape after the other.            *)
(***************************************************************************)
Pushes(f, name, n) == f = [i \in 0..n |-> IF i = 0 THEN << >> ELSE f[i - 1] \o escape(name[i])]

LEMMA PushingExists ==
    ASSUME NEW name, NEW n \in Nat
    PROVE  \E f : Pushes(f, name, n)
<1> DEFINE T == {m \in Nat : \E f : Pushes(f, name, m)}
<1>1. 0 \in T
  <2>1. Pushes([i \in 0..0 |-> << >>], name, 0)
    BY DEF Pushes
  <2>2. QED
    BY <2>1
<1>2. ASSUME NEW m \in 0..(n - 1), m \in T PROVE m + 1 \in T
  <2>1. PICK f : Pushes(f, name, m)
    BY <1>2
  <2> DEFINE g == [i \in 0..(m + 1) |-> IF i = 0 THEN << >> ELSE f[i - 1] \o escape(name[i])]
  <2>2. \A i \in 0..m : f[i] = IF i = 0 THEN << >> ELSE f[i - 1] \o escape(name[i])
    BY <2>1 DEF Pushes
  <2>3. \A i \in 0..(m + 1) : g[i] = IF i = 0 THEN << >> ELSE f[i - 1] \o escape(name[i])
    OBVIOUS
  <2>4. \A i \in 0..m : i \in 0..(m + 1)
    OBVIOUS
  <2> HIDE DEF g
  <2>5. \A i \in 0..m : g[i] = f[i]
    BY <2>2, <2>3, <2>4
  <2>6. \A i \in 0..(m + 1) : i # 0 => i - 1 \in 0..m
    OBVIOUS
  <2>7. \A i \in 0..(m + 1) : (IF i = 0 THEN << >> ELSE f[i - 1] \o escape(name[i]))
                                  = (IF i = 0 THEN << >> ELSE g[i - 1] \o escape(name[i]))
    BY <2>5, <2>6
  <2>8. [i \in 0..(m + 1) |-> IF i = 0 THEN << >> ELSE f[i - 1] \o escape(name[i])]
            = [i \in 0..(m + 1) |-> IF i = 0 THEN << >> ELSE g[i - 1] \o escape(name[i])]
    BY <2>7
  <2>9. Pushes(g, name, m + 1)
    BY <2>8 DEF Pushes, g
  <2>10. m + 1 \in Nat
    OBVIOUS
  <2>11. QED
    BY <2>9, <2>10
<1> HIDE DEF T
<1>3. \A k \in 0..n : k \in T
  BY <1>1, <1>2, StepByStep
<1>4. QED
  BY <1>3 DEF T

\* What escape_name makes of a name, step by step.
Pushed(f, name, n) ==
    /\ f[0] = << >>
    /\ \A i \in 1..n : f[i] = f[i - 1] \o escape(name[i])
    /\ escape_name(name) = f[n]

LEMMA EscapeNameIs ==
    ASSUME NEW name \in Seq(Letters), NEW n, Len(name) = n
    PROVE  \E f : Pushed(f, name, n)
<1>1. n \in Nat
  BY LenProperties
<1>2. \E f : Pushes(f, name, Len(name))
  BY <1>1, PushingExists
<1> DEFINE f == CHOOSE g : Pushes(g, name, Len(name))
<1>3. Pushes(f, name, n)
  BY <1>2
<1>4. escape_name(name) = f[n]
  BY DEF escape_name, Pushes
<1> HIDE DEF f
<1>5. \A i \in 0..n : f[i] = IF i = 0 THEN << >> ELSE f[i - 1] \o escape(name[i])
  BY <1>3 DEF Pushes
<1>6. f[0] = << >> /\ \A i \in 1..n : f[i] = f[i - 1] \o escape(name[i])
  <2>1. 0 \in 0..n /\ \A i \in 1..n : i \in 0..n /\ i # 0
    BY <1>1
  <2>2. QED
    BY <1>5, <2>1, Zenon
<1>7. QED
  BY <1>4, <1>6 DEF Pushed

\* One more character of a text that is read to the end of a field.
LEMMA OneFurther ==
    ASSUME NEW name \in Seq(Letters), NEW x \in Seq(Letters), NEW k \in 1..Len(name)
    PROVE  Append(x \o SubSeq(name, 1, k - 1), name[k]) = x \o SubSeq(name, 1, k)
<1> DEFINE s == SubSeq(name, 1, k - 1)
           c == name[k]
<1>1. Len(name) \in Nat
  BY LenProperties
<1>2. c \in Letters
  BY ElementOfSeq
<1>3. s \in Seq(Letters)
  <2>1. \A i \in 1..(k - 1) : name[i] \in Letters
    BY <1>1, ElementOfSeq
  <2>2. k - 1 \in Int /\ 1 \in Int
    BY <1>1
  <2>3. QED
    BY <2>1, <2>2, SubSeqProperties
<1>4. SubSeq(name, 1, k) = s \o <<c>>
  <2>1. 1 \in 1..Len(name) /\ k \in 1..Len(name)
    BY <1>1
  <2>2. QED
    BY <2>1, SubSeqRecursiveSecond
<1> HIDE DEF s, c
<1>5. x \o s \in Seq(Letters)
  BY <1>3, ConcatProperties
<1>6. Append(x \o s, c) = (x \o s) \o <<c>>
  BY <1>2, <1>5, AppendIsConcat
<1>7. (x \o s) \o <<c>> = x \o (s \o <<c>>)
  BY <1>2, <1>3, OneChar, ConcatAssociative
<1>8. Append(x \o s, c) = x \o SubSeq(name, 1, k)
  BY <1>4, <1>6, <1>7
<1>9. QED
  BY <1>8 DEF s, c

\* An escaped name reads as the name, and holds no line break.
LEMMA ReadName ==
    ASSUME NEW l, NEW f, NEW x \in Seq(Letters), NEW name \in Seq(Letters)
    PROVE  /\ After(Inside(l, f, x), escape_name(name)) = Inside(l, f, x \o name)
           /\ escape_name(name) \in Seq(Chars)
<1> DEFINE n == Len(name)
<1>1. n \in Nat
  BY LenProperties
<1>2. PICK g : Pushed(g, name, n)
  BY EscapeNameIs
<1> DEFINE T == {k \in Nat : /\ g[k] \in Seq(Chars)
                             /\ After(Inside(l, f, x), g[k]) = Inside(l, f, x \o SubSeq(name, 1, k))}
<1> HIDE DEF n
<1>3. 0 \in T
  <2>1. SubSeq(name, 1, 0) = << >> /\ x \o << >> = x
    BY SubSeqEmpty, ConcatEmptySeq
  <2>2. g[0] = << >>
    BY <1>2 DEF Pushed
  <2>3. << >> \in Seq(Chars)
    BY EmptySeq
  <2>4. After(Inside(l, f, x), << >>) = Inside(l, f, x)
    BY AfterNothing
  <2>5. QED
    BY <2>1, <2>2, <2>3, <2>4
<1>4. ASSUME NEW k \in 0..(n - 1), k \in T PROVE k + 1 \in T
  <2>1. k + 1 \in 1..n /\ (k + 1) - 1 = k /\ k + 1 \in Nat
    BY <1>1
  <2> DEFINE c == name[k + 1]
             r == Inside(l, f, x)
             s == x \o SubSeq(name, 1, k)
  <2>2. g[k + 1] = g[k] \o escape(c)
    BY <2>1, <1>2 DEF Pushed
  <2>3. c \in Letters
    BY <2>1, ElementOfSeq DEF n
  <2>4. escape(c) \in Seq(Chars)
    BY <2>3, EscapeChars
  <2>5. g[k] \in Seq(Chars) /\ After(r, g[k]) = Inside(l, f, s)
    BY <1>4
  <2>6. Append(s, c) = x \o SubSeq(name, 1, k + 1)
    BY <2>1, OneFurther DEF n
  <2> HIDE DEF c, r, s
  <2>7. g[k + 1] \in Seq(Chars)
    BY <2>2, <2>4, <2>5, ConcatProperties
  <2>8. After(r, g[k] \o escape(c)) = After(After(r, g[k]), escape(c))
    BY <2>4, <2>5, AfterConcat
  <2>9. After(Inside(l, f, s), escape(c)) = Inside(l, f, Append(s, c))
    BY ReadEscape
  <2>10. After(r, g[k + 1]) = Inside(l, f, x \o SubSeq(name, 1, k + 1))
    BY <2>2, <2>5, <2>6, <2>8, <2>9
  <2>11. QED
    BY <2>1, <2>7, <2>10 DEF r
<1> HIDE DEF T
<1>5. n \in T
  <2>1. \A k \in 0..n : k \in T
    BY <1>1, <1>3, <1>4, StepByStep
  <2>2. QED
    BY <1>1, <2>1
<1>6. g[n] \in Seq(Chars) /\ After(Inside(l, f, x), g[n]) = Inside(l, f, x \o SubSeq(name, 1, n))
  BY <1>5 DEF T
<1>7. SubSeq(name, 1, n) = name
  BY SubSeqFull DEF n
<1>8. escape_name(name) = g[n]
  BY <1>2 DEF Pushed
<1>9. QED
  BY <1>6, <1>7, <1>8

\* Text without a bar, a backslash or a line break reads as itself.
Plain == Chars \ {"|", "\\"}

LEMMA ReadPlainText ==
    ASSUME NEW l, NEW f, NEW x \in Seq(Letters), NEW text \in Seq(Plain)
    PROVE  After(Inside(l, f, x), text) = Inside(l, f, x \o text)
<1> DEFINE n == Len(text)
<1>1. n \in Nat /\ text \in Seq(Letters)
  BY LenProperties, SeqMonotonic DEF Plain, Chars
<1>2. PICK g : Steps(g, Inside(l, f, x), text, n)
  BY AfterIs
<1> DEFINE T == {k \in Nat : g[k] = Inside(l, f, x \o SubSeq(text, 1, k))}
<1> HIDE DEF n
<1>3. 0 \in T
  <2>1. SubSeq(text, 1, 0) = << >> /\ x \o << >> = x
    BY SubSeqEmpty, ConcatEmptySeq
  <2>2. g[0] = Inside(l, f, x)
    BY <1>2 DEF Steps
  <2>3. QED
    BY <2>1, <2>2
<1>4. ASSUME NEW k \in 0..(n - 1), k \in T PROVE k + 1 \in T
  <2>1. k + 1 \in 1..n /\ (k + 1) - 1 = k /\ k + 1 \in Nat
    BY <1>1
  <2> DEFINE c == text[k + 1]
             s == x \o SubSeq(text, 1, k)
  <2>2. g[k + 1] = Read(g[k], c)
    BY <2>1, <1>2 DEF Steps
  <2>3. c # "|" /\ c # "\\" /\ c # NEWLINE
    <3>1. c \in Plain
      BY <2>1, ElementOfSeq DEF n
    <3>2. QED
      BY <3>1 DEF Plain, Chars
  <2>4. g[k] = Inside(l, f, s)
    BY <1>4
  <2>5. Append(s, c) = x \o SubSeq(text, 1, k + 1)
    BY <2>1, <1>1, OneFurther DEF n
  <2> HIDE DEF c, s
  <2>6. Read(Inside(l, f, s), c) = Inside(l, f, Append(s, c))
    BY <2>3, ReadPlain
  <2>7. g[k + 1] = Inside(l, f, x \o SubSeq(text, 1, k + 1))
    BY <2>2, <2>4, <2>5, <2>6
  <2>8. QED
    BY <2>1, <2>7
<1> HIDE DEF T
<1>5. n \in T
  <2>1. \A k \in 0..n : k \in T
    BY <1>1, <1>3, <1>4, StepByStep
  <2>2. QED
    BY <1>1, <2>1
<1>6. g[n] = Inside(l, f, x \o SubSeq(text, 1, n))
  BY <1>5 DEF T
<1>7. SubSeq(text, 1, n) = text
  BY <1>1, SubSeqFull DEF n
<1>8. After(Inside(l, f, x), text) = g[n]
  BY <1>2 DEF Steps
<1>9. QED
  BY <1>6, <1>7, <1>8

-----------------------------------------------------------------------------
(***************************************************************************)
(* A line.  Its text takes the reader from the end of a line to the end of *)
(* the next.                                                               *)
(***************************************************************************)
Takes(r, text, q) == text \in Seq(Chars) /\ After(r, text) = q

LEMMA TakesBoth ==
    ASSUME NEW r, NEW s, NEW q, NEW t, NEW p, Takes(r, s, q), Takes(q, t, p)
    PROVE  Takes(r, s \o t, p)
<1>1. s \in Seq(Chars) /\ t \in Seq(Chars) /\ After(r, s) = q /\ After(q, t) = p
  BY DEF Takes
<1>2. s \o t \in Seq(Chars)
  BY <1>1, ConcatProperties
<1>3. After(r, s \o t) = After(After(r, s), t)
  BY <1>1, AfterConcat
<1>4. QED
  BY <1>1, <1>2, <1>3 DEF Takes

LEMMA TakesNothing == ASSUME NEW r PROVE Takes(r, << >>, r)
BY AfterNothing, EmptySeq DEF Takes

LEMMA PrintedPlain == Printed \ {"|", "\\"} \subseteq Plain
BY PrintedChars DEF Plain

LEMMA NumberPlain == \A n \in DOMAIN ToText : ToText[n] \in Plain
<1>1. SUFFICES ASSUME NEW n \in DOMAIN ToText PROVE ToText[n] \in Plain
  OBVIOUS
<1>2. ToText[n] \notin Controls /\ ToText[n] \notin {"|", "\\"}
  BY ReportConstants DEF ReportConstants
<1>3. ToText[n] \in Letters
  BY DEF Letters
<1>4. QED
  BY <1>2, <1>3, Newline DEF Plain, Chars

LEMMA PlainChars ==
    ASSUME NEW c \in Plain
    PROVE  c \in Chars /\ c \in Letters /\ c # "|" /\ c # "\\" /\ c # NEWLINE
BY DEF Plain, Chars

LEMMA TakesNumber ==
    ASSUME NEW l, NEW f, NEW x, NEW n \in DOMAIN ToText
    PROVE  Takes(Inside(l, f, x), Number(n), Inside(l, Append(f, x), <<ToText[n]>>))
<1> DEFINE c == ToText[n]
           r == Inside(l, f, x)
           none == << >>
<1>1. c \in Chars /\ c # "|" /\ c # "\\" /\ c # NEWLINE
  BY NumberPlain, PlainChars
<1>2. Number(n) = <<"|", c>>
  BY DEF Number
<1>3. Append(none, c) = <<c>>
  BY Singleton
<1>4. Read(r, "|") = Inside(l, Append(f, x), none)
  BY ReadBar
<1> HIDE DEF c, none, r
<1>5. Read(Inside(l, Append(f, x), none), c) = Inside(l, Append(f, x), Append(none, c))
  BY <1>1, ReadPlain
<1>6. After(r, <<"|", c>>) = Read(Read(r, "|"), c)
  BY AfterTwo
<1>7. After(r, Number(n)) = Inside(l, Append(f, x), <<c>>)
  BY <1>2, <1>3, <1>4, <1>5, <1>6
<1>8. Number(n) \in Seq(Chars)
  <2>1. "|" \in Printed
    BY DEF Printed
  <2>2. "|" \in Chars
    BY <2>1, PrintedChars
  <2>3. QED
    BY <1>1, <1>2, <2>2, TwoChars
<1>9. QED
  BY <1>7, <1>8 DEF Takes, c, r

LEMMA Letter == \A k \in Kinds : type_letter[k] \in Printed \ {"|", "\\"}
<1>1. {"r", "d", "l", "p", "s", "c", "b", "-"} \subseteq Printed \ {"|", "\\"}
  BY DEF Printed
<1>2. \A k \in Kinds : type_letter[k] \in {"r", "d", "l", "p", "s", "c", "b", "-"}
  BY DEF Kinds, type_letter
<1>3. QED
  BY <1>1, <1>2

LEMMA TakesKind ==
    ASSUME NEW l, NEW f, NEW x, NEW a \in Plain
    PROVE  Takes(Inside(l, f, x), <<"|", a, "/", a>>,
                 Inside(l, Append(f, x), Append(Append(Append(<< >>, a), "/"), a)))
<1> DEFINE r == Inside(l, f, x)
           g == Append(f, x)
           b == "/"
           none == << >>
           one == Append(none, a)
           two == Append(one, b)
<1>1. a \in Chars /\ a # "|" /\ a # "\\" /\ a # NEWLINE
  BY PlainChars
<1>2. b \in Chars /\ b # "|" /\ b # "\\" /\ b # NEWLINE
  <2>1. b \in Printed \ {"|", "\\"}
    BY DEF Printed
  <2>2. b \in Plain
    BY <2>1, PrintedPlain
  <2>3. QED
    BY <2>2, PlainChars
<1>3. Read(r, "|") = Inside(l, g, none)
  BY ReadBar
<1>4. After(r, <<"|", a, b, a>>) = Read(Read(Read(Read(r, "|"), a), b), a)
  BY AfterFour
<1> HIDE DEF b, g, none
<1>5. Read(Inside(l, g, none), a) = Inside(l, g, one)
  BY <1>1, ReadPlain
<1> HIDE DEF one
<1>6. Read(Inside(l, g, one), b) = Inside(l, g, two)
  BY <1>2, ReadPlain
<1> HIDE DEF two
<1>7. Read(Inside(l, g, two), a) = Inside(l, g, Append(two, a))
  BY <1>1, ReadPlain
<1> HIDE DEF r
<1>8. After(r, <<"|", a, b, a>>) = Inside(l, g, Append(two, a))
  BY <1>3, <1>4, <1>5, <1>6, <1>7
<1>9. <<"|", a, b, a>> \in Seq(Chars)
  <2>1. "|" \in Printed
    BY DEF Printed
  <2>2. "|" \in Chars
    BY <2>1, PrintedChars
  <2>3. QED
    BY <1>1, <1>2, <2>2, FourChars
<1>10. Takes(r, <<"|", a, b, a>>, Inside(l, g, Append(two, a)))
  BY <1>8, <1>9 DEF Takes
<1>11. QED
  BY <1>10 DEF r, b, g, none, one, two

LEMMA TakesPlain ==
    ASSUME NEW l, NEW f, NEW x \in Seq(Letters), NEW text \in Seq(Plain)
    PROVE  Takes(Inside(l, f, x), text, Inside(l, f, x \o text))
<1>1. Plain \subseteq Chars
  BY DEF Plain
<1>2. text \in Seq(Chars)
  BY <1>1, SeqMonotonic
<1>3. QED
  BY <1>2, ReadPlainText DEF Takes

LEMMA TakesName ==
    ASSUME NEW l, NEW f, NEW x \in Seq(Letters), NEW name \in Seq(Letters)
    PROVE  Takes(Inside(l, f, x), escape_name(name), Inside(l, f, x \o name))
BY ReadName DEF Takes

-----------------------------------------------------------------------------
\* What the line says of the name and of a symlink's target.
LEMMA Lossy ==
    ASSUME NEW path \in Seq(STRING)
    PROVE  lossy(path) \in Seq(Letters)
<1>1. DOMAIN path = 1..Len(path) /\ Len(path) \in Nat
  BY LenProperties
<1>2. \A i \in 1..Len(path) : (IF path[i] \in Invalid THEN REPLACEMENT ELSE path[i]) \in Letters
  BY ElementOfSeq DEF Letters
<1>3. lossy(path) = [i \in 1..Len(path) |-> IF path[i] \in Invalid THEN REPLACEMENT ELSE path[i]]
  BY <1>1 DEF lossy
<1>4. QED
  BY <1>1, <1>2, <1>3

LEMMA EntryParts ==
    ASSUME NEW e \in EntryFields
    PROVE  /\ e.path \in Seq(STRING)
           /\ e.target \in Seq(STRING) \cup {None}
           /\ e.kind \in Kinds
<1>1. e.path \in Paths /\ e.kind \in Kinds /\ e.target \in Targets
  BY DEF EntryFields
<1>2. QED
  BY <1>1 DEF Paths, Targets

named(e) == lossy(e.path) \o IF e.target = None THEN << >> ELSE ARROW \o lossy(e.target)

LEMMA TakesShownName ==
    ASSUME NEW l, NEW f, NEW e \in EntryFields
    PROVE  /\ Takes(Inside(l, f, << >>), shown_name(e), Inside(l, f, named(e)))
           /\ named(e) \in Seq(Letters)
<1> DEFINE p == lossy(e.path)
           r == Inside(l, f, << >>)
           q == Inside(l, f, p)
<1>1. e.path \in Seq(STRING) /\ e.target \in Seq(STRING) \cup {None}
  BY EntryParts
<1>2. p \in Seq(Letters) /\ << >> \in Seq(Letters)
  BY <1>1, Lossy, EmptySeq
<1>3. << >> \o p = p /\ p \o << >> = p
  BY <1>2, ConcatEmptySeq
<1> HIDE DEF p
<1>4. Takes(r, escape_name(p), q)
  <2>1. Takes(Inside(l, f, << >>), escape_name(p), Inside(l, f, << >> \o p))
    BY <1>2, TakesName
  <2>2. QED
    BY <2>1, <1>3
<1> HIDE DEF r
<1>5. CASE e.target = None
  <2>1. named(e) = p \o << >> /\ shown_name(e) = escape_name(p) \o << >>
    BY <1>5 DEF named, shown_name, p
  <2>2. Takes(q, << >>, q)
    BY TakesNothing
  <2> HIDE DEF q
  <2>3. Takes(r, escape_name(p) \o << >>, q)
    BY <1>4, <2>2, TakesBoth
  <2>4. QED
    BY <2>1, <2>3, <1>2, <1>3 DEF r, q
<1>6. CASE e.target # None
  <2> DEFINE t == lossy(e.target)
  <2>1. t \in Seq(Letters)
    BY <1>1, <1>6, Lossy
  <2>2. named(e) = p \o (ARROW \o t) /\ shown_name(e) = escape_name(p) \o (ARROW \o escape_name(t))
    BY <1>6 DEF named, shown_name, p
  <2>3. ARROW \in Seq(Plain) /\ ARROW \in Seq(Letters)
    <3>1. {" ", "-", ">"} \subseteq Printed \ {"|", "\\"}
      BY DEF Printed
    <3>2. " " \in Plain /\ "-" \in Plain /\ ">" \in Plain
      BY <3>1, PrintedPlain
    <3>3. ARROW \in Seq(Plain)
      BY <3>2, FourChars DEF ARROW
    <3>4. Plain \subseteq Letters
      BY DEF Plain, Chars
    <3>5. QED
      BY <3>3, <3>4, SeqMonotonic
  <2> HIDE DEF t
  <2>4. Takes(q, ARROW, Inside(l, f, p \o ARROW))
    BY <1>2, <2>3, TakesPlain
  <2>5. p \o ARROW \in Seq(Letters)
    BY <1>2, <2>3, ConcatProperties
  <2>6. Takes(Inside(l, f, p \o ARROW), escape_name(t), Inside(l, f, (p \o ARROW) \o t))
    BY <2>1, <2>5, TakesName
  <2>7. (p \o ARROW) \o t = p \o (ARROW \o t) /\ p \o (ARROW \o t) \in Seq(Letters)
    <3>1. ARROW \o t \in Seq(Letters)
      BY <2>1, <2>3, ConcatProperties
    <3>2. QED
      BY <1>2, <2>1, <2>3, <3>1, ConcatAssociative, ConcatProperties
  <2>8. Takes(q, ARROW \o escape_name(t), Inside(l, f, named(e)))
    <3> DEFINE m == Inside(l, f, p \o ARROW)
               o == Inside(l, f, named(e))
    <3>1. Takes(q, ARROW, m) /\ Takes(m, escape_name(t), o)
      BY <2>2, <2>4, <2>6, <2>7
    <3> HIDE DEF q, m, o
    <3>2. Takes(q, ARROW \o escape_name(t), o)
      BY <3>1, TakesBoth
    <3>3. QED
      BY <3>2 DEF o
  <2>9. Takes(r, escape_name(p) \o (ARROW \o escape_name(t)), Inside(l, f, named(e)))
    <3> DEFINE o == Inside(l, f, named(e))
    <3> HIDE DEF q, o
    <3>1. Takes(r, escape_name(p), q) /\ Takes(q, ARROW \o escape_name(t), o)
      BY <1>4, <2>8 DEF o
    <3>2. Takes(r, escape_name(p) \o (ARROW \o escape_name(t)), o)
      BY <3>1, TakesBoth
    <3>3. QED
      BY <3>2 DEF o
  <2>10. QED
    BY <2>2, <2>7, <2>9 DEF r
<1>7. QED
  BY <1>5, <1>6

-----------------------------------------------------------------------------
\* The permission string shows the twelve bits of the mode.
Marked(set, slot, low, high) == IF set THEN (IF slot = "x" THEN low ELSE high) ELSE slot

LEMMA Permissions ==
    ASSUME NEW mode
    PROVE  /\ perm_string(mode) \in Seq(Plain)
           /\ Len(perm_string(mode)) = 9
           /\ \A n \in 0..11 : ShowsBit(perm_string(mode), n) <=> Bit(mode, n)
<1> DEFINE RWX == <<"r", "w", "x">>
           plain == [i \in 1..9 |-> IF Bit(mode, 9 - i) THEN RWX[((i - 1) % 3) + 1] ELSE "-"]
           s == perm_string(mode)
           B == {n \in 0..11 : Bit(mode, n)}
<1>1. \A i \in 1..9 : plain[i] = IF 9 - i \in B THEN RWX[((i - 1) % 3) + 1] ELSE "-"
  <2>1. \A i \in 1..9 : 9 - i \in 0..11
    OBVIOUS
  <2>2. QED
    BY <2>1
<1>2. /\ \A i \in 1..9 : RWX[((i - 1) % 3) + 1] \in {"r", "w", "x"}
      /\ \A i \in {3, 6, 9} : RWX[((i - 1) % 3) + 1] = "x"
  <2>1. \A i \in 1..9 : ((i - 1) % 3) + 1 \in 1..3
    OBVIOUS
  <2>2. \A i \in {3, 6, 9} : ((i - 1) % 3) + 1 = 3
    OBVIOUS
  <2>3. RWX[1] = "r" /\ RWX[2] = "w" /\ RWX[3] = "x"
    OBVIOUS
  <2> HIDE DEF RWX
  <2>4. \A k \in 1..3 : RWX[k] \in {"r", "w", "x"}
    BY <2>3
  <2>5. QED
    BY <2>1, <2>2, <2>3, <2>4
<1>3. DOMAIN plain = 1..9
  OBVIOUS
<1> DEFINE x == Bit(mode, 11)
           y == Bit(mode, 10)
           z == Bit(mode, 9)
<1>4. s = [plain EXCEPT ![3] = Marked(x, @, "s", "S"),
                        ![6] = Marked(y, @, "s", "S"),
                        ![9] = Marked(z, @, "t", "T")]
  BY DEF perm_string, Marked
<1> HIDE DEF plain
<1>5. /\ DOMAIN s = 1..9
      /\ s[3] = Marked(x, plain[3], "s", "S")
      /\ s[6] = Marked(y, plain[6], "s", "S")
      /\ s[9] = Marked(z, plain[9], "t", "T")
      /\ \A i \in 1..9 : i \notin {3, 6, 9} => s[i] = plain[i]
      /\ s = [i \in 1..9 |-> s[i]]
  <2> HIDE DEF s, x, y, z
  <2>1. DOMAIN s = 1..9 /\ s = [i \in 1..9 |-> s[i]]
    BY <1>3, <1>4
  <2>2. /\ s[3] = Marked(x, plain[3], "s", "S")
        /\ s[6] = Marked(y, plain[6], "s", "S")
        /\ s[9] = Marked(z, plain[9], "t", "T")
        /\ \A i \in 1..9 : i \notin {3, 6, 9} => s[i] = plain[i]
    BY <1>3, <1>4
  <2>3. QED
    BY <2>1, <2>2
<1>6. /\ 11 \in 0..11 /\ 10 \in 0..11 /\ 9 \in 0..11
      /\ x <=> 11 \in B
      /\ y <=> 10 \in B
      /\ z <=> 9 \in B
  OBVIOUS
<1>7. \A i \in 1..9 : plain[i] \in {"r", "w", "x", "-"}
  BY <1>1, <1>2
<1>8. \A i \in {3, 6, 9} : plain[i] = IF 9 - i \in B THEN "x" ELSE "-"
  <2>1. {3, 6, 9} \subseteq 1..9
    OBVIOUS
  <2>2. QED
    BY <1>1, <1>2, <2>1
<1> HIDE DEF RWX
<1>9. \A n \in 0..11 : n \in B <=> Bit(mode, n)
  OBVIOUS
<1> HIDE DEF s, B, x, y, z
<1>10. /\ s[3] = IF 11 \in B THEN (IF 6 \in B THEN "s" ELSE "S") ELSE IF 6 \in B THEN "x" ELSE "-"
       /\ s[6] = IF 10 \in B THEN (IF 3 \in B THEN "s" ELSE "S") ELSE IF 3 \in B THEN "x" ELSE "-"
       /\ s[9] = IF 9 \in B THEN (IF 0 \in B THEN "t" ELSE "T") ELSE IF 0 \in B THEN "x" ELSE "-"
  <2>1. 3 \in {3, 6, 9} /\ 6 \in {3, 6, 9} /\ 9 \in {3, 6, 9} /\ 9 - 3 = 6 /\ 9 - 6 = 3 /\ 9 - 9 = 0
    OBVIOUS
  <2>2. /\ plain[3] = IF 6 \in B THEN "x" ELSE "-"
        /\ plain[6] = IF 3 \in B THEN "x" ELSE "-"
        /\ plain[9] = IF 0 \in B THEN "x" ELSE "-"
    BY <2>1, <1>8
  <2>3. QED
    BY <1>5, <1>6, <2>2 DEF Marked
<1>11. \A i \in 1..9 : s[i] \in {"r", "w", "x", "-", "s", "S", "t", "T"}
  BY <1>5, <1>7, <1>10
<1>12. s \in Seq(Plain) /\ Len(s) = 9
  <2>1. {"r", "w", "x", "-", "s", "S", "t", "T"} \subseteq Printed \ {"|", "\\"}
    BY DEF Printed
  <2>2. \A i \in 1..9 : s[i] \in Plain
    BY <2>1, <1>11, PrintedPlain
  <2>3. QED
    BY <2>2, <1>5
<1>13. \A i \in 1..9 : s[i] \notin {"-", "S", "T"} <=> 9 - i \in B
  <2>1. SUFFICES ASSUME NEW i \in 1..9 PROVE s[i] \notin {"-", "S", "T"} <=> 9 - i \in B
    OBVIOUS
  <2>2. CASE i = 3 \/ i = 6 \/ i = 9
    BY <2>2, <1>10
  <2>3. CASE i \notin {3, 6, 9}
    BY <2>3, <1>1, <1>2, <1>5
  <2>4. QED
    BY <2>2, <2>3
<1>14. /\ s[3] \in {"s", "S", "t", "T"} <=> 11 \in B
       /\ s[6] \in {"s", "S", "t", "T"} <=> 10 \in B
       /\ s[9] \in {"s", "S", "t", "T"} <=> 9 \in B
  BY <1>10
<1>15. \A n \in 0..11 : ShowsBit(s, n) <=> n \in B
  <2>1. SUFFICES ASSUME NEW n \in 0..11 PROVE ShowsBit(s, n) <=> n \in B
    OBVIOUS
  <2>2. CASE n < 9
    <3>1. 9 - n \in 1..9 /\ 9 - (9 - n) = n
      BY <2>2
    <3>2. ShowsBit(s, n) <=> s[9 - n] \notin {"-", "S", "T"}
      BY <2>2 DEF ShowsBit
    <3>3. QED
      BY <3>1, <3>2, <1>13
  <2>3. CASE n \in {9, 10, 11}
    <3>1. ShowsBit(s, n) <=> s[3 * (12 - n)] \in {"s", "S", "t", "T"}
      BY <2>3 DEF ShowsBit
    <3>2. 3 * (12 - 11) = 3 /\ 3 * (12 - 10) = 6 /\ 3 * (12 - 9) = 9
      OBVIOUS
    <3>3. QED
      BY <2>3, <3>1, <3>2, <1>14
  <2>4. QED
    BY <2>2, <2>3
<1>16. QED
  BY <1>9, <1>12, <1>15 DEF s

-----------------------------------------------------------------------------
\* The fields of a line, one behind the other.
Holds(s, T, v, n) == s \in Seq(T) /\ Len(s) = n /\ \A i \in 1..n : s[i] = v[i]

LEMMA OneMoreField ==
    ASSUME NEW s, NEW T, NEW v, NEW n \in Nat, NEW m, m = n + 1, NEW x \in T,
           Holds(s, T, v, n), v[m] = x
    PROVE  Holds(Append(s, x), T, v, m)
<1> DEFINE t == Append(s, x)
<1>1. s \in Seq(T) /\ Len(s) = n /\ \A i \in 1..n : s[i] = v[i]
  BY DEF Holds
<1>2. t \in Seq(T) /\ Len(t) = m /\ t[m] = x /\ \A i \in 1..n : t[i] = s[i]
  BY <1>1, AppendProperties
<1> HIDE DEF t
<1>3. \A i \in 1..m : i = m \/ i \in 1..n
  OBVIOUS
<1>4. Holds(t, T, v, m)
  BY <1>1, <1>2, <1>3 DEF Holds
<1>5. QED
  BY <1>4 DEF t

\* The numbers of an entry that a line shows.
Numbered(e) ==
    {0, e.uid, e.gid, e.size, e.atime, e.mtime} \cup ({e.ctime} \ {None}) \subseteq DOMAIN ToText

LEMMA ModeField ==
    ASSUME NEW a \in Plain, NEW mode
    PROVE  LET kind == Append(Append(Append(<< >>, a), "/"), a)
               perm == perm_string(mode)
           IN /\ kind \in Seq(Letters) /\ perm \in Seq(Plain)
              /\ kind \o perm \in Seq(Letters)
              /\ SubSeq(kind \o perm, 4, 12) = perm
<1> DEFINE b == "/"
           kind == Append(Append(Append(<< >>, a), b), a)
           perm == perm_string(mode)
<1>1. a \in Letters /\ b \in Letters
  <2>1. b \in Printed
    BY DEF Printed
  <2>2. QED
    BY <2>1, PlainChars DEF Letters
<1> HIDE DEF b
<1>2. kind \in Seq(Letters) /\ Len(kind) = 3
  BY <1>1
<1>3. perm \in Seq(Plain) /\ Len(perm) = 9
  BY Permissions
<1>4. perm \in Seq(Letters)
  BY <1>3, SeqMonotonic DEF Plain, Chars
<1> HIDE DEF kind, perm
<1>5. kind \o perm \in Seq(Letters)
  BY <1>2, <1>4, ConcatProperties
<1>6. SubSeq(kind \o perm, 4, 12) = SubSeq(perm, 1, 9)
  <2>1. 4 \in (Len(kind) + 1)..(Len(kind) + Len(perm))
        /\ 12 \in (Len(kind) + 1)..(Len(kind) + Len(perm))
        /\ 4 - Len(kind) = 1 /\ 12 - Len(kind) = 9
    BY <1>2, <1>3
  <2>2. SubSeq(kind \o perm, 4, 12) = SubSeq(perm, 4 - Len(kind), 12 - Len(kind))
    BY <2>1, <1>2, <1>4, SubSeqOfConcat2
  <2>3. QED
    BY <2>1, <2>2
<1>7. SubSeq(perm, 1, 9) = perm
  BY <1>3, SubSeqFull
<1>8. QED
  BY <1>2, <1>3, <1>5, <1>6, <1>7 DEF kind, perm, b

\* The mark that begins every line.
LEMMA TakesMark ==
    ASSUME NEW l
    PROVE  Takes(Inside(l, << >>, << >>), <<"0", "|">>, Inside(l, Append(<< >>, <<"0">>), << >>))
<1> DEFINE none == << >>
           c == "0"
           d == "|"
<1>1. c \in Printed /\ d \in Printed /\ c \in Printed \ {"|", "\\"}
  BY DEF Printed
<1>2. c \in Plain /\ d \in Chars /\ c \in Chars
  BY <1>1, PrintedChars, PrintedPlain
<1>3. c # "|" /\ c # "\\" /\ c # NEWLINE
  BY <1>2, PlainChars
<1>4. Append(none, c) = <<c>>
  BY Singleton
<1>5. Read(Inside(l, none, <<c>>), d) = Inside(l, Append(none, <<c>>), none)
  BY ReadBar
<1> HIDE DEF none, c, d
<1>6. Read(Inside(l, none, none), c) = Inside(l, none, Append(none, c))
  BY <1>3, ReadPlain
<1>7. After(Inside(l, none, none), <<c, d>>) = Read(Read(Inside(l, none, none), c), d)
  BY AfterTwo
<1>8. After(Inside(l, none, none), <<c, d>>) = Inside(l, Append(none, <<c>>), none)
  BY <1>4, <1>5, <1>6, <1>7
<1>9. <<c, d>> \in Seq(Chars)
  BY <1>2, TwoChars
<1>10. Takes(Inside(l, none, none), <<c, d>>, Inside(l, Append(none, <<c>>), none))
  BY <1>8, <1>9 DEF Takes
<1>11. QED
  BY <1>10 DEF none, c, d

\* A line takes the reader to its last field, and its fields describe the entry.
LEMMA TakesLine ==
    ASSUME NEW l, NEW e \in EntryFields, Numbered(e)
    PROVE  \E g, x : /\ Takes(Inside(l, << >>, << >>), line(e), Inside(l, g, x))
                     /\ Append(g, x) \in Seq(Seq(Letters))
                     /\ Describes(Append(g, x), e)
<1> DEFINE ct == IF e.ctime = None THEN 0 ELSE e.ctime
           a == type_letter[e.kind]
           kind == Append(Append(Append(<< >>, a), "/"), a)
           perm == perm_string(e.mode)
           v1 == <<"0">>
           v2 == named(e)
           v3 == <<ToText[0]>>
           v4 == kind \o perm
           v5 == <<ToText[e.uid]>>
           v6 == <<ToText[e.gid]>>
           v7 == <<ToText[e.size]>>
           v8 == <<ToText[e.atime]>>
           v9 == <<ToText[e.mtime]>>
           v10 == <<ToText[ct]>>
           v11 == <<ToText[0]>>
           f1 == Append(<< >>, v1)
           f2 == Append(f1, v2)
           f3 == Append(f2, v3)
           f4 == Append(f3, v4)
           f5 == Append(f4, v5)
           f6 == Append(f5, v6)
           f7 == Append(f6, v7)
           f8 == Append(f7, v8)
           f9 == Append(f8, v9)
           f10 == Append(f9, v10)
           f11 == Append(f10, v11)
           q0 == Inside(l, << >>, << >>)
           q1 == Inside(l, f1, << >>)
           q2 == Inside(l, f1, v2)
           q3 == Inside(l, f2, v3)
           q4 == Inside(l, f3, kind)
           q5 == Inside(l, f3, v4)
           q6 == Inside(l, f4, v5)
           q7 == Inside(l, f5, v6)
           q8 == Inside(l, f6, v7)
           q9 == Inside(l, f7, v8)
           q10 == Inside(l, f8, v9)
           q11 == Inside(l, f9, v10)
           q12 == Inside(l, f10, v11)
           t1 == <<"0", "|">>
           t2 == shown_name(e)
           t3 == Number(0)
           t4 == <<"|", a, "/", a>>
           t5 == perm
           t6 == Number(e.uid)
           t7 == Number(e.gid)
           t8 == Number(e.size)
           t9 == Number(e.atime)
           t10 == Number(e.mtime)
           t11 == Number(ct)
           t12 == Number(0)
<1>1. /\ 0 \in DOMAIN ToText /\ e.uid \in DOMAIN ToText /\ e.gid \in DOMAIN ToText
      /\ e.size \in DOMAIN ToText /\ e.atime \in DOMAIN ToText /\ e.mtime \in DOMAIN ToText
      /\ ct \in DOMAIN ToText
  BY DEF Numbered
<1>2. a \in Plain
  BY EntryParts, Letter, PrintedPlain
<1>3. kind \in Seq(Letters) /\ perm \in Seq(Plain) /\ v4 \in Seq(Letters)
      /\ SubSeq(v4, 4, 12) = perm
  BY <1>2, ModeField
<1>4. line(e) = t1 \o t2 \o t3 \o t4 \o t5 \o t6 \o t7 \o t8 \o t9 \o t10 \o t11 \o t12
  BY DEF line
<1>5. \A n \in DOMAIN ToText : <<ToText[n]>> \in Seq(Letters)
  BY NumberPlain, PlainChars, OneChar
<1>6. /\ v1 \in Seq(Letters) /\ v2 \in Seq(Letters) /\ v3 \in Seq(Letters)
      /\ v5 \in Seq(Letters) /\ v6 \in Seq(Letters) /\ v7 \in Seq(Letters)
      /\ v8 \in Seq(Letters) /\ v9 \in Seq(Letters) /\ v10 \in Seq(Letters)
      /\ v11 \in Seq(Letters)
  <2>1. v1 \in Seq(Letters)
    <3>1. "0" \in Printed
      BY DEF Printed
    <3>2. "0" \in Letters
      BY <3>1 DEF Letters
    <3>3. QED
      BY <3>2, OneChar
  <2>2. v2 \in Seq(Letters)
    BY TakesShownName
  <2>3. QED
    BY <2>1, <2>2, <1>1, <1>5
<1>7. e.ctime # None => v10 = <<ToText[e.ctime]>>
  OBVIOUS
<1>8. Takes(q0, t1, q1)
  BY TakesMark
<1>9. Takes(q1, t2, q2)
  BY TakesShownName
<1>10. Takes(q2, t3, q3)
  BY <1>1, TakesNumber
<1>11. Takes(q3, t4, q4)
  BY <1>2, TakesKind
<1>12. Takes(q4, t5, q5)
  BY <1>3, TakesPlain
<1>13. Takes(q5, t6, q6)
  BY <1>1, TakesNumber
<1>14. Takes(q6, t7, q7)
  BY <1>1, TakesNumber
<1>15. Takes(q7, t8, q8)
  BY <1>1, TakesNumber
<1>16. Takes(q8, t9, q9)
  BY <1>1, TakesNumber
<1>17. Takes(q9, t10, q10)
  BY <1>1, TakesNumber
<1>18. Takes(q10, t11, q11)
  BY <1>1, TakesNumber
<1>19. Takes(q11, t12, q12)
  BY <1>1, TakesNumber
<1> HIDE DEF q0, q1, q2, q3, q4, q5, q6, q7, q8, q9, q10, q11, q12,
             t1, t2, t3, t4, t5, t6, t7, t8, t9, t10, t11, t12
<1>20. Takes(q0, line(e), q12)
  <2>1. Takes(q0, t1 \o t2, q2)
    BY <1>8, <1>9, TakesBoth
  <2>2. Takes(q0, t1 \o t2 \o t3, q3)
    BY <2>1, <1>10, TakesBoth
  <2>3. Takes(q0, t1 \o t2 \o t3 \o t4, q4)
    BY <2>2, <1>11, TakesBoth
  <2>4. Takes(q0, t1 \o t2 \o t3 \o t4 \o t5, q5)
    BY <2>3, <1>12, TakesBoth
  <2>5. Takes(q0, t1 \o t2 \o t3 \o t4 \o t5 \o t6, q6)
    BY <2>4, <1>13, TakesBoth
  <2>6. Takes(q0, t1 \o t2 \o t3 \o t4 \o t5 \o t6 \o t7, q7)
    BY <2>5, <1>14, TakesBoth
  <2>7. Takes(q0, t1 \o t2 \o t3 \o t4 \o t5 \o t6 \o t7 \o t8, q8)
    BY <2>6, <1>15, TakesBoth
  <2>8. Takes(q0, t1 \o t2 \o t3 \o t4 \o t5 \o t6 \o t7 \o t8 \o t9, q9)
    BY <2>7, <1>16, TakesBoth
  <2>9. Takes(q0, t1 \o t2 \o t3 \o t4 \o t5 \o t6 \o t7 \o t8 \o t9 \o t10, q10)
    BY <2>8, <1>17, TakesBoth
  <2>10. Takes(q0, t1 \o t2 \o t3 \o t4 \o t5 \o t6 \o t7 \o t8 \o t9 \o t10 \o t11, q11)
    BY <2>9, <1>18, TakesBoth
  <2>11. Takes(q0, t1 \o t2 \o t3 \o t4 \o t5 \o t6 \o t7 \o t8 \o t9 \o t10 \o t11 \o t12, q12)
    BY <2>10, <1>19, TakesBoth
  <2>12. QED
    BY <2>11, <1>4
<1> DEFINE v == <<v1, v2, v3, v4, v5, v6, v7, v8, v9, v10, v11>>
           T == Seq(Letters)
<1>21. /\ v[1] = v1 /\ v[2] = v2 /\ v[3] = v3 /\ v[4] = v4
       /\ v[5] = v5 /\ v[6] = v6 /\ v[7] = v7 /\ v[8] = v8
       /\ v[9] = v9 /\ v[10] = v10 /\ v[11] = v11
  OBVIOUS
<1> HIDE DEF v1, v2, v3, v4, v5, v6, v7, v8, v9, v10, v11, v, T, kind, perm
<1>22. Holds(f11, T, v, 11)
  <2>1. /\ v1 \in T /\ v2 \in T /\ v3 \in T /\ v4 \in T /\ v5 \in T /\ v6 \in T
        /\ v7 \in T /\ v8 \in T /\ v9 \in T /\ v10 \in T /\ v11 \in T
    BY <1>3, <1>6 DEF T
  <2> DEFINE none == << >>
  <2>2. Holds(none, T, v, 0)
    BY EmptySeq DEF Holds
  <2> HIDE DEF none
  <2>3. Holds(Append(none, v1), T, v, 1)
    BY <2>1, <2>2, <1>21, OneMoreField
  <2>4. Holds(f1, T, v, 1)
    BY <2>3 DEF none
  <2> HIDE DEF f1
  <2>5. Holds(f2, T, v, 2)
    BY <2>1, <2>4, <1>21, OneMoreField
  <2> HIDE DEF f2
  <2>6. Holds(f3, T, v, 3)
    BY <2>1, <2>5, <1>21, OneMoreField
  <2> HIDE DEF f3
  <2>7. Holds(f4, T, v, 4)
    BY <2>1, <2>6, <1>21, OneMoreField
  <2> HIDE DEF f4
  <2>8. Holds(f5, T, v, 5)
    BY <2>1, <2>7, <1>21, OneMoreField
  <2> HIDE DEF f5
  <2>9. Holds(f6, T, v, 6)
    BY <2>1, <2>8, <1>21, OneMoreField
  <2> HIDE DEF f6
  <2>10. Holds(f7, T, v, 7)
    BY <2>1, <2>9, <1>21, OneMoreField
  <2> HIDE DEF f7
  <2>11. Holds(f8, T, v, 8)
    BY <2>1, <2>10, <1>21, OneMoreField
  <2> HIDE DEF f8
  <2>12. Holds(f9, T, v, 9)
    BY <2>1, <2>11, <1>21, OneMoreField
  <2> HIDE DEF f9
  <2>13. Holds(f10, T, v, 10)
    BY <2>1, <2>12, <1>21, OneMoreField
  <2> HIDE DEF f10
  <2>14. Holds(f11, T, v, 11)
    BY <2>1, <2>13, <1>21, OneMoreField
  <2> HIDE DEF f11
  <2>15. QED
    BY <2>14
<1> HIDE DEF f1, f2, f3, f4, f5, f6, f7, f8, f9, f10
<1>23. /\ f11 \in Seq(T) /\ Len(f11) = 11
       /\ f11[2] = v2 /\ f11[4] = v4 /\ f11[5] = v5 /\ f11[6] = v6 /\ f11[7] = v7
       /\ f11[8] = v8 /\ f11[9] = v9 /\ f11[10] = v10
  <2> HIDE DEF f11
  <2>1. f11 \in Seq(T) /\ Len(f11) = 11 /\ \A i \in 1..11 : f11[i] = v[i]
    BY <1>22 DEF Holds
  <2>2. QED
    BY <2>1, <1>21
<1>24. Describes(f11, e)
  <2> HIDE DEF f11
  <2>1. /\ Len(f11) = 11
        /\ f11[2] = lossy(e.path) \o IF e.target = None THEN << >> ELSE ARROW \o lossy(e.target)
    BY <1>23 DEF v2, named
  <2>2. \A n \in 0..11 : ShowsBit(SubSeq(f11[4], 4, 12), n) <=> Bit(e.mode, n)
    BY <1>3, <1>23, Permissions DEF perm
  <2>3. /\ f11[5] = <<ToText[e.uid]>> /\ f11[6] = <<ToText[e.gid]>>
        /\ f11[7] = <<ToText[e.size]>> /\ f11[8] = <<ToText[e.atime]>>
        /\ f11[9] = <<ToText[e.mtime]>>
    BY <1>23 DEF v5, v6, v7, v8, v9
  <2>4. e.ctime # None => f11[10] = <<ToText[e.ctime]>>
    BY <1>7, <1>23
  <2>5. QED
    BY <2>1, <2>2, <2>3, <2>4, Zenon DEF Describes
<1>25. q0 = Inside(l, << >>, << >>) /\ q12 = Inside(l, f10, v11) /\ f11 = Append(f10, v11)
  BY DEF q0, q12
<1>26. f11 \in Seq(Seq(Letters))
  BY <1>23 DEF T
<1>27. QED
  BY <1>20, <1>24, <1>25, <1>26

-----------------------------------------------------------------------------
(***************************************************************************)
(* The reader without a line break stays in its line.                      *)
(***************************************************************************)
InLine(r, l) == \E f, x : \E u \in Seq(Letters) : r = Reader(l, f, x, u)

LEMMA ReadStays ==
    ASSUME NEW r, NEW l, InLine(r, l), NEW c \in Chars
    PROVE  InLine(Read(r, c), l)
<1>1. PICK f, x : \E u \in Seq(Letters) : r = Reader(l, f, x, u)
  BY DEF InLine
<1>2. PICK u \in Seq(Letters) : r = Reader(l, f, x, u)
  BY <1>1
<1> DEFINE unit == Append(u, c)
           none == << >>
<1>3. c \in Letters /\ c # NEWLINE
  BY DEF Chars
<1>4. unit \in Seq(Letters) /\ unit[Len(u) + 1] = c /\ Len(unit) = Len(u) + 1
  BY <1>3, AppendProperties
<1>5. none \in Seq(Letters)
  BY EmptySeq
<1>6. ~IsBreak(unit)
  <2>1. SUFFICES ASSUME unit = <<NEWLINE>> PROVE FALSE
    BY DEF IsBreak
  <2>2. Len(unit) = 1 /\ unit[1] = NEWLINE
    BY <2>1
  <2>3. Len(u) \in Nat
    BY LenProperties
  <2>4. Len(u) + 1 = 1
    BY <2>2, <1>4
  <2>5. QED
    BY <1>3, <1>4, <2>2, <2>4
<1>7. Append(u, c) = unit
  OBVIOUS
<1> HIDE DEF unit, none
<1>8. CASE IsBar(unit)
  <2>1. Read(Reader(l, f, x, u), c) = Inside(l, Append(f, x), << >>)
    BY <1>7, <1>8, ReadABar
  <2>2. Read(r, c) = Reader(l, Append(f, x), none, none)
    BY <1>2, <2>1 DEF Inside, none
  <2>3. QED
    BY <1>5, <2>2 DEF InLine
<1>9. CASE ~IsBar(unit) /\ Unfinished(unit)
  <2>1. Read(Reader(l, f, x, u), c) = Reader(l, f, x, unit)
    BY <1>6, <1>7, <1>9, ReadAPart
  <2>2. Read(r, c) = Reader(l, f, x, unit)
    BY <1>2, <2>1
  <2>3. QED
    BY <1>4, <2>2 DEF InLine
<1>10. CASE ~IsBar(unit) /\ ~Unfinished(unit)
  <2>1. Read(Reader(l, f, x, u), c) = Inside(l, f, Append(x, Meaning(unit)))
    BY <1>6, <1>7, <1>10, ReadAUnit
  <2>2. Read(r, c) = Reader(l, f, Append(x, Meaning(unit)), none)
    BY <1>2, <2>1 DEF Inside, none
  <2>3. QED
    BY <1>5, <2>2 DEF InLine
<1>11. QED
  BY <1>8, <1>9, <1>10

LEMMA AfterStays ==
    ASSUME NEW l, NEW f, NEW x, NEW text \in Seq(Chars)
    PROVE  After(Inside(l, f, x), text).lines = l
<1> DEFINE n == Len(text)
           r == Inside(l, f, x)
<1>1. n \in Nat
  BY LenProperties
<1>2. PICK g : Steps(g, r, text, n)
  BY AfterIs
<1> DEFINE T == {k \in Nat : InLine(g[k], l)}
<1>3. InLine(r, l)
  <2>1. << >> \in Seq(Letters)
    BY EmptySeq
  <2>2. QED
    BY <2>1 DEF InLine, Inside
<1> HIDE DEF n, r
<1>4. 0 \in T
  BY <1>2, <1>3 DEF Steps
<1>5. ASSUME NEW k \in 0..(n - 1), k \in T PROVE k + 1 \in T
  <2>1. k + 1 \in 1..n /\ (k + 1) - 1 = k /\ k + 1 \in Nat
    BY <1>1
  <2> DEFINE c == text[k + 1]
  <2>2. c \in Chars
    BY <2>1, ElementOfSeq DEF n
  <2>3. g[k + 1] = Read(g[k], c)
    BY <2>1, <1>2 DEF Steps
  <2>4. InLine(g[k], l)
    BY <1>5
  <2> HIDE DEF c
  <2>5. InLine(g[k + 1], l)
    BY <2>2, <2>3, <2>4, ReadStays
  <2>6. QED
    BY <2>1, <2>5
<1> HIDE DEF T
<1>6. \A k \in 0..n : k \in T
  BY <1>1, <1>4, <1>5, StepByStep
<1>7. InLine(g[n], l)
  BY <1>1, <1>6 DEF T
<1>8. After(r, text) = g[n]
  BY <1>2 DEF Steps
<1>9. After(r, text).lines = l
  BY <1>7, <1>8, ReaderHas DEF InLine
<1>10. QED
  BY <1>9 DEF r

-----------------------------------------------------------------------------
(***************************************************************************)
(* What write_bodyfile has written reads as the entries it has passed, to  *)
(* the end of a line or, when the writer failed, into the next.            *)
(***************************************************************************)
Start == Inside(<< >>, << >>, << >>)
Described(lines, n) ==
    /\ lines \in Seq(Seq(Seq(Letters)))
    /\ Len(lines) = n
    /\ \A k \in 1..n : Describes(lines[k], entries[k])
ReadsWhole(text, n) ==
    \E lines : Described(lines, n) /\ After(Start, text) = Inside(lines, << >>, << >>)
ReadsInto(text, n) ==
    \E lines : Described(lines, n) /\ After(Start, text).lines = lines

Bodyfile ==
    /\ \A i \in DOMAIN entries : Numbered(entries[i])
    /\ out \in Seq(Letters)
    /\ phase \in {"called", "writing", "written"} => ReadsWhole(out, next - 1)
    /\ phase = "failed" => ReadsInto(out, next - 1)
    /\ phase = "written" => next = Len(entries) + 1

LEMMA BodyfileInit ==
    ASSUME Init
    PROVE  Bodyfile
<1>1. PICK l \in Listings : entries = l.entries
  BY DEF Init
<1>2. \A i \in DOMAIN entries : Numbered(entries[i])
  BY <1>1, ReportConstants DEF ReportConstants, Numbered
<1>3. phase = "called" /\ next - 1 = 0 /\ out = << >>
  BY DEF Init
<1> DEFINE none == << >>
<1>4. none \in Seq(Letters) /\ none \in Seq(Seq(Seq(Letters))) /\ Len(none) = 0
  BY EmptySeq
<1>5. After(Start, none) = Inside(none, << >>, << >>)
  BY AfterNothing DEF Start
<1>6. out = none
  BY <1>3
<1> HIDE DEF none
<1>7. Described(none, 0)
  BY <1>4 DEF Described
<1>8. ReadsWhole(none, 0)
  BY <1>5, <1>7 DEF ReadsWhole
<1>9. QED
  BY <1>2, <1>3, <1>4, <1>6, <1>8 DEF Bodyfile

LEMMA BodyfileLine ==
    ASSUME Walk, Bodyfile, WriteLine
    PROVE  Bodyfile'
<1> DEFINE e == entries[next]
           text == line(e)
           whole == Append(text, NEWLINE)
<1>1. /\ entries \in Seq(EntryFields) /\ Len(entries) \in Nat
      /\ next \in 1..(Len(entries) + 1) /\ next <= Len(entries)
      /\ phase = "writing" /\ phase' = "writing" /\ next' = next + 1
      /\ entries' = entries /\ out' = out \o whole
  BY LenProperties DEF Walk, TypeOK, WriteLine
<1>2. PICK n \in Nat : n = next - 1 /\ n + 1 = next /\ next' - 1 = n + 1
  BY <1>1
<1>3. e \in EntryFields /\ Numbered(e)
  <2>1. next \in 1..Len(entries) /\ next \in DOMAIN entries
    BY <1>1, LenProperties
  <2>2. QED
    BY <1>1, <2>1, ElementOfSeq DEF Bodyfile
<1>4. PICK lines : Described(lines, n) /\ After(Start, out) = Inside(lines, << >>, << >>)
  BY <1>1, <1>2 DEF Bodyfile, ReadsWhole
<1> HIDE DEF e
<1>5. PICK g, x : /\ Takes(Inside(lines, << >>, << >>), text, Inside(lines, g, x))
                  /\ Append(g, x) \in Seq(Seq(Letters))
                  /\ Describes(Append(g, x), e)
  BY <1>3, TakesLine
<1> HIDE DEF text
<1> DEFINE new == Append(g, x)
<1>6. PICK more : more = Append(lines, new)
  OBVIOUS
<1>7. text \in Seq(Letters) /\ NEWLINE \in Letters /\ out \in Seq(Letters)
  <2>1. text \in Seq(Chars)
    BY <1>5 DEF Takes
  <2>2. Chars \subseteq Letters
    BY DEF Chars
  <2>3. NEWLINE \in Letters
    BY Newline DEF Letters
  <2>4. QED
    BY <2>1, <2>2, <2>3, SeqMonotonic DEF Bodyfile
<1>8. whole = text \o <<NEWLINE>> /\ whole \in Seq(Letters) /\ <<NEWLINE>> \in Seq(Letters)
  BY <1>7, AppendIsConcat, AppendProperties, OneChar
<1>9. After(Inside(lines, << >>, << >>), whole) = Inside(more, << >>, << >>)
  <2> DEFINE r == Inside(lines, << >>, << >>)
             q == Inside(lines, g, x)
  <2>1. After(r, text) = q
    BY <1>5 DEF Takes
  <2>2. Read(q, NEWLINE) = Inside(more, << >>, << >>)
    BY <1>6, ReadNewline
  <2> HIDE DEF r, q
  <2>3. After(r, text \o <<NEWLINE>>) = After(After(r, text), <<NEWLINE>>)
    BY <1>7, <1>8, AfterConcat
  <2>4. After(q, <<NEWLINE>>) = Read(q, NEWLINE)
    BY AfterOne
  <2>5. After(r, whole) = Inside(more, << >>, << >>)
    BY <1>8, <2>1, <2>2, <2>3, <2>4
  <2>6. QED
    BY <2>5 DEF r
<1> HIDE DEF whole
<1>10. After(Start, out') = Inside(more, << >>, << >>)
  <2>1. whole \in Seq(Letters) /\ out \in Seq(Letters)
    BY <1>7, <1>8
  <2>2. After(Start, out \o whole) = After(After(Start, out), whole)
    BY <2>1, AfterConcat
  <2>3. QED
    BY <1>1, <1>4, <1>9, <2>2
<1>11. out' \in Seq(Letters)
  BY <1>1, <1>7, <1>8, ConcatProperties
<1>12. Described(more, n + 1)
  <2>1. lines \in Seq(Seq(Seq(Letters))) /\ Len(lines) = n
        /\ \A k \in 1..n : Describes(lines[k], entries[k])
    BY <1>4 DEF Described
  <2>2. new \in Seq(Seq(Letters)) /\ Describes(new, entries[n + 1])
    BY <1>2, <1>5 DEF e
  <2>3. more = Append(lines, new)
    BY <1>6
  <2> HIDE DEF new
  <2>4. /\ more \in Seq(Seq(Seq(Letters))) /\ Len(more) = n + 1 /\ more[n + 1] = new
        /\ \A k \in 1..n : more[k] = lines[k]
    BY <2>1, <2>2, <2>3, AppendProperties
  <2>5. \A k \in 1..(n + 1) : k \in 1..n \/ k = n + 1
    BY <1>2
  <2>6. \A k \in 1..(n + 1) : Describes(more[k], entries[k])
    BY <2>1, <2>2, <2>4, <2>5
  <2>7. QED
    BY <2>4, <2>6 DEF Described
<1>13. ReadsWhole(out, next - 1)'
  <2>1. Described(more, n + 1)'
    BY <1>1, <1>12 DEF Described
  <2>2. QED
    BY <1>2, <1>10, <2>1 DEF ReadsWhole
<1>14. (\A i \in DOMAIN entries : Numbered(entries[i]))'
  BY <1>1 DEF Bodyfile
<1>15. QED
  BY <1>1, <1>11, <1>13, <1>14 DEF Bodyfile

LEMMA BodyfileFails ==
    ASSUME Walk, Bodyfile, WriteFails
    PROVE  Bodyfile'
<1> DEFINE e == entries[next]
           text == line(e)
<1>1. /\ entries \in Seq(EntryFields) /\ Len(entries) \in Nat
      /\ next \in 1..(Len(entries) + 1) /\ next <= Len(entries)
      /\ phase = "writing" /\ phase' = "failed" /\ next' = next
      /\ entries' = entries
  BY LenProperties DEF Walk, TypeOK, WriteFails
<1>2. PICK m \in 0..Len(text) : out' = out \o SubSeq(text, 1, m)
  BY DEF WriteFails
<1>3. e \in EntryFields /\ Numbered(e)
  <2>1. next \in 1..Len(entries) /\ next \in DOMAIN entries
    BY <1>1, LenProperties
  <2>2. QED
    BY <1>1, <2>1, ElementOfSeq DEF Bodyfile
<1>4. PICK lines : Described(lines, next - 1) /\ After(Start, out) = Inside(lines, << >>, << >>)
  BY <1>1 DEF Bodyfile, ReadsWhole
<1> HIDE DEF e
<1>5. text \in Seq(Chars)
  BY <1>3, TakesLine DEF Takes
<1> DEFINE part == SubSeq(text, 1, m)
<1> HIDE DEF text
<1>6. part \in Seq(Chars)
  <2>1. Len(text) \in Nat
    BY <1>5, LenProperties
  <2>2. \A i \in 1..m : text[i] \in Chars
    BY <1>5, <2>1, ElementOfSeq
  <2>3. m \in Int /\ 1 \in Int
    BY <2>1
  <2>4. QED
    BY <2>2, <2>3, SubSeqProperties
<1>7. out' = out \o part
  BY <1>2
<1> HIDE DEF part
<1>8. part \in Seq(Letters) /\ out \in Seq(Letters)
  <2>1. Chars \subseteq Letters
    BY DEF Chars
  <2>2. QED
    BY <1>6, <2>1, SeqMonotonic DEF Bodyfile
<1>9. out' \in Seq(Letters)
  BY <1>7, <1>8, ConcatProperties
<1>10. After(Start, out').lines = lines
  <2>1. After(Start, out \o part) = After(After(Start, out), part)
    BY <1>8, AfterConcat
  <2>2. After(Inside(lines, << >>, << >>), part).lines = lines
    BY <1>6, AfterStays
  <2>3. QED
    BY <1>4, <1>7, <2>1, <2>2
<1>11. ReadsInto(out, next - 1)'
  <2>1. Described(lines, next - 1)'
    BY <1>1, <1>4 DEF Described
  <2>2. QED
    BY <1>10, <2>1 DEF ReadsInto
<1>12. (\A i \in DOMAIN entries : Numbered(entries[i]))'
  BY <1>1 DEF Bodyfile
<1>13. QED
  BY <1>1, <1>9, <1>11, <1>12 DEF Bodyfile

\* An action that writes nothing.
LEMMA BodyfileStays ==
    ASSUME Bodyfile, UNCHANGED <<entries, out>>,
           phase' \in {"called", "writing", "written"} =>
                next' = next /\ phase \in {"called", "writing", "written"},
           phase' = "failed" => next' = next /\ phase = "failed",
           phase' = "written" => next' = Len(entries) + 1
    PROVE  Bodyfile'
<1>1. phase' \in {"called", "writing", "written"} => ReadsWhole(out, next - 1)'
  <2>1. ASSUME phase' \in {"called", "writing", "written"} PROVE ReadsWhole(out, next - 1)'
    <3>1. ReadsWhole(out, next - 1) /\ next' = next
      BY <2>1 DEF Bodyfile
    <3>2. QED
      BY <3>1 DEF ReadsWhole, Described
  <2>2. QED
    BY <2>1
<1>2. phase' = "failed" => ReadsInto(out, next - 1)'
  <2>1. ASSUME phase' = "failed" PROVE ReadsInto(out, next - 1)'
    <3>1. ReadsInto(out, next - 1) /\ next' = next
      BY <2>1 DEF Bodyfile
    <3>2. QED
      BY <3>1 DEF ReadsInto, Described
  <2>2. QED
    BY <2>1
<1>3. QED
  BY <1>1, <1>2 DEF Bodyfile

LEMMA BodyfileStep ==
    ASSUME Walk, Bodyfile, [Next]_vars
    PROVE  Bodyfile'
<1>1. CASE CallAudit
  BY <1>1, BodyfileStays DEF CallAudit
<1>2. CASE Examine
  BY <1>2, BodyfileStays DEF Examine
<1>3. CASE SortAnomalies
  BY <1>3, BodyfileStays DEF SortAnomalies
<1>4. CASE CallBodyfile
  BY <1>4, BodyfileStays DEF CallBodyfile
<1>5. CASE WriteLine
  BY <1>5, BodyfileLine
<1>6. CASE Written
  <2>1. Len(entries) \in Nat /\ next \in 1..(Len(entries) + 1)
    BY LenProperties DEF Walk, TypeOK
  <2>2. next = Len(entries) + 1
    BY <1>6, <2>1 DEF Written
  <2>3. QED
    BY <1>6, <2>2, BodyfileStays DEF Written
<1>7. CASE WriteFails
  BY <1>7, BodyfileFails
<1>8. CASE UNCHANGED vars
  <2>1. phase = "written" => next = Len(entries) + 1
    BY DEF Bodyfile
  <2>2. QED
    BY <1>8, <2>1, BodyfileStays DEF vars
<1>9. QED
  BY <1>1, <1>2, <1>3, <1>4, <1>5, <1>6, <1>7, <1>8 DEF Next

LEMMA BodyfileIsRead ==
    ASSUME Bodyfile
    PROVE  LinesAreEntries
<1> DEFINE read == After(Reader(<< >>, << >>, << >>, << >>), out)
<1>1. SUFFICES ASSUME phase \in {"writing", "written", "failed"}
               PROVE  /\ Len(read.lines) = next - 1
                      /\ \A k \in 1..(next - 1) : Describes(read.lines[k], entries[k])
                      /\ phase = "written" =>
                            /\ next = Len(entries) + 1
                            /\ read = Reader(read.lines, << >>, << >>, << >>)
  BY DEF LinesAreEntries
<1>2. read = After(Start, out)
  BY DEF Start, Inside
<1> HIDE DEF read
<1>3. CASE phase = "failed"
  <2>1. Described(read.lines, next - 1)
    BY <1>2, <1>3 DEF Bodyfile, ReadsInto
  <2>2. QED
    BY <1>3, <2>1 DEF Described
<1>4. CASE phase \in {"writing", "written"}
  <2>1. PICK lines : Described(lines, next - 1) /\ read = Inside(lines, << >>, << >>)
    BY <1>2, <1>4 DEF Bodyfile, ReadsWhole
  <2>2. read = Reader(lines, << >>, << >>, << >>)
    BY <2>1 DEF Inside
  <2>3. read.lines = lines
    BY <2>2, ReaderHas
  <2>4. QED
    BY <1>4, <2>1, <2>2, <2>3 DEF Described, Bodyfile
<1>5. QED
  BY <1>1, <1>3, <1>4

(***************************************************************************)
(* A bodyfile reads back as the entries, whatever their number and names:  *)
(* no escape can be taken for another text, so no name ends a field or a   *)
(* line, and each line ends where the next begins.                         *)
(***************************************************************************)
THEOREM BodyfileReadsBack == Spec => []LinesAreEntries
<1>1. Init => Walk /\ Bodyfile
  BY WalkInit, BodyfileInit
<1>2. Walk /\ Bodyfile /\ [Next]_vars => Walk' /\ Bodyfile'
  BY WalkStep, BodyfileStep
<1>3. Bodyfile => LinesAreEntries
  BY BodyfileIsRead
<1>4. QED
  BY <1>1, <1>2, <1>3, PTL DEF Spec
=============================================================================
