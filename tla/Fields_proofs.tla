---------------------------- MODULE Fields_proofs ----------------------------
(***************************************************************************)
(* Proofs about Fields, for every format, catalogue and bound.             *)
(*                                                                         *)
(* The stream has nothing in it that says where an entry begins, so the    *)
(* invariant says it: at every step, what is still to be read of the entry *)
(* in progress is exactly the tokens that the grammar of its format puts   *)
(* after the field the parser has come to (Ahead), and they end where the  *)
(* next entry begins.  A step is then the removal of a row of tokens from  *)
(* the front of Ahead.                                                     *)
(***************************************************************************)
EXTENDS Fields, SequenceTheorems, NaturalsInduction, WellFoundedInduction, TLAPS

\* Naturals have a least one among them.
LEMMA LeastNatural ==
    ASSUME NEW T \in SUBSET Nat, T # {}
    PROVE  \E x \in T : \A y \in T : x <= y
<1> DEFINE Less == OpToRel(<, Nat)
<1>1. \A x, y \in Nat : x < y => <<x, y>> \in Less
  BY DEF OpToRel
<1>2. IsWellFoundedOn(Less, Nat)
  BY NatLessThanWellFounded
<1> HIDE DEF Less
<1>3. PICK x \in T : \A y \in T : ~(<<y, x>> \in Less)
  BY <1>2, WFMin
<1>4. \A y \in T : ~(y < x)
  BY <1>1, <1>3
<1>5. \A y \in T : x <= y
  BY <1>4
<1>6. QED
  BY <1>5

-----------------------------------------------------------------------------
(***************************************************************************)
(* The concatenation of a sequence of sequences: where each one lies in it.*)
(***************************************************************************)

\* p gives the number of elements of whole before each of its parts.
LaidOut(p, parts, n, whole) ==
    /\ p \in [1..(n + 1) -> Nat] /\ p[1] = 0 /\ p[n + 1] = Len(whole)
    /\ \A k \in 1..(n + 1) : p[k] <= Len(whole)
    /\ \A k \in 1..n :
          /\ p[k + 1] = p[k] + Len(parts[k])
          /\ \A j \in 1..Len(parts[k]) : whole[p[k] + j] = parts[k][j]

Flattens(f, n, parts) ==
    f = [i \in 1..n |-> IF i = 1 THEN parts[i] ELSE f[i - 1] \o parts[i]]

\* The function that FlattenSeq is defined by exists.
LEMMA FlattensExists ==
    ASSUME NEW parts, NEW n \in Nat
    PROVE  \E f : Flattens(f, n, parts)
<1> DEFINE Bad == {m \in Nat : ~\E f : Flattens(f, m, parts)}
<1>1. SUFFICES ASSUME Bad # {} PROVE FALSE
  OBVIOUS
<1>2. PICK m \in Bad : \A y \in Bad : m <= y
  <2>1. Bad \in SUBSET Nat
    OBVIOUS
  <2>2. QED
    BY <2>1, <1>1, LeastNatural
<1>3. m # 0
  <2>1. Flattens([i \in 1..0 |-> 0], 0, parts)
    BY DEF Flattens
  <2>2. QED
    BY <2>1
<1>4. m \in Nat /\ m - 1 \in Nat /\ m - 1 \notin Bad
  BY <1>2, <1>3
<1>5. PICK f : Flattens(f, m - 1, parts)
  BY <1>4
<1> DEFINE g == [i \in 1..m |-> IF i = 1 THEN parts[i] ELSE f[i - 1] \o parts[i]]
<1>6. DOMAIN f = 1..(m - 1) /\ \A i \in 1..(m - 1) : f[i] = IF i = 1 THEN parts[i] ELSE f[i - 1] \o parts[i]
  BY <1>5 DEF Flattens
<1>7. \A i \in 1..(m - 1) : g[i] = f[i]
  <2>1. \A i \in 1..(m - 1) : i \in 1..m
    BY <1>4
  <2>2. \A i \in 1..m : g[i] = IF i = 1 THEN parts[i] ELSE f[i - 1] \o parts[i]
    OBVIOUS
  <2> HIDE DEF g
  <2>3. QED
    BY <2>1, <2>2, <1>6
<1>8. g = [i \in 1..m |-> IF i = 1 THEN parts[i] ELSE g[i - 1] \o parts[i]]
  <2>1. \A i \in 1..m : i # 1 => g[i - 1] = f[i - 1]
    <3>1. \A i \in 1..m : i # 1 => i - 1 \in 1..(m - 1)
      BY <1>4
    <3> HIDE DEF g
    <3>2. QED
      BY <3>1, <1>7
  <2>2. \A i \in 1..m : (IF i = 1 THEN parts[i] ELSE f[i - 1] \o parts[i])
                            = (IF i = 1 THEN parts[i] ELSE g[i - 1] \o parts[i])
    BY <2>1
  <2> HIDE DEF g
  <2>3. [i \in 1..m |-> IF i = 1 THEN parts[i] ELSE f[i - 1] \o parts[i]]
           = [i \in 1..m |-> IF i = 1 THEN parts[i] ELSE g[i - 1] \o parts[i]]
    BY <2>2
  <2>4. QED
    BY <2>3 DEF g
<1>9. Flattens(g, m, parts)
  BY <1>8 DEF Flattens
<1>10. QED
  BY <1>2, <1>9

\* What lies in a sequence stays where it is when another is put behind it.
LEMMA LayoutExtends ==
    ASSUME NEW S, NEW parts, NEW h \in Nat, NEW p, NEW s \in Seq(S),
           \A k \in 1..(h + 1) : parts[k] \in Seq(S), LaidOut(p, parts, h, s)
    PROVE  /\ s \o parts[h + 1] \in Seq(S)
           /\ \E q : LaidOut(q, parts, h + 1, s \o parts[h + 1])
<1> DEFINE t == parts[h + 1]
           a == Len(s)
           b == Len(t)
           q == [k \in 1..(h + 2) |-> IF k = h + 2 THEN a + b ELSE p[k]]
<1>1. t \in Seq(S) /\ a \in Nat /\ b \in Nat
  BY LenProperties
<1>2. /\ s \o t \in Seq(S) /\ Len(s \o t) = a + b
      /\ \A m \in 1..(a + b) : (s \o t)[m] = IF m <= a THEN s[m] ELSE t[m - a]
  BY <1>1, ConcatProperties
<1>3. /\ p \in [1..(h + 1) -> Nat] /\ p[1] = 0 /\ p[h + 1] = a
      /\ \A k \in 1..h : /\ p[k + 1] = p[k] + Len(parts[k])
                         /\ \A j \in 1..Len(parts[k]) : s[p[k] + j] = parts[k][j]
  BY DEF LaidOut
<1>4. \A k \in 1..h : Len(parts[k]) \in Nat
  BY LenProperties
<1>5. q \in [1..(h + 2) -> Nat] /\ \A k \in 1..(h + 1) : q[k] = p[k]
  BY <1>1, <1>3
<1>6. q[h + 2] = a + b
  OBVIOUS
<1> HIDE DEF q
<1>7. \A k \in 1..(h + 1) : p[k] <= a
  BY DEF LaidOut
<1> HIDE DEF t, a, b
<1>8. ASSUME NEW k \in 1..h
      PROVE  /\ q[k + 1] = q[k] + Len(parts[k])
             /\ \A j \in 1..Len(parts[k]) : (s \o t)[q[k] + j] = parts[k][j]
  <2>1. k + 1 \in 1..(h + 1) /\ k \in 1..(h + 1)
    OBVIOUS
  <2>2. q[k] = p[k] /\ q[k + 1] = p[k + 1] /\ p[k + 1] <= a /\ p[k] \in Nat
    BY <2>1, <1>5, <1>7, <1>3
  <2>3. p[k + 1] = p[k] + Len(parts[k]) /\ Len(parts[k]) \in Nat
    BY <1>3, <1>4
  <2>4. ASSUME NEW j \in 1..Len(parts[k]) PROVE (s \o t)[p[k] + j] = parts[k][j]
    <3> DEFINE m == p[k] + j
    <3>1. m \in 1..(a + b) /\ m <= a
      BY <2>2, <2>3, <1>1
    <3>2. s[m] = parts[k][j]
      BY <1>3
    <3> HIDE DEF m
    <3>3. (s \o t)[m] = s[m]
      BY <3>1, <1>2
    <3>4. QED
      BY <3>2, <3>3 DEF m
  <2>5. QED
    BY <2>2, <2>3, <2>4
<1>9. /\ q[h + 2] = q[h + 1] + b
      /\ \A j \in 1..b : (s \o t)[q[h + 1] + j] = t[j]
  <2>1. q[h + 1] = a
    BY <1>5, <1>3
  <2>2. ASSUME NEW j \in 1..b PROVE (s \o t)[a + j] = t[j]
    <3>1. a + j \in 1..(a + b) /\ ~(a + j <= a) /\ (a + j) - a = j
      BY <1>1
    <3>2. (s \o t)[a + j] = t[(a + j) - a]
      BY <3>1, <1>2
    <3>3. QED
      BY <3>1, <3>2
  <2>3. QED
    BY <2>1, <2>2, <1>6
<1>10. ASSUME NEW k \in 1..(h + 1)
       PROVE  /\ q[k + 1] = q[k] + Len(parts[k])
              /\ \A j \in 1..Len(parts[k]) : (s \o t)[q[k] + j] = parts[k][j]
  <2>1. CASE k \in 1..h
    BY <2>1, <1>8
  <2>2. CASE k = h + 1
    <3>1. k + 1 = h + 2 /\ parts[k] = t /\ Len(parts[k]) = b
      BY <2>2 DEF t, b
    <3>2. QED
      BY <3>1, <2>2, <1>9
  <2>3. k \in 1..h \/ k = h + 1
    OBVIOUS
  <2>4. QED
    BY <2>1, <2>2, <2>3
<1>11. q[1] = 0 /\ (h + 1) + 1 = h + 2
  BY <1>5, <1>3
<1>12. \A k \in 1..(h + 2) : q[k] <= a + b
  <2>1. \A k \in 1..(h + 2) : k \in 1..(h + 1) \/ k = h + 2
    OBVIOUS
  <2>2. \A k \in 1..(h + 1) : p[k] <= a + b
    BY <1>7, <1>3, <1>1
  <2>3. QED
    BY <2>1, <2>2, <1>5, <1>6, <1>1
<1>14. LaidOut(q, parts, h + 1, s \o t)
  BY <1>5, <1>6, <1>10, <1>11, <1>12, <1>2 DEF LaidOut
<1>13. QED
  BY <1>14, <1>2 DEF t

\* Each part lies in the whole where the lengths of those before it put it.
LEMMA FlattenedParts ==
    ASSUME NEW S, NEW parts \in Seq(Seq(S))
    PROVE  /\ FlattenSeq(parts) \in Seq(S)
           /\ \E p : LaidOut(p, parts, Len(parts), FlattenSeq(parts))
<1> DEFINE n == Len(parts)
<1>0. n \in Nat /\ DOMAIN parts = 1..n /\ \A i \in 1..n : parts[i] \in Seq(S)
  BY LenProperties, ElementOfSeq
<1>1. CASE n = 0
  <2>1. FlattenSeq(parts) = parts /\ parts = << >>
    BY <1>1, <1>0 DEF FlattenSeq
  <2>2. LaidOut([i \in 1..1 |-> 0], parts, 0, << >>)
    BY DEF LaidOut
  <2>3. QED
    BY <2>1, <2>2, <1>1
<1>2. CASE n # 0
  <2>1. PICK f : f = (CHOOSE g : Flattens(g, n, parts)) /\ Flattens(f, n, parts)
    BY <1>0, FlattensExists
  <2>2. FlattenSeq(parts) = f[n]
    BY <1>2, <2>1 DEF FlattenSeq, Flattens
  <2>3. \A i \in 1..n : f[i] = IF i = 1 THEN parts[i] ELSE f[i - 1] \o parts[i]
    BY <2>1 DEF Flattens
  <2> DEFINE Bad == {i \in 1..n : ~(f[i] \in Seq(S) /\ \E p : LaidOut(p, parts, i, f[i]))}
  <2> HIDE DEF n
  <2>4. Bad = {}
    <3>1. SUFFICES ASSUME Bad # {} PROVE FALSE
      OBVIOUS
    <3>2. PICK i \in Bad : \A y \in Bad : i <= y
      <4>1. Bad \in SUBSET Nat
        BY <1>0
      <4>2. QED
        BY <4>1, <3>1, LeastNatural
    <3>3. i \in 1..n /\ parts[i] \in Seq(S) /\ Len(parts[i]) \in Nat
      BY <1>0, LenProperties
    <3>4. i # 1
      <4>1. SUFFICES ASSUME i = 1 PROVE FALSE
        OBVIOUS
      <4>2. f[1] = parts[1]
        BY <2>3, <3>3, <4>1
      <4>3. LaidOut([j \in 1..2 |-> IF j = 1 THEN 0 ELSE Len(parts[1])], parts, 1, f[1])
        BY <4>2, <3>3, <4>1 DEF LaidOut
      <4>4. QED
        BY <4>1, <4>2, <4>3, <3>2, <3>3
    <3> DEFINE h == i - 1
    <3>5. h \in 1..n /\ h \notin Bad /\ h \in Nat /\ i = h + 1
      <4>1. h \in 1..n /\ h \in Nat /\ i = h + 1 /\ ~(i <= h)
        BY <3>3, <3>4, <1>0
      <4> HIDE DEF Bad, h
      <4>2. h \notin Bad
        BY <4>1, <3>2
      <4>3. QED
        BY <4>1, <4>2
    <3>6. f[h] \in Seq(S) /\ Len(f[h]) \in Nat
      BY <3>5, LenProperties
    <3>7. PICK p : LaidOut(p, parts, h, f[h])
      BY <3>5
    <3>8. f[i] = f[h] \o parts[i]
      BY <2>3, <3>3, <3>4
    <3> HIDE DEF h, Bad
    <3>9. h \in Nat /\ parts[h + 1] = parts[i] /\ \A k \in 1..(h + 1) : parts[k] \in Seq(S)
      BY <3>5, <3>3, <1>0
    <3> HIDE DEF h, Bad
    <3>10. f[h] \o parts[i] \in Seq(S) /\ \E q : LaidOut(q, parts, h + 1, f[h] \o parts[i])
      <4> DEFINE s == f[h]
      <4>1. s \in Seq(S) /\ LaidOut(p, parts, h, s)
        BY <3>6, <3>7
      <4> HIDE DEF s
      <4>2. s \o parts[h + 1] \in Seq(S) /\ \E q : LaidOut(q, parts, h + 1, s \o parts[h + 1])
        BY <4>1, <3>9, LayoutExtends
      <4>3. QED
        BY <4>2, <3>9 DEF s
    <3>11. f[i] \in Seq(S) /\ \E q : LaidOut(q, parts, i, f[i])
      BY <3>10, <3>8, <3>5
    <3>12. QED
      BY <3>11, <3>3, <3>2 DEF Bad
  <2>5. n \in 1..n
    BY <1>0, <1>2
  <2>6. QED
    BY <2>2, <2>4, <2>5 DEF n
<1>3. QED
  BY <1>1, <1>2

-----------------------------------------------------------------------------
(***************************************************************************)
(* What is still to be read of an entry when the parser has come to a      *)
(* field: a row of tokens, then what follows it.                           *)
(***************************************************************************)
Kinds == {"u8", "u16", "inf", "nul", "raw"}
FieldNames ==
    {"type", "name", "flags", "uid", "gid", "mode", "unit", "atime", "mtime", "ctime",
     "subsecond", "ea", "fsa_families", "fsa_size", "fsa_offset", "fsa_crc_width", "fsa_crc",
     "size", "archive_offset", "stored_size", "file_data_status", "compression", "crc_width",
     "crc", "target", "device"}
Values == STRING \cup Nat \cup Types \cup FlagValues \cup {"s", "n", "u", "none", "z"}
Tokens == [kind : Kinds, field : FieldNames, value : Values, width : Nat]

FsaRow == Inf("fsa_families", 0) \o Inf("fsa_size", 0) \o Inf("fsa_offset", 0)
FsaSizeRow(e) == Inf("fsa_crc_width", e.fsa_crc_width) \o Raw("fsa_crc", e.fsa_crc_width)
OwnerRow(e) == IF format <= 7 THEN U16("uid", e.uid) \o U16("gid", e.gid)
                              ELSE Inf("uid", e.uid) \o Inf("gid", e.gid)
SizesRow(e) == Inf("size", e.size) \o Inf("archive_offset", e.archive_offset)
StoredRow(e) == Inf("stored_size", e.stored_size) \o U8("file_data_status", "none")
                    \o U8("compression", e.compression)
LegacyRow(e) == Inf("stored_size", e.stored_size) \o Raw("crc", 2)

AheadCrc(e) == Inf("crc_width", e.crc_width) \o Raw("crc", e.crc_width)
AheadStored(e) == IF format = 1 THEN << >>
                  ELSE IF format <= 7 THEN LegacyRow(e)
                  ELSE StoredRow(e) \o AheadCrc(e)
AheadRest(e) == CASE e.type = "f" -> SizesRow(e) \o AheadStored(e)
                  [] e.type = "l" -> Nul("target", e.name)
                  [] OTHER -> << >>
AheadFsaSize(e) == FsaSizeRow(e) \o AheadRest(e)
AheadFsa(e) == FsaRow \o AheadFsaSize(e)
AfterTimes(e) == IF format >= 9 /\ HasFsa(e.flags) THEN AheadFsa(e) ELSE AheadRest(e)
AheadCtime(e) == WrittenTime("ctime", e.ctime, e.unit) \o AfterTimes(e)
AfterMtime(e) == IF format >= 8 THEN AheadCtime(e) ELSE AfterTimes(e)
AheadMtime(e) == WrittenTime("mtime", e.mtime, e.unit) \o AfterMtime(e)
AheadAtime(e) == WrittenTime("atime", e.atime, e.unit) \o AheadMtime(e)
AheadMode(e) == U16("mode", e.mode) \o AheadAtime(e)
AheadOwner(e) == OwnerRow(e) \o AheadMode(e)
AheadFlags(e) == U8("flags", e.flags) \o AheadOwner(e)
AfterName(e) == IF format >= 2 THEN AheadFlags(e) ELSE AheadOwner(e)
AheadName(e) == Nul("name", e.name) \o AfterName(e)

Reading == {"name", "flags", "owner", "mode", "atime", "mtime", "ctime", "fsa", "fsa size",
           "rest", "stored", "crc"}
Ahead(field, e) ==
    CASE field = "name" -> AheadName(e)
      [] field = "flags" -> AheadFlags(e)
      [] field = "owner" -> AheadOwner(e)
      [] field = "mode" -> AheadMode(e)
      [] field = "atime" -> AheadAtime(e)
      [] field = "mtime" -> AheadMtime(e)
      [] field = "ctime" -> AheadCtime(e)
      [] field = "fsa" -> AheadFsa(e)
      [] field = "fsa size" -> AheadFsaSize(e)
      [] field = "rest" -> AheadRest(e)
      [] field = "stored" -> AheadStored(e)
      [] field = "crc" -> AheadCrc(e)
      [] OTHER -> << >>

(***************************************************************************)
(* The entry in progress when the parser has come to a field, and whole.   *)
(***************************************************************************)
owner(n) == IF format <= 7 THEN n % SHORT ELSE n
Typed(e) == [Blank EXCEPT !.type = e.type]
Named(e) == [Typed(e) EXCEPT !.name = e.name.text]
Flagged(e) == IF format >= 2 THEN [Named(e) EXCEPT !.flags = e.flags] ELSE Named(e)
Owned(e) == [Flagged(e) EXCEPT !.uid = owner(e.uid), !.gid = owner(e.gid)]
Moded(e) == [Owned(e) EXCEPT !.mode = e.mode % SHORT]
Accessed(e) == [Moded(e) EXCEPT !.atime = as_i64(e.atime)]
Modified(e) == [Accessed(e) EXCEPT !.mtime = as_i64(e.mtime)]
Changed(e) == IF format >= 8 THEN [Modified(e) EXCEPT !.ctime = as_i64(e.ctime)] ELSE Modified(e)
Sized(e) == [Changed(e) EXCEPT !.size = e.size, !.archive_offset = e.archive_offset]
Stored(e) == [Sized(e) EXCEPT !.stored_size = e.stored_size, !.compression = e.compression]
CompleteFile(e) ==
    CASE format = 1 -> [Sized(e) EXCEPT !.stored_size = e.size, !.compression = GlobalComp]
      [] format \in 2..7 ->
            [Sized(e) EXCEPT !.stored_size = IF e.stored_size = 0 THEN e.size ELSE e.stored_size,
                             !.compression = GlobalComp, !.crc = 2]
      [] OTHER -> IF e.crc_width = 0 THEN Stored(e) ELSE [Stored(e) EXCEPT !.crc = e.crc_width]
Complete(e) == CASE e.type = "f" -> CompleteFile(e)
                 [] e.type = "l" -> [Changed(e) EXCEPT !.target = e.name.text]
                 [] OTHER -> Changed(e)

Expected(field, e) ==
    CASE field = "name" -> Typed(e)
      [] field = "flags" -> Named(e)
      [] field = "owner" -> Flagged(e)
      [] field = "mode" -> Owned(e)
      [] field = "atime" -> Moded(e)
      [] field = "mtime" -> Accessed(e)
      [] field = "ctime" -> Modified(e)
      [] field \in {"fsa", "fsa size", "rest"} -> Changed(e)
      [] field = "stored" -> Sized(e)
      [] OTHER -> Stored(e)

(***************************************************************************)
(* The inductive invariant.                                                *)
(***************************************************************************)
Entries == [i \in DOMAIN written |-> WrittenEntry(written[i])]

\* The number of tokens before each entry.
start == CHOOSE p : LaidOut(p, Entries, Len(written), EntryTokens(written))

current == Len(listed) + 1
entry == written[current]

\* The tokens s stand in the stream from position q on.
Lies(q, s) == \A j \in 1..Len(s) : stream[q + j - 1] = s[j]

\* No token from p to before q is too large.
Clean(p, q) == \A i \in p..(q - 1) : ~Excessive(stream[i])

\* The fields that an entry may have.
Has(e, field) ==
    /\ e.type # "c"
    /\ field = "flags" => format >= 2
    /\ field = "ctime" => format >= 8
    /\ field = "crc" => format >= 8
    /\ field \in {"stored", "crc"} => e.type = "f"

\* The parser's place, the entry in progress and the stream agree.
InEntry(field, e) ==
    /\ Has(e, field)
    /\ start[current] < at
    /\ at + Len(Ahead(field, e)) = start[current + 1] + 1
    /\ Lies(at, Ahead(field, e))
    /\ Clean(start[current] + 1, at)
    /\ inode = Expected(field, e)

Constant ==
    /\ format \in Formats /\ written \in Catalogues
    /\ end \in 0..Len(stream)

ListedSoFar ==
    /\ Len(listed) \in 0..Len(written)
    /\ listed = [i \in 1..Len(listed) |-> Complete(written[i])]
    /\ \A i \in 1..Len(listed) : ~HasExcess(written[i]) /\ written[i].type # "c"

InStep ==
    /\ pc \in {"type"} \cup Reading \cup (Ended \ {"misread"})
    /\ at \in 1..(Len(stream) + 1)
    /\ pc = "type" => at = start[current] + 1
    /\ pc \in Reading => current <= Len(written) /\ InEntry(pc, entry)

Earned ==
    /\ pc = "corrupt" => current <= Len(written) /\ HasExcess(entry)
    /\ pc = "io" => end < Len(stream)
    /\ pc = "closed" => Len(listed) = Len(written)

IInv == Constant /\ ListedSoFar /\ InStep /\ Earned

\* No entry was saved with its extended attributes, whose fields are not read.
NoEa == \A c \in Catalogues : \A i \in DOMAIN c : ~HasEa(c[i].flags)

-----------------------------------------------------------------------------
(***************************************************************************)
(* The rows are sequences of tokens.                                       *)
(***************************************************************************)
LEMMA OneToken ==
    ASSUME NEW t \in Tokens
    PROVE  <<t>> \in Seq(Tokens) /\ Len(<<t>>) = 1 /\ <<t>>[1] = t
OBVIOUS

LEMMA Rows ==
    ASSUME NEW field \in FieldNames
    PROVE  /\ \A v \in Values : U8(field, v) \in Seq(Tokens) /\ Inf(field, v) \in Seq(Tokens)
           /\ \A v \in Nat : U16(field, v) \in Seq(Tokens)
           /\ \A v \in Nat : Raw(field, v) \in Seq(Tokens)
           /\ \A name \in [text : STRING, length : Nat] : Nul(field, name) \in Seq(Tokens)
<1>1. \A kind \in Kinds, v \in Values, w \in Nat : Token(kind, field, v, w) \in Tokens
  BY DEF Token, Tokens
<1>2. \A v \in Nat : v % SHORT \in Nat
  BY FieldConstants
<1>3. ASSUME NEW v \in Values PROVE U8(field, v) \in Seq(Tokens) /\ Inf(field, v) \in Seq(Tokens)
  <2>1. Token("u8", field, v, 1) \in Tokens /\ Token("inf", field, v, 5) \in Tokens
    BY <1>1 DEF Kinds
  <2>2. QED
    BY <2>1, OneToken DEF U8, Inf
<1>4. ASSUME NEW v \in Nat PROVE U16(field, v) \in Seq(Tokens)
  <2>1. v % SHORT \in Values
    BY <1>2 DEF Values
  <2>2. Token("u16", field, v % SHORT, 2) \in Tokens
    BY <2>1, <1>1 DEF Kinds
  <2>3. QED
    BY <2>2, OneToken DEF U16
<1>5. ASSUME NEW v \in Nat PROVE Raw(field, v) \in Seq(Tokens)
  <2>1. Token("raw", field, v, v) \in Tokens
    BY <1>1 DEF Values, Kinds
  <2>2. <<Token("raw", field, v, v)>> \in Seq(Tokens) /\ << >> \in Seq(Tokens)
    BY <2>1, OneToken, EmptySeq
  <2>3. QED
    BY <2>2 DEF Raw
<1>6. ASSUME NEW name \in [text : STRING, length : Nat] PROVE Nul(field, name) \in Seq(Tokens)
  <2>1. Token("nul", field, name.text, name.length) \in Tokens
    BY <1>1 DEF Values, Kinds
  <2>2. QED
    BY <2>1, OneToken DEF Nul
<1>7. QED
  BY <1>3, <1>4, <1>5, <1>6

LEMMA EntryTypes ==
    ASSUME NEW e \in EntryFields
    PROVE  /\ e.type \in Types /\ e.flags \in FlagValues /\ e.unit \in {"s", "n", "u"}
           /\ e.name \in [text : STRING, length : Nat] /\ e.compression \in STRING
           /\ e.name.text \in STRING /\ e.name.length \in Nat
           /\ e.uid \in Nat /\ e.gid \in Nat /\ e.mode \in Nat
           /\ e.atime \in Nat /\ e.mtime \in Nat /\ e.ctime \in Nat
           /\ e.fsa_crc_width \in Nat /\ e.size \in Nat /\ e.archive_offset \in Nat
           /\ e.stored_size \in Nat /\ e.crc_width \in Nat
<1>1. /\ e.type \in Types /\ e.flags \in FlagValues /\ e.unit \in {"s", "n", "u"}
      /\ e.name \in [text : STRING, length : Nat] /\ e.compression \in STRING
      /\ e.uid \in Nat /\ e.gid \in Nat /\ e.mode \in Nat
      /\ e.atime \in Nat /\ e.mtime \in Nat /\ e.ctime \in Nat
      /\ e.fsa_crc_width \in Nat /\ e.size \in Nat /\ e.archive_offset \in Nat
      /\ e.stored_size \in Nat /\ e.crc_width \in Nat
  BY DEF EntryFields
<1>2. e.name.text \in STRING /\ e.name.length \in Nat
  BY <1>1
<1>3. QED
  BY <1>1, <1>2

LEMMA Concat ==
    ASSUME NEW s \in Seq(Tokens), NEW t \in Seq(Tokens)
    PROVE  s \o t \in Seq(Tokens)
BY ConcatProperties

LEMMA TimeRow ==
    ASSUME NEW field \in FieldNames, NEW seconds \in Nat, NEW unit \in {"s", "n", "u"},
           format \in Nat
    PROVE  /\ WrittenTime(field, seconds, unit) \in Seq(Tokens)
           /\ format < 9 => WrittenTime(field, seconds, unit) = Inf(field, seconds)
           /\ format >= 9 =>
                 WrittenTime(field, seconds, unit) =
                     IF unit = "s" THEN U8("unit", unit) \o Inf(field, seconds)
                     ELSE U8("unit", unit) \o Inf(field, seconds) \o Inf("subsecond", 0)
<1>0. unit \in Values /\ seconds \in Values /\ 0 \in Values /\ "unit" \in FieldNames
      /\ "subsecond" \in FieldNames
  BY DEF Values, FieldNames
<1>1. U8("unit", unit) \in Seq(Tokens) /\ Inf(field, seconds) \in Seq(Tokens)
      /\ Inf("subsecond", 0) \in Seq(Tokens) /\ << >> \in Seq(Tokens)
  BY <1>0, Rows, EmptySeq
<1>2. U8("unit", unit) \o Inf(field, seconds) \in Seq(Tokens)
      /\ << >> \o Inf(field, seconds) = Inf(field, seconds)
      /\ Inf(field, seconds) \o << >> = Inf(field, seconds)
  BY <1>1, Concat, ConcatEmptySeq
<1>3. U8("unit", unit) \o Inf(field, seconds) \o << >> = U8("unit", unit) \o Inf(field, seconds)
      /\ U8("unit", unit) \o Inf(field, seconds) \o Inf("subsecond", 0) \in Seq(Tokens)
  BY <1>1, <1>2, Concat, ConcatEmptySeq
<1>4. CASE format < 9
  <2>1. WrittenTime(field, seconds, unit) = << >> \o Inf(field, seconds) \o << >>
    <3>1. ~(format >= 9)
      BY <1>4
    <3>2. When(format >= 9, U8("unit", unit)) = << >>
          /\ When(format >= 9 /\ unit # "s", Inf("subsecond", 0)) = << >>
      BY <3>1 DEF When
    <3>3. QED
      BY <3>2 DEF WrittenTime
  <2>2. QED
    BY <2>1, <1>1, <1>2, <1>4
<1>5. CASE format >= 9 /\ unit = "s"
  <2>1. WrittenTime(field, seconds, unit) = U8("unit", unit) \o Inf(field, seconds) \o << >>
    BY <1>5 DEF WrittenTime, When
  <2>2. QED
    BY <2>1, <1>2, <1>3, <1>5
<1>6. CASE format >= 9 /\ unit # "s"
  <2>1. WrittenTime(field, seconds, unit)
            = U8("unit", unit) \o Inf(field, seconds) \o Inf("subsecond", 0)
    BY <1>6 DEF WrittenTime, When
  <2>2. QED
    BY <2>1, <1>3, <1>6
<1>7. format < 9 \/ format >= 9
  OBVIOUS
<1>8. QED
  BY <1>4, <1>5, <1>6, <1>7

LEMMA FixedValues ==
    /\ 0 \in Values /\ "none" \in Values /\ "z" \in Values
    /\ \A n \in Nat : n \in Values
    /\ \A s \in STRING \cup Types \cup FlagValues \cup {"s", "n", "u"} : s \in Values
BY DEF Values

LEMMA RowTypes ==
    ASSUME NEW e \in EntryFields, format \in Nat
    PROVE  /\ FsaRow \in Seq(Tokens) /\ FsaSizeRow(e) \in Seq(Tokens)
           /\ OwnerRow(e) \in Seq(Tokens) /\ SizesRow(e) \in Seq(Tokens)
           /\ StoredRow(e) \in Seq(Tokens) /\ LegacyRow(e) \in Seq(Tokens)
           /\ AheadCrc(e) \in Seq(Tokens) /\ U8("type", e.type) \in Seq(Tokens)
           /\ Nul("name", e.name) \in Seq(Tokens) /\ Nul("target", e.name) \in Seq(Tokens)
           /\ U8("flags", e.flags) \in Seq(Tokens) /\ U16("mode", e.mode) \in Seq(Tokens)
           /\ WrittenTime("atime", e.atime, e.unit) \in Seq(Tokens)
           /\ WrittenTime("mtime", e.mtime, e.unit) \in Seq(Tokens)
           /\ WrittenTime("ctime", e.ctime, e.unit) \in Seq(Tokens)
           /\ Raw("ea", 7) \in Seq(Tokens) /\ Raw("device", 4) \in Seq(Tokens)
<1>1. {"type", "name", "target", "flags", "mode", "uid", "gid", "size", "archive_offset",
       "stored_size", "file_data_status", "compression", "crc_width", "crc", "fsa_families",
       "fsa_size", "fsa_offset", "fsa_crc_width", "fsa_crc", "ea", "device", "atime", "mtime",
       "ctime"} \subseteq FieldNames
  BY DEF FieldNames
<1>2. /\ e.type \in Values /\ e.flags \in Values /\ e.compression \in Values
      /\ e.uid \in Values /\ e.gid \in Values /\ e.fsa_crc_width \in Values
      /\ e.size \in Values /\ e.archive_offset \in Values /\ e.stored_size \in Values
      /\ e.crc_width \in Values
  BY EntryTypes, FixedValues
<1>3. U8("type", e.type) \in Seq(Tokens) /\ U8("flags", e.flags) \in Seq(Tokens)
      /\ Nul("name", e.name) \in Seq(Tokens) /\ Nul("target", e.name) \in Seq(Tokens)
      /\ U16("mode", e.mode) \in Seq(Tokens)
  BY <1>1, <1>2, EntryTypes, Rows
<1>4. /\ WrittenTime("atime", e.atime, e.unit) \in Seq(Tokens)
      /\ WrittenTime("mtime", e.mtime, e.unit) \in Seq(Tokens)
      /\ WrittenTime("ctime", e.ctime, e.unit) \in Seq(Tokens)
  BY <1>1, EntryTypes, TimeRow
<1>5. FsaRow \in Seq(Tokens)
  <2>1. Inf("fsa_families", 0) \in Seq(Tokens) /\ Inf("fsa_size", 0) \in Seq(Tokens)
        /\ Inf("fsa_offset", 0) \in Seq(Tokens)
    BY <1>1, FixedValues, Rows
  <2>2. QED
    BY <2>1, Concat DEF FsaRow
<1>6. FsaSizeRow(e) \in Seq(Tokens)
  <2>1. Inf("fsa_crc_width", e.fsa_crc_width) \in Seq(Tokens)
        /\ Raw("fsa_crc", e.fsa_crc_width) \in Seq(Tokens)
    BY <1>1, <1>2, EntryTypes, Rows
  <2>2. QED
    BY <2>1, Concat DEF FsaSizeRow
<1>7. OwnerRow(e) \in Seq(Tokens)
  <2>1. U16("uid", e.uid) \in Seq(Tokens) /\ U16("gid", e.gid) \in Seq(Tokens)
        /\ Inf("uid", e.uid) \in Seq(Tokens) /\ Inf("gid", e.gid) \in Seq(Tokens)
    BY <1>1, <1>2, EntryTypes, Rows
  <2>2. QED
    BY <2>1, Concat DEF OwnerRow
<1>8. SizesRow(e) \in Seq(Tokens)
  <2>1. Inf("size", e.size) \in Seq(Tokens) /\ Inf("archive_offset", e.archive_offset) \in Seq(Tokens)
    BY <1>1, <1>2, Rows
  <2>2. QED
    BY <2>1, Concat DEF SizesRow
<1>9. StoredRow(e) \in Seq(Tokens) /\ LegacyRow(e) \in Seq(Tokens)
  <2>1. Inf("stored_size", e.stored_size) \in Seq(Tokens) /\ Raw("crc", 2) \in Seq(Tokens)
        /\ U8("file_data_status", "none") \in Seq(Tokens)
        /\ U8("compression", e.compression) \in Seq(Tokens)
    BY <1>1, <1>2, FixedValues, Rows
  <2>2. QED
    BY <2>1, Concat DEF StoredRow, LegacyRow
<1>10. AheadCrc(e) \in Seq(Tokens)
  <2>1. Inf("crc_width", e.crc_width) \in Seq(Tokens) /\ Raw("crc", e.crc_width) \in Seq(Tokens)
    BY <1>1, <1>2, EntryTypes, Rows
  <2>2. QED
    BY <2>1, Concat DEF AheadCrc
<1>11. Raw("ea", 7) \in Seq(Tokens) /\ Raw("device", 4) \in Seq(Tokens)
  BY <1>1, Rows
<1>12. QED
  BY <1>3, <1>4, <1>5, <1>6, <1>7, <1>8, <1>9, <1>10, <1>11

LEMMA AheadTypes ==
    ASSUME NEW e \in EntryFields, format \in Nat
    PROVE  /\ AheadStored(e) \in Seq(Tokens) /\ AheadRest(e) \in Seq(Tokens)
           /\ AheadFsaSize(e) \in Seq(Tokens) /\ AheadFsa(e) \in Seq(Tokens)
           /\ AfterTimes(e) \in Seq(Tokens) /\ AheadCtime(e) \in Seq(Tokens)
           /\ AfterMtime(e) \in Seq(Tokens) /\ AheadMtime(e) \in Seq(Tokens)
           /\ AheadAtime(e) \in Seq(Tokens) /\ AheadMode(e) \in Seq(Tokens)
           /\ AheadOwner(e) \in Seq(Tokens) /\ AheadFlags(e) \in Seq(Tokens)
           /\ AfterName(e) \in Seq(Tokens) /\ AheadName(e) \in Seq(Tokens)
<1>1. AheadStored(e) \in Seq(Tokens)
  BY RowTypes, Concat, EmptySeq DEF AheadStored
<1>2. AheadRest(e) \in Seq(Tokens)
  BY <1>1, RowTypes, Concat, EmptySeq DEF AheadRest
<1>3. AheadFsaSize(e) \in Seq(Tokens)
  BY <1>2, RowTypes, Concat DEF AheadFsaSize
<1>4. AheadFsa(e) \in Seq(Tokens)
  BY <1>3, RowTypes, Concat DEF AheadFsa
<1>5. AfterTimes(e) \in Seq(Tokens)
  BY <1>2, <1>4 DEF AfterTimes
<1>6. AheadCtime(e) \in Seq(Tokens)
  BY <1>5, RowTypes, Concat DEF AheadCtime
<1>7. AfterMtime(e) \in Seq(Tokens)
  BY <1>5, <1>6 DEF AfterMtime
<1>8. AheadMtime(e) \in Seq(Tokens)
  BY <1>7, RowTypes, Concat DEF AheadMtime
<1>9. AheadAtime(e) \in Seq(Tokens)
  BY <1>8, RowTypes, Concat DEF AheadAtime
<1>10. AheadMode(e) \in Seq(Tokens)
  BY <1>9, RowTypes, Concat DEF AheadMode
<1>11. AheadOwner(e) \in Seq(Tokens)
  BY <1>10, RowTypes, Concat DEF AheadOwner
<1>12. AheadFlags(e) \in Seq(Tokens)
  BY <1>11, RowTypes, Concat DEF AheadFlags
<1>13. AfterName(e) \in Seq(Tokens)
  BY <1>11, <1>12 DEF AfterName
<1>14. AheadName(e) \in Seq(Tokens)
  BY <1>13, RowTypes, Concat DEF AheadName
<1>15. QED
  BY <1>1, <1>2, <1>3, <1>4, <1>5, <1>6, <1>7, <1>8, <1>9, <1>10, <1>11, <1>12, <1>13, <1>14

LEMMA Associates ==
    ASSUME NEW s \in Seq(Tokens), NEW t \in Seq(Tokens), NEW u \in Seq(Tokens)
    PROVE  (s \o t) \o u = s \o (t \o u)
BY ConcatAssociative

LEMMA Empty ==
    ASSUME NEW s \in Seq(Tokens)
    PROVE  s \o << >> = s /\ << >> \o s = s
BY ConcatEmptySeq

\* The inode of an entry and the fields after it are what is ahead of its name.
LEMMA InodeAhead ==
    ASSUME NEW e \in EntryFields, format \in Nat, ~HasEa(e.flags)
    PROVE  WrittenInode(e) \in Seq(Tokens) /\ WrittenInode(e) \o AheadRest(e) = AfterName(e)
<1> DEFINE a == When(format >= 2, U8("flags", e.flags))
           b == OwnerRow(e)
           c == U16("mode", e.mode)
           d == WrittenTime("atime", e.atime, e.unit)
           f == WrittenTime("mtime", e.mtime, e.unit)
           g == When(format >= 8, WrittenTime("ctime", e.ctime, e.unit))
           h == When(format >= 9 /\ HasFsa(e.flags),
                     Inf("fsa_families", 0) \o Inf("fsa_size", 0) \o Inf("fsa_offset", 0)
                        \o Inf("fsa_crc_width", e.fsa_crc_width)
                        \o Raw("fsa_crc", e.fsa_crc_width))
           r == AheadRest(e)
<1>1. a \in Seq(Tokens) /\ b \in Seq(Tokens) /\ c \in Seq(Tokens) /\ d \in Seq(Tokens)
      /\ f \in Seq(Tokens) /\ g \in Seq(Tokens) /\ r \in Seq(Tokens)
  BY RowTypes, AheadTypes, EmptySeq DEF When
<1>2. h = When(format >= 9 /\ HasFsa(e.flags), FsaRow \o FsaSizeRow(e)) /\ h \in Seq(Tokens)
  <2>1. /\ FsaRow \in Seq(Tokens) /\ FsaSizeRow(e) \in Seq(Tokens)
        /\ Inf("fsa_crc_width", e.fsa_crc_width) \in Seq(Tokens)
        /\ Raw("fsa_crc", e.fsa_crc_width) \in Seq(Tokens)
    <3>1. "fsa_crc_width" \in FieldNames /\ "fsa_crc" \in FieldNames
      BY DEF FieldNames
    <3>2. QED
      BY <3>1, RowTypes, Rows, EntryTypes, FixedValues
  <2>2. FsaRow \o FsaSizeRow(e) \in Seq(Tokens)
        /\ FsaRow \o FsaSizeRow(e)
             = (FsaRow \o Inf("fsa_crc_width", e.fsa_crc_width)) \o Raw("fsa_crc", e.fsa_crc_width)
    BY <2>1, Concat, Associates DEF FsaSizeRow
  <2>3. QED
    BY <2>2, EmptySeq DEF When, FsaRow
<1>3. WrittenInode(e) = a \o b \o c \o d \o f \o g \o << >> \o h
  BY DEF WrittenInode, When, OwnerRow
<1> DEFINE ab == a \o b
           abc == ab \o c
           abcd == abc \o d
           abcdf == abcd \o f
           abcdfg == abcdf \o g
<1>4. WrittenInode(e) = abcdfg \o << >> \o h
  BY <1>3
<1> HIDE DEF a, b, c, d, f, g, h, r
<1>5. ab \in Seq(Tokens)
  BY <1>1, Concat
<1> HIDE DEF ab
<1>6. abc \in Seq(Tokens)
  BY <1>1, <1>5, Concat
<1> HIDE DEF abc
<1>7. abcd \in Seq(Tokens)
  BY <1>1, <1>6, Concat
<1> HIDE DEF abcd
<1>8. abcdf \in Seq(Tokens)
  BY <1>1, <1>7, Concat
<1> HIDE DEF abcdf
<1>9. abcdfg \in Seq(Tokens)
  BY <1>1, <1>8, Concat
<1> HIDE DEF abcdfg
<1>10. WrittenInode(e) = abcdfg \o h /\ WrittenInode(e) \in Seq(Tokens)
  BY <1>4, <1>9, <1>2, Empty, Concat
<1>11. WrittenInode(e) \o r = abcdfg \o AfterTimes(e)
  <2>1. CASE format >= 9 /\ HasFsa(e.flags)
    <3>1. h = FsaRow \o FsaSizeRow(e)
      BY <2>1, <1>2 DEF When
    <3>2. FsaRow \in Seq(Tokens) /\ FsaSizeRow(e) \in Seq(Tokens) /\ r \in Seq(Tokens)
      BY <1>1, RowTypes
    <3>3. h \o r = FsaRow \o (FsaSizeRow(e) \o r)
      BY <3>1, <3>2, Associates
    <3>4. h \o r = AfterTimes(e)
      BY <3>3, <2>1 DEF AfterTimes, AheadFsa, AheadFsaSize, r
    <3>5. abcdfg \in Seq(Tokens) /\ h \in Seq(Tokens) /\ r \in Seq(Tokens)
      BY <1>1, <1>2, <1>9
    <3>6. (abcdfg \o h) \o r = abcdfg \o (h \o r)
      BY <3>5, Associates
    <3>7. QED
      BY <3>4, <3>6, <1>10
  <2>2. CASE ~(format >= 9 /\ HasFsa(e.flags))
    <3>1. h = << >> /\ r = AfterTimes(e)
      BY <2>2, <1>2 DEF When, AfterTimes, r
    <3>2. QED
      BY <3>1, <1>9, <1>10, Empty
  <2>3. QED
    BY <2>1, <2>2
<1>12. abcdfg \o AfterTimes(e) = abcdf \o AfterMtime(e)
  <2>1. abcdf \in Seq(Tokens) /\ g \in Seq(Tokens) /\ AfterTimes(e) \in Seq(Tokens)
    BY <1>1, <1>8, AheadTypes
  <2>2. abcdfg \o AfterTimes(e) = abcdf \o (g \o AfterTimes(e))
    BY <2>1, Associates DEF abcdfg
  <2>3. g \o AfterTimes(e) = AfterMtime(e)
    BY <2>1, Empty DEF g, When, AfterMtime, AheadCtime
  <2>4. QED
    BY <2>2, <2>3
<1>13. abcdf \o AfterMtime(e) = abcd \o AheadMtime(e)
  <2>1. abcd \in Seq(Tokens) /\ f \in Seq(Tokens) /\ AfterMtime(e) \in Seq(Tokens)
    BY <1>1, <1>7, AheadTypes
  <2>2. abcdf \o AfterMtime(e) = abcd \o (f \o AfterMtime(e))
    BY <2>1, Associates DEF abcdf
  <2>3. QED
    BY <2>2 DEF AheadMtime, f
<1>14. abcd \o AheadMtime(e) = abc \o AheadAtime(e)
  <2>1. abc \in Seq(Tokens) /\ d \in Seq(Tokens) /\ AheadMtime(e) \in Seq(Tokens)
    BY <1>1, <1>6, AheadTypes
  <2>2. abcd \o AheadMtime(e) = abc \o (d \o AheadMtime(e))
    BY <2>1, Associates DEF abcd
  <2>3. QED
    BY <2>2 DEF AheadAtime, d
<1>15. abc \o AheadAtime(e) = ab \o AheadMode(e)
  <2>1. ab \in Seq(Tokens) /\ c \in Seq(Tokens) /\ AheadAtime(e) \in Seq(Tokens)
    BY <1>1, <1>5, AheadTypes
  <2>2. abc \o AheadAtime(e) = ab \o (c \o AheadAtime(e))
    BY <2>1, Associates DEF abc
  <2>3. QED
    BY <2>2 DEF AheadMode, c
<1>16. ab \o AheadMode(e) = a \o AheadOwner(e)
  <2>1. a \in Seq(Tokens) /\ b \in Seq(Tokens) /\ AheadMode(e) \in Seq(Tokens)
    BY <1>1, AheadTypes
  <2>2. ab \o AheadMode(e) = a \o (b \o AheadMode(e))
    BY <2>1, Associates DEF ab
  <2>3. QED
    BY <2>2 DEF AheadOwner, b
<1>17. a \o AheadOwner(e) = AfterName(e)
  BY AheadTypes, Empty DEF a, When, AfterName, AheadFlags
<1>18. QED
  BY <1>10, <1>11, <1>12, <1>13, <1>14, <1>15, <1>16, <1>17 DEF r

LEMMA FileAhead ==
    ASSUME NEW e \in EntryFields, format \in Nat \ {0}
    PROVE  WrittenFile(e) = SizesRow(e) \o AheadStored(e)
<1> DEFINE a == SizesRow(e)
           b == Inf("stored_size", e.stored_size)
           c == U8("file_data_status", "none")
           d == U8("compression", e.compression)
           f == Inf("crc_width", e.crc_width)
           g == Raw("crc", e.crc_width)
           h == Raw("crc", 2)
<1>1. WrittenFile(e) = a \o When(format >= 2, b) \o When(format >= 8, c \o d \o f \o g)
                          \o When(format \in 2..7, h)
  BY DEF WrittenFile, SizesRow
<1>2. /\ AheadCrc(e) = f \o g /\ StoredRow(e) = b \o c \o d /\ LegacyRow(e) = b \o h
  BY DEF AheadCrc, StoredRow, LegacyRow
<1>3. a \in Seq(Tokens) /\ b \in Seq(Tokens) /\ c \in Seq(Tokens) /\ d \in Seq(Tokens)
      /\ f \in Seq(Tokens) /\ g \in Seq(Tokens) /\ h \in Seq(Tokens)
  <2>1. {"stored_size", "file_data_status", "compression", "crc_width", "crc"} \subseteq FieldNames
    BY DEF FieldNames
  <2>2. QED
    BY <2>1, RowTypes, Rows, EntryTypes, FixedValues
<1> HIDE DEF a, b, c, d, f, g, h
<1>4. CASE format = 1
  <2>1. WrittenFile(e) = a \o << >> \o << >> \o << >>
    BY <1>1, <1>4 DEF When
  <2>2. QED
    BY <2>1, <1>3, <1>4, Empty DEF AheadStored, a
<1>5. CASE format \in 2..7
  <2>1. WrittenFile(e) = a \o b \o << >> \o h
    <3>1. format >= 2 /\ ~(format >= 8)
      BY <1>5
    <3>2. QED
      BY <1>1, <1>5, <3>1 DEF When
  <2>2. a \o b \in Seq(Tokens)
    BY <1>3, Concat
  <2>3. WrittenFile(e) = (a \o b) \o h
    BY <2>1, <2>2, Empty
  <2>4. WrittenFile(e) = a \o (b \o h)
    <3>1. a \in Seq(Tokens) /\ b \in Seq(Tokens) /\ h \in Seq(Tokens)
      BY <1>3
    <3>2. (a \o b) \o h = a \o (b \o h)
      BY <3>1, Associates, Zenon
    <3>3. QED
      BY <3>2, <2>3, Zenon
  <2>5. QED
    BY <2>4, <1>2, <1>5 DEF AheadStored, a
<1>6. CASE format >= 8
  <2>1. WrittenFile(e) = a \o b \o (c \o d \o f \o g) \o << >>
    <3>1. format >= 2 /\ ~(format \in 2..7)
      BY <1>6
    <3>2. QED
      BY <1>1, <1>6, <3>1 DEF When
  <2> DEFINE bcd == b \o c \o d
             cd == c \o d
             fg == f \o g
             cdfg == cd \o fg
  <2>2. cd \in Seq(Tokens) /\ fg \in Seq(Tokens) /\ b \o c \in Seq(Tokens)
    BY <1>3, Concat
  <2>3. (cd \o f) \o g = cd \o fg
    <3>1. cd \in Seq(Tokens) /\ f \in Seq(Tokens) /\ g \in Seq(Tokens)
      BY <1>3, <2>2
    <3> HIDE DEF cd
    <3>2. QED
      BY <3>1, Associates
  <2>4. (b \o c) \o d = b \o cd
    <3>1. b \in Seq(Tokens) /\ c \in Seq(Tokens) /\ d \in Seq(Tokens)
      BY <1>3
    <3>2. QED
      BY <3>1, Associates
  <2> HIDE DEF cd, fg
  <2>5. cdfg \in Seq(Tokens) /\ bcd \in Seq(Tokens)
    BY <2>2, <2>4, <1>3, Concat
  <2>6. (b \o cd) \o fg = b \o (cd \o fg)
    <3>1. b \in Seq(Tokens) /\ cd \in Seq(Tokens) /\ fg \in Seq(Tokens)
      BY <1>3, <2>2
    <3>2. QED
      BY <3>1, Associates
  <2>7. b \o cdfg = bcd \o fg
    BY <2>6, <2>4
  <2> HIDE DEF cdfg, bcd
  <2>8. WrittenFile(e) = (a \o b) \o cdfg \o << >>
    BY <2>1, <2>3 DEF cd, cdfg
  <2>9. a \o b \in Seq(Tokens)
    BY <1>3, Concat
  <2>10. (a \o b) \o cdfg \in Seq(Tokens)
    BY <2>9, <2>5, Concat
  <2>11. WrittenFile(e) = (a \o b) \o cdfg
    BY <2>10, <2>8, Empty
  <2>12. WrittenFile(e) = a \o (b \o cdfg)
    <3>1. a \in Seq(Tokens) /\ b \in Seq(Tokens) /\ cdfg \in Seq(Tokens)
      BY <1>3, <2>5
    <3>2. (a \o b) \o cdfg = a \o (b \o cdfg)
      BY <3>1, Associates
    <3>3. QED
      BY <2>11, <3>2
  <2>13. AheadStored(e) = bcd \o fg
    BY <1>6, <1>2 DEF AheadStored, bcd, fg
  <2>14. QED
    BY <2>12, <2>13, <2>7 DEF a
<1>7. format = 1 \/ format \in 2..7 \/ format >= 8
  OBVIOUS
<1>8. QED
  BY <1>4, <1>5, <1>6, <1>7

\* An entry that the parser reads is its type and what is ahead of its name.
LEMMA EntryAhead ==
    ASSUME NEW e \in EntryFields, format \in Nat \ {0}, ~HasEa(e.flags), e.type # "c"
    PROVE  WrittenEntry(e) = U8("type", e.type) \o AheadName(e)
<1> DEFINE n == Nul("name", e.name)
           w == WrittenInode(e)
           t == U8("type", e.type)
<1>1. n \in Seq(Tokens) /\ w \in Seq(Tokens) /\ AheadRest(e) \in Seq(Tokens)
  BY RowTypes, AheadTypes, InodeAhead
<1>2. w \o AheadRest(e) = AfterName(e)
  BY InodeAhead
<1>3. (n \o w) \o AheadRest(e) = AheadName(e)
  <2> HIDE DEF n, w
  <2>1. (n \o w) \o AheadRest(e) = n \o (w \o AheadRest(e))
    BY <1>1, Associates
  <2>2. QED
    BY <2>1, <1>2 DEF AheadName, n
<1>4. CASE e.type = "f"
  BY <1>4, <1>3, FileAhead DEF WrittenEntry, AheadRest
<1>5. CASE e.type = "l"
  BY <1>5, <1>3 DEF WrittenEntry, AheadRest
<1>6. CASE e.type \notin {"f", "l"}
  <2>1. AheadRest(e) = << >>
    BY <1>6 DEF AheadRest
  <2>2. n \o w \in Seq(Tokens)
    BY <1>1, Concat
  <2>3. n \o w = AheadName(e)
    BY <2>1, <2>2, <1>3, Empty
  <2>4. QED
    BY <2>3, <1>6 DEF WrittenEntry
<1>7. QED
  BY <1>4, <1>5, <1>6

LEMMA EntryShape ==
    ASSUME NEW e \in EntryFields, format \in Nat \ {0}, ~HasEa(e.flags)
    PROVE  /\ WrittenEntry(e) \in Seq(Tokens) /\ Len(WrittenEntry(e)) \in Nat \ {0}
           /\ WrittenEntry(e)[1] = Token("u8", "type", e.type, 1)
<1>1. Nul("name", e.name) \in Seq(Tokens) /\ WrittenInode(e) \in Seq(Tokens)
      /\ Raw("device", 4) \in Seq(Tokens) /\ Nul("target", e.name) \in Seq(Tokens)
  BY RowTypes, InodeAhead
<1>2. WrittenFile(e) \in Seq(Tokens)
  <2>1. SizesRow(e) \in Seq(Tokens) /\ AheadStored(e) \in Seq(Tokens)
    BY RowTypes, AheadTypes
  <2>2. QED
    BY <2>1, FileAhead, Concat
<1>3. Nul("name", e.name) \o WrittenInode(e) \in Seq(Tokens)
  BY <1>1, Concat
<1>4. PICK s \in Seq(Tokens) : WrittenEntry(e) = U8("type", e.type) \o s
  BY <1>1, <1>2, <1>3, Concat DEF WrittenEntry
<1>5. U8("type", e.type) \in Seq(Tokens) /\ Len(U8("type", e.type)) = 1
      /\ U8("type", e.type)[1] = Token("u8", "type", e.type, 1)
  BY RowTypes DEF U8
<1>6. QED
  BY <1>4, <1>5, ConcatProperties, LenProperties

\* What a catalogue is.
LEMMA WrittenTypes ==
    ASSUME NoEa, format \in Formats, written \in Catalogues
    PROVE  /\ format \in Nat \ {0}
           /\ written \in Seq(EntryFields) /\ Len(written) \in Nat
           /\ DOMAIN written = 1..Len(written)
           /\ \A k \in 1..Len(written) :
                 /\ written[k] \in EntryFields /\ ~HasEa(written[k].flags)
                 /\ WrittenEntry(written[k]) \in Seq(Tokens)
<1>1. format \in Nat \ {0} /\ written \in Seq(EntryFields)
  BY FieldConstants
<1>2. Len(written) \in Nat /\ DOMAIN written = 1..Len(written)
      /\ \A k \in 1..Len(written) : written[k] \in EntryFields
  BY <1>1, LenProperties, ElementOfSeq
<1>3. \A k \in 1..Len(written) : ~HasEa(written[k].flags)
  BY <1>2 DEF NoEa
<1>4. QED
  BY <1>1, <1>2, <1>3, EntryShape

LEMMA EntriesTypes ==
    ASSUME NoEa, format \in Formats, written \in Catalogues
    PROVE  /\ Entries \in Seq(Seq(Tokens)) /\ Len(Entries) = Len(written)
           /\ \A k \in 1..Len(written) : Entries[k] = WrittenEntry(written[k])
<1> DEFINE n == Len(written)
<1>1. n \in Nat /\ DOMAIN written = 1..n
      /\ \A k \in 1..n : WrittenEntry(written[k]) \in Seq(Tokens)
  BY WrittenTypes
<1>2. Entries = [k \in 1..n |-> WrittenEntry(written[k])]
  BY <1>1 DEF Entries
<1> HIDE DEF n
<1>3. Entries \in [1..n -> Seq(Tokens)] /\ DOMAIN Entries = 1..n
      /\ \A k \in 1..n : Entries[k] = WrittenEntry(written[k])
  BY <1>1, <1>2
<1>4. Entries \in Seq(Seq(Tokens)) /\ Len(Entries) = n
  BY <1>1, <1>3
<1>5. QED
  BY <1>3, <1>4 DEF n

(***************************************************************************)
(* The stream is the entries at their starts, and the closing token.       *)
(***************************************************************************)
LEMMA Layout ==
    ASSUME NoEa, format \in Formats, written \in Catalogues
    PROVE  /\ Len(stream) \in Nat
           /\ start \in [1..(Len(written) + 1) -> Nat] /\ start[1] = 0
           /\ Len(stream) = start[Len(written) + 1] + 1
           /\ stream[start[Len(written) + 1] + 1] = Token("u8", "type", "z", 1)
           /\ \A k \in 1..(Len(written) + 1) : start[k] + 1 <= Len(stream)
           /\ \A k \in 1..Len(written) :
                 /\ start[k + 1] = start[k] + Len(WrittenEntry(written[k]))
                 /\ Lies(start[k] + 1, WrittenEntry(written[k]))
<1> DEFINE n == Len(written)
           whole == EntryTokens(written)
           z == Token("u8", "type", "z", 1)
<1>1. n \in Nat /\ Entries \in Seq(Seq(Tokens)) /\ Len(Entries) = n
      /\ \A k \in 1..n : Entries[k] = WrittenEntry(written[k])
  BY WrittenTypes, EntriesTypes
<1>2. whole = FlattenSeq(Entries)
  BY DEF EntryTokens, Entries
<1>3. whole \in Seq(Tokens) /\ LaidOut(start, Entries, n, whole)
  <2>1. FlattenSeq(Entries) \in Seq(Tokens) /\ \E p : LaidOut(p, Entries, n, FlattenSeq(Entries))
    BY <1>1, FlattenedParts
  <2>2. \E p : LaidOut(p, Entries, n, whole)
    BY <2>1, <1>2
  <2>3. QED
    BY <2>1, <1>2, <2>2 DEF start
<1>4. Len(whole) \in Nat
  BY <1>3, LenProperties
<1>5. <<z>> \in Seq(Tokens) /\ Len(<<z>>) = 1 /\ <<z>>[1] = z
  <2>1. z \in Tokens
    BY DEF Token, Tokens, Kinds, FieldNames, Values
  <2>2. QED
    BY <2>1, OneToken
<1>6. stream = whole \o <<z>>
  BY DEF stream, U8
<1> HIDE DEF n, whole, z
<1>7. /\ Len(stream) = Len(whole) + 1
      /\ \A i \in 1..(Len(whole) + 1) : stream[i] = IF i <= Len(whole) THEN whole[i] ELSE <<z>>[i - Len(whole)]
  BY <1>3, <1>5, <1>6, ConcatProperties
<1>8. stream[Len(whole) + 1] = z
  BY <1>4, <1>5, <1>7
<1>9. /\ start \in [1..(n + 1) -> Nat] /\ start[1] = 0 /\ start[n + 1] = Len(whole)
      /\ \A k \in 1..(n + 1) : start[k] <= Len(whole)
      /\ \A k \in 1..n : /\ start[k + 1] = start[k] + Len(Entries[k])
                         /\ \A j \in 1..Len(Entries[k]) : whole[start[k] + j] = Entries[k][j]
  BY <1>3 DEF LaidOut
<1>10. ASSUME NEW k \in 1..n
       PROVE  /\ start[k + 1] = start[k] + Len(WrittenEntry(written[k]))
              /\ Lies(start[k] + 1, WrittenEntry(written[k]))
  <2>1. /\ start[k + 1] = start[k] + Len(Entries[k]) /\ start[k] \in Nat
        /\ start[k + 1] <= Len(whole) /\ Len(Entries[k]) \in Nat
    <3>1. Entries[k] \in Seq(Tokens) /\ k \in 1..(n + 1) /\ k + 1 \in 1..(n + 1)
      BY <1>1, ElementOfSeq
    <3>2. QED
      BY <3>1, <1>9, LenProperties
  <2>2. ASSUME NEW j \in 1..Len(Entries[k]) PROVE stream[start[k] + 1 + j - 1] = Entries[k][j]
    <3>1. start[k] + j \in 1..(Len(whole) + 1) /\ start[k] + j <= Len(whole)
          /\ start[k] + 1 + j - 1 = start[k] + j
      BY <2>1, <1>4
    <3>2. stream[start[k] + j] = whole[start[k] + j]
      BY <3>1, <1>7
    <3>3. QED
      BY <3>1, <3>2, <1>9
  <2>3. QED
    BY <2>1, <2>2, <1>1 DEF Lies
<1>11. \A k \in 1..(n + 1) : start[k] + 1 <= Len(stream)
  BY <1>4, <1>7, <1>9
<1>12. Len(stream) \in Nat /\ Len(stream) = start[n + 1] + 1 /\ stream[start[n + 1] + 1] = z
  <2>1. start[n + 1] = Len(whole)
    BY <1>9
  <2>2. QED
    BY <2>1, <1>4, <1>7, <1>8
<1>13. start \in [1..(n + 1) -> Nat] /\ start[1] = 0
  BY <1>9
<1>14. QED
  BY <1>10, <1>11, <1>12, <1>13, Zenon DEF n, z

-----------------------------------------------------------------------------
(***************************************************************************)
(* A call of the parser on the row it expects.                             *)
(***************************************************************************)

\* The tokens of row are of the given kinds.
RowOf(kinds, row) ==
    /\ row \in Seq(Tokens) /\ Len(kinds) = Len(row) /\ DOMAIN kinds = 1..Len(row)
    /\ \A j \in 1..Len(row) : /\ row[j].kind = kinds[j]
                              /\ kinds[j] = "inf" => row[j].value \in Nat

\* None of them is bounded by more than what it is read into.
Plain(row) == \A j \in 1..Len(row) : row[j].field \notin {"crc_width", "fsa_crc_width"}

LEMMA LiesSplit ==
    ASSUME NEW q \in Nat, NEW s \in Seq(Tokens), NEW t \in Seq(Tokens), Lies(q, s \o t)
    PROVE  /\ Len(s \o t) = Len(s) + Len(t) /\ Len(s) \in Nat /\ Len(t) \in Nat
           /\ Lies(q, s) /\ Lies(q + Len(s), t)
<1> DEFINE a == Len(s)
           b == Len(t)
<1>1. a \in Nat /\ b \in Nat /\ Len(s \o t) = a + b
  BY ConcatProperties, LenProperties
<1>2. \A j \in 1..(a + b) : (s \o t)[j] = IF j <= a THEN s[j] ELSE t[j - a]
  BY ConcatProperties
<1>3. \A j \in 1..(a + b) : stream[q + j - 1] = (s \o t)[j]
  BY <1>1 DEF Lies
<1> HIDE DEF a, b
<1>4. ASSUME NEW j \in 1..a PROVE stream[q + j - 1] = s[j]
  <2>1. j \in 1..(a + b) /\ j <= a
    BY <1>1
  <2>2. QED
    BY <2>1, <1>2, <1>3
<1>5. ASSUME NEW j \in 1..b PROVE stream[q + a + j - 1] = t[j]
  <2>1. a + j \in 1..(a + b) /\ ~(a + j <= a) /\ (a + j) - a = j
        /\ q + (a + j) - 1 = q + a + j - 1
    BY <1>1
  <2>2. (s \o t)[a + j] = t[(a + j) - a]
    BY <2>1, <1>2
  <2>3. stream[q + (a + j) - 1] = (s \o t)[a + j]
    BY <2>1, <1>3
  <2>4. QED
    BY <2>1, <2>2, <2>3
<1>6. QED
  BY <1>1, <1>4, <1>5 DEF Lies, a, b

LEMMA HereIsRow ==
    ASSUME NEW kinds, NEW row, RowOf(kinds, row), Lies(at, row)
    PROVE  /\ \A j \in 1..Len(row) : Here(j) = row[j] /\ Here(j) \in Tokens
           /\ Len(row) \in Nat
<1>1. \A j \in 1..Len(row) : row[j] \in Tokens
  BY ElementOfSeq DEF RowOf
<1>2. QED
  BY <1>1, LenProperties DEF RowOf, Lies, Here

\* What was read is not too large.
LEMMA ReadsClean ==
    ASSUME NEW kinds, NEW row, RowOf(kinds, row), Plain(row), at \in Nat, Lies(at, row),
           Reads(kinds)
    PROVE  Clean(at, at + Len(row))
<1>1. Len(row) \in Nat /\ DOMAIN kinds = 1..Len(row)
      /\ \A j \in 1..Len(row) : Here(j) = row[j] /\ Here(j) \in Tokens
  BY HereIsRow DEF RowOf
<1>2. ASSUME NEW j \in 1..Len(row) PROVE ~Excessive(Here(j))
  <2>1. Here(j).width \in Nat /\ Here(j).kind = kinds[j]
        /\ Here(j).field \notin {"crc_width", "fsa_crc_width"}
        /\ (kinds[j] = "inf" => Here(j).value \in Nat)
    BY <1>1 DEF RowOf, Plain, Tokens
  <2>2. FitsWord(kinds, j) /\ FitsString(kinds, j)
    BY <1>1 DEF Reads, Good
  <2>3. WORD \in Nat /\ MAX_NUL_STRING \in Nat
    BY FieldConstants
  <2>4. ~(Here(j).kind = "inf" /\ Here(j).value >= WORD)
    BY <2>1, <2>2, <2>3 DEF FitsWord
  <2>5. ~(Here(j).kind = "nul" /\ Here(j).width > MAX_NUL_STRING)
    BY <2>1, <2>2, <2>3 DEF FitsString
  <2>6. QED
    BY <2>1, <2>4, <2>5 DEF Excessive
<1>3. ASSUME NEW i \in at..(at + Len(row) - 1) PROVE ~Excessive(stream[i])
  <2>1. i - at + 1 \in 1..Len(row) /\ at + (i - at + 1) - 1 = i
    BY <1>1
  <2>2. QED
    BY <2>1, <1>2 DEF Here
<1>4. QED
  BY <1>3 DEF Clean

\* What fails to be read is too large, or the file is cut.
LEMMA Loses ==
    ASSUME NEW here, NEW kinds, NEW row, RowOf(kinds, row), at \in Nat, end \in Nat,
           Len(stream) \in Nat, at + Len(row) <= Len(stream), Lies(at, row), Lose(here, kinds)
    PROVE  /\ pc' \in {"io", "corrupt"}
           /\ pc' = "io" => end < Len(stream)
           /\ pc' = "corrupt" => \E j \in 1..Len(row) : Excessive(row[j])
<1>1. Len(row) \in Nat /\ DOMAIN kinds = 1..Len(row)
      /\ \A j \in 1..Len(row) : Here(j) = row[j] /\ Here(j) \in Tokens
  BY HereIsRow DEF RowOf
<1>2. PICK j \in 1..Len(row) : ~Good(kinds, j) /\ pc' \in Failures(kinds, j)
  BY <1>1 DEF Lose
<1>3. Here(j) = row[j] /\ Here(j).kind = kinds[j] /\ Here(j).width \in Nat
      /\ (kinds[j] = "inf" => Here(j).value \in Nat)
  BY <1>1 DEF RowOf, Tokens
<1>4. WORD \in Nat /\ MAX_NUL_STRING \in Nat
  BY FieldConstants
<1>5. ~(FitsWord(kinds, j) /\ FitsString(kinds, j)) => Excessive(row[j])
  BY <1>3, <1>4 DEF FitsWord, FitsString, Excessive
<1>6. CASE at + j - 1 <= end
  <2>1. pc' = "corrupt"
    BY <1>2, <1>3, <1>6 DEF Failures
  <2>2. Stands(kinds, j)
    BY <1>3, <1>6 DEF Stands
  <2>3. QED
    BY <2>1, <2>2, <1>2, <1>5 DEF Good
<1>7. CASE ~(at + j - 1 <= end)
  <2>1. end < Len(stream)
    BY <1>1, <1>7
  <2>2. Failures(kinds, j) \subseteq {"io", "corrupt"}
        /\ ("corrupt" \in Failures(kinds, j) => ~(FitsWord(kinds, j) /\ FitsString(kinds, j)))
    BY <1>7 DEF Failures
  <2>3. QED
    BY <2>1, <2>2, <1>2, <1>5
<1>8. QED
  BY <1>6, <1>7

-----------------------------------------------------------------------------
(***************************************************************************)
(* What was written does not change, and neither does what is expected.    *)
(***************************************************************************)
LEMMA FrameRows ==
    ASSUME format' = format
    PROVE  /\ \A field, seconds, unit :
                 WrittenTime(field, seconds, unit)' = WrittenTime(field, seconds, unit)
           /\ \A e : OwnerRow(e)' = OwnerRow(e)
           /\ \A e : WrittenInode(e)' = WrittenInode(e)
           /\ \A e : WrittenFile(e)' = WrittenFile(e)
           /\ \A e : WrittenEntry(e)' = WrittenEntry(e)
<1>1. \A field, seconds, unit :
         WrittenTime(field, seconds, unit)' = WrittenTime(field, seconds, unit)
  BY DEF WrittenTime
<1>2. \A e : OwnerRow(e)' = OwnerRow(e)
  BY DEF OwnerRow
<1>3. \A e : WrittenInode(e)' = WrittenInode(e)
  BY <1>1 DEF WrittenInode
<1>4. \A e : WrittenFile(e)' = WrittenFile(e)
  BY DEF WrittenFile
<1>5. \A e : WrittenEntry(e)' = WrittenEntry(e)
  BY <1>3, <1>4 DEF WrittenEntry
<1>6. QED
  BY <1>1, <1>2, <1>3, <1>4, <1>5

LEMMA FrameAhead ==
    ASSUME format' = format, NEW field, NEW e
    PROVE  Ahead(field, e)' = Ahead(field, e)
<1>1. AheadStored(e)' = AheadStored(e)
  BY DEF AheadStored
<1>2. AheadRest(e)' = AheadRest(e)
  BY <1>1 DEF AheadRest
<1>3. AheadFsaSize(e)' = AheadFsaSize(e)
  BY <1>2 DEF AheadFsaSize
<1>4. AheadFsa(e)' = AheadFsa(e)
  BY <1>3 DEF AheadFsa
<1>5. AfterTimes(e)' = AfterTimes(e)
  BY <1>2, <1>4 DEF AfterTimes
<1>6. AheadCtime(e)' = AheadCtime(e)
  BY <1>5, FrameRows DEF AheadCtime
<1>7. AheadMtime(e)' = AheadMtime(e)
  BY <1>5, <1>6, FrameRows DEF AheadMtime, AfterMtime
<1>8. AheadAtime(e)' = AheadAtime(e)
  BY <1>7, FrameRows DEF AheadAtime
<1>9. AheadMode(e)' = AheadMode(e)
  BY <1>8 DEF AheadMode
<1>10. AheadOwner(e)' = AheadOwner(e)
  BY <1>9, FrameRows DEF AheadOwner
<1>11. AheadFlags(e)' = AheadFlags(e)
  BY <1>10 DEF AheadFlags
<1>12. AheadName(e)' = AheadName(e)
  BY <1>10, <1>11 DEF AheadName, AfterName
<1>13. AheadCrc(e)' = AheadCrc(e)
  BY DEF AheadCrc
<1>14. QED
  BY <1>1, <1>2, <1>3, <1>4, <1>6, <1>7, <1>8, <1>9, <1>10, <1>11, <1>12, <1>13 DEF Ahead

LEMMA FrameExpected ==
    ASSUME format' = format, NEW e
    PROVE  /\ \A field : Expected(field, e)' = Expected(field, e)
           /\ Complete(e)' = Complete(e)
<1>1. Flagged(e)' = Flagged(e)
  BY DEF Flagged
<1>2. Owned(e)' = Owned(e)
  BY <1>1 DEF Owned, owner
<1>3. Moded(e)' = Moded(e)
  BY <1>2 DEF Moded
<1>4. Accessed(e)' = Accessed(e)
  BY <1>3 DEF Accessed
<1>5. Modified(e)' = Modified(e)
  BY <1>4 DEF Modified
<1>6. Changed(e)' = Changed(e)
  BY <1>5 DEF Changed
<1>7. Sized(e)' = Sized(e)
  BY <1>6 DEF Sized
<1>8. Stored(e)' = Stored(e)
  BY <1>7 DEF Stored
<1>9. CompleteFile(e)' = CompleteFile(e)
  BY <1>7, <1>8 DEF CompleteFile
<1>10. Complete(e)' = Complete(e)
  BY <1>6, <1>9 DEF Complete
<1>11. \A field : Expected(field, e)' = Expected(field, e)
  BY <1>1, <1>2, <1>3, <1>4, <1>5, <1>6, <1>7, <1>8 DEF Expected
<1>12. QED
  BY <1>10, <1>11

LEMMA Frame ==
    ASSUME UNCHANGED <<format, written>>
    PROVE  /\ stream' = stream /\ start' = start
           /\ \A q, s : Lies(q, s)' <=> Lies(q, s)
           /\ \A p, q : Clean(p, q)' <=> Clean(p, q)
           /\ \A e : HasExcess(e)' <=> HasExcess(e)
<1>1. \A e : WrittenEntry(e)' = WrittenEntry(e)
  BY FrameRows
<1>2. Entries' = Entries /\ EntryTokens(written)' = EntryTokens(written)
  BY <1>1 DEF Entries, EntryTokens
<1>3. stream' = stream
  BY <1>2 DEF stream
<1>4. start' = start
  BY <1>2 DEF start
<1>5. QED
  BY <1>1, <1>3, <1>4 DEF Lies, Clean, HasExcess

-----------------------------------------------------------------------------
(***************************************************************************)
(* One step of the parser, whatever row it reads.                          *)
(***************************************************************************)

\* The tokens of an entry are those between its start and the next.
LEMMA ExcessOfEntry ==
    ASSUME NoEa, Constant, NEW k \in 1..Len(written)
    PROVE  /\ \A i \in (start[k] + 1)..start[k + 1] :
                 Excessive(stream[i]) => HasExcess(written[k])
           /\ Clean(start[k] + 1, start[k + 1] + 1) => ~HasExcess(written[k])
<1> DEFINE w == WrittenEntry(written[k])
<1>1. w \in Seq(Tokens) /\ Len(w) \in Nat /\ Len(written) \in Nat
  BY WrittenTypes, LenProperties DEF Constant
<1>2. start[k] \in Nat /\ start[k + 1] = start[k] + Len(w)
      /\ Lies(start[k] + 1, w)
  <2>1. k \in 1..(Len(written) + 1)
    BY <1>1
  <2>2. QED
    BY <2>1, Layout DEF Constant
<1>3. DOMAIN w = 1..Len(w)
  BY <1>1, LenProperties
<1> HIDE DEF w
<1>4. ASSUME NEW i \in (start[k] + 1)..start[k + 1], Excessive(stream[i]) PROVE HasExcess(written[k])
  <2>1. i - start[k] \in 1..Len(w) /\ start[k] + 1 + (i - start[k]) - 1 = i
    <3> DEFINE a == start[k]
               b == start[k + 1]
               n == Len(w)
    <3>1. a \in Nat /\ n \in Nat /\ b = a + n /\ i \in (a + 1)..b
      BY <1>1, <1>2
    <3> HIDE DEF a, b, n
    <3>2. i - a \in 1..n /\ a + 1 + (i - a) - 1 = i
      BY <3>1
    <3>3. QED
      BY <3>2 DEF a, n
  <2>2. w[i - start[k]] = stream[i]
    BY <2>1, <1>2 DEF Lies
  <2>3. stream[i] \in Range(w)
    BY <2>1, <2>2, <1>3 DEF Range
  <2>4. QED
    BY <2>3, <1>4 DEF HasExcess, w
<1>5. ASSUME Clean(start[k] + 1, start[k + 1] + 1), HasExcess(written[k]) PROVE FALSE
  <2>1. PICK t \in Range(w) : Excessive(t)
    BY <1>5 DEF HasExcess, w
  <2>2. PICK j \in 1..Len(w) : w[j] = t
    BY <1>3 DEF Range
  <2>3. start[k] + j \in (start[k] + 1)..((start[k + 1] + 1) - 1) /\ start[k] + 1 + j - 1 = start[k] + j
    BY <1>1, <1>2
  <2>4. stream[start[k] + j] = t
    BY <2>2, <2>3, <1>2 DEF Lies
  <2>5. \A i \in (start[k] + 1)..((start[k + 1] + 1) - 1) : ~Excessive(stream[i])
    BY <1>5, Zenon DEF Clean
  <2>6. ~Excessive(stream[start[k] + j])
    BY <2>3, <2>5, Zenon
  <2>7. QED
    BY <2>1, <2>4, <2>6
<1>6. QED
  BY <1>4, <1>5

\* What the invariant says of an entry in progress.
LEMMA InProgress ==
    ASSUME NoEa, IInv, pc \in Reading
    PROVE  /\ format \in Nat \ {0} /\ current \in 1..Len(written) /\ Len(written) \in Nat
           /\ entry \in EntryFields /\ ~HasEa(entry.flags) /\ Has(entry, pc)
           /\ at \in Nat /\ end \in Nat /\ Len(stream) \in Nat
           /\ start[current] \in Nat /\ start[current + 1] \in Nat
           /\ start[current] < at /\ start[current + 1] + 1 <= Len(stream)
           /\ at + Len(Ahead(pc, entry)) = start[current + 1] + 1
           /\ Lies(at, Ahead(pc, entry)) /\ Clean(start[current] + 1, at)
           /\ inode = Expected(pc, entry)
<1>1. format \in Formats /\ written \in Catalogues
  BY DEF IInv, Constant
<1>2. format \in Nat \ {0} /\ Len(written) \in Nat
  BY <1>1, WrittenTypes
<1>3. current \in 1..Len(written) /\ current \in Nat
  BY <1>2 DEF IInv, ListedSoFar, InStep, current
<1>4. entry \in EntryFields /\ ~HasEa(entry.flags)
  BY <1>1, <1>3, WrittenTypes DEF entry
<1>5. Len(stream) \in Nat /\ current \in 1..(Len(written) + 1) /\ current + 1 \in 1..(Len(written) + 1)
  BY <1>1, <1>2, <1>3, Layout
<1>6. start[current] \in Nat /\ start[current + 1] \in Nat /\ start[current + 1] + 1 <= Len(stream)
  BY <1>1, <1>5, Layout
<1>7. at \in Nat /\ end \in Nat
  BY <1>5 DEF IInv, InStep, Constant
<1>8. QED
  BY <1>2, <1>3, <1>4, <1>5, <1>6, <1>7 DEF IInv, InStep, InEntry

\* A row that is not read whole.
LEMMA LoseStep ==
    ASSUME NoEa, IInv, pc \in Reading, NEW kinds, NEW row, NEW rest \in Seq(Tokens),
           RowOf(kinds, row), Ahead(pc, entry) = row \o rest, Lose(pc, kinds)
    PROVE  IInv'
<1>1. row \in Seq(Tokens)
  BY DEF RowOf
<1>2. Len(row \o rest) = Len(row) + Len(rest) /\ Len(row) \in Nat /\ Len(rest) \in Nat
      /\ Lies(at, row)
  BY <1>1, InProgress, LiesSplit
<1>3. at + Len(row) <= start[current + 1] + 1
  BY <1>2, InProgress
<1>4. /\ pc' \in {"io", "corrupt"}
      /\ pc' = "io" => end < Len(stream)
      /\ pc' = "corrupt" => \E j \in 1..Len(row) : Excessive(row[j])
  <2>1. at \in Nat /\ end \in Nat /\ Len(stream) \in Nat /\ start[current + 1] \in Nat
        /\ start[current + 1] + 1 <= Len(stream)
    BY InProgress
  <2>2. at + Len(row) <= Len(stream)
    BY <2>1, <1>2, <1>3
  <2>3. QED
    BY <2>1, <2>2, <1>2, Loses
<1>5. UNCHANGED <<format, written, end, at, inode, listed>>
  BY DEF Lose
<1>6. ASSUME NEW j \in 1..Len(row), Excessive(row[j]) PROVE HasExcess(entry)
  <2>1. at + j - 1 \in (start[current] + 1)..start[current + 1]
    <3>1. at \in Nat /\ start[current] \in Nat /\ start[current + 1] \in Nat /\ start[current] < at
      BY InProgress
    <3> DEFINE a == start[current]
               b == start[current + 1]
               n == Len(row)
    <3>2. n \in Nat /\ at + n <= b + 1 /\ j \in 1..n
      BY <1>2, <1>3
    <3> HIDE DEF a, b, n
    <3>3. at + j - 1 \in (a + 1)..b
      BY <3>1, <3>2 DEF a, b
    <3>4. QED
      BY <3>3 DEF a, b
  <2>2. stream[at + j - 1] = row[j]
    BY <1>2 DEF Lies
  <2>3. Constant /\ current \in 1..Len(written)
    BY InProgress DEF IInv
  <2>4. QED
    BY <2>1, <2>2, <2>3, <1>6, ExcessOfEntry DEF entry
<1>7. stream' = stream /\ current' = current /\ entry' = entry
      /\ \A e : HasExcess(e)' <=> HasExcess(e)
  BY <1>5, Frame DEF current, entry
<1>8. Constant'
  BY <1>5, <1>7 DEF IInv, Constant
<1>9. ListedSoFar'
  BY <1>5, <1>7, FrameExpected DEF IInv, ListedSoFar
<1>10. InStep'
  BY <1>4, <1>5, <1>7 DEF IInv, InStep, Reading, Ended
<1>11. Earned'
  BY <1>4, <1>5, <1>6, <1>7, InProgress DEF Earned
<1>12. QED
  BY <1>8, <1>9, <1>10, <1>11 DEF IInv

\* Past a row that was read whole, what follows it is ahead.
LEMMA PastRow ==
    ASSUME NoEa, IInv, pc \in Reading, NEW row \in Seq(Tokens), NEW rest \in Seq(Tokens),
           Ahead(pc, entry) = row \o rest, Clean(at, at + Len(row)), NEW q, q = at + Len(row)
    PROVE  /\ q \in Nat /\ q \in 1..(Len(stream) + 1)
           /\ start[current] < q /\ q + Len(rest) = start[current + 1] + 1
           /\ Lies(q, rest) /\ Clean(start[current] + 1, q)
<1> DEFINE a == start[current]
           b == start[current + 1]
           n == Len(row)
           m == Len(rest)
<1>1. Len(row \o rest) = n + m /\ n \in Nat /\ m \in Nat /\ Lies(at + n, rest)
  BY InProgress, LiesSplit
<1>2. at \in Nat /\ a \in Nat /\ b \in Nat /\ a < at /\ Len(stream) \in Nat
      /\ b + 1 <= Len(stream)
  BY InProgress
<1>3. at + (n + m) = b + 1
  BY <1>1, InProgress
<1>4. Clean(a + 1, at)
  BY InProgress
<1> HIDE DEF a, b, n, m
<1>5. q = at + n
  BY DEF n
<1>6. q \in Nat /\ q \in 1..(Len(stream) + 1) /\ a < q /\ q + m = b + 1
  <2> DEFINE z == Len(stream)
  <2>1. n \in Nat /\ m \in Nat
    BY <1>1
  <2>2. at \in Nat /\ a \in Nat /\ b \in Nat /\ a < at /\ z \in Nat /\ b + 1 <= z
    BY <1>2
  <2> HIDE DEF z
  <2>3. at + n \in Nat /\ a < at + n /\ (at + n) + m = b + 1
    BY <2>1, <2>2, <1>3
  <2>4. q \in Nat /\ a < q /\ q + m = b + 1
    BY <2>3, <1>5
  <2>5. q \in 1..(z + 1)
    BY <2>1, <2>2, <2>4
  <2>6. QED
    BY <2>4, <2>5 DEF z
<1>7. Clean(a + 1, q)
  <2>1. ASSUME NEW i \in (a + 1)..(q - 1) PROVE ~Excessive(stream[i])
    <3>1. CASE i \in (a + 1)..(at - 1)
      BY <3>1, <1>4 DEF Clean
    <3>2. CASE i \in at..(q - 1)
      BY <3>2 DEF Clean
    <3>3. i \in (a + 1)..(at - 1) \/ i \in at..(q - 1)
      BY <1>2, <1>6
    <3>4. QED
      BY <3>1, <3>2, <3>3
  <2>2. QED
    BY <2>1 DEF Clean
<1>8. QED
  BY <1>1, <1>5, <1>6, <1>7 DEF a, b, n, m

\* A step past a row to another field of the entry.
LEMMA AdvanceStep ==
    ASSUME NoEa, IInv, pc \in Reading, NEW then \in Reading, NEW row \in Seq(Tokens),
           Ahead(then, entry) \in Seq(Tokens), Has(entry, then),
           Ahead(pc, entry) = row \o Ahead(then, entry), Clean(at, at + Len(row)),
           pc' = then, at' = at + Len(row), inode' = Expected(then, entry),
           UNCHANGED <<format, written, end, listed>>
    PROVE  IInv'
<1>1. /\ at' \in Nat /\ at' \in 1..(Len(stream) + 1) /\ start[current] < at'
      /\ at' + Len(Ahead(then, entry)) = start[current + 1] + 1
      /\ Lies(at', Ahead(then, entry)) /\ Clean(start[current] + 1, at')
  BY PastRow
<1>2. stream' = stream /\ start' = start /\ current' = current /\ entry' = entry
      /\ \A e : HasExcess(e)' <=> HasExcess(e)
  BY Frame DEF current, entry
<1>3. Constant'
  BY <1>2 DEF IInv, Constant
<1>4. ListedSoFar'
  BY <1>2, FrameExpected DEF IInv, ListedSoFar
<1>5. InEntry(pc, entry)'
  <2>1. Ahead(then, entry') = Ahead(then, entry) /\ Ahead(pc, entry)' = Ahead(pc', entry')
    BY <1>2, FrameAhead
  <2>2. Expected(pc, entry)' = Expected(then, entry)
    BY <1>2, FrameExpected
  <2>3. Ahead(pc, entry)' = Ahead(then, entry)
    BY <2>1
  <2>4. Lies(at, Ahead(pc, entry))'
    BY <1>1, <1>2, <2>3 DEF Lies
  <2>5. Clean(start[current] + 1, at)'
    BY <1>1, <1>2 DEF Clean
  <2>6. Has(entry, pc)'
    BY <1>2 DEF Has
  <2>7. QED
    BY <1>1, <1>2, <2>2, <2>3, <2>4, <2>5, <2>6 DEF InEntry
<1>6. InStep'
  <2>1. pc' \in Reading /\ pc' # "type"
    BY DEF Reading
  <2>2. current' <= Len(written)'
    <3>1. current <= Len(written)
      BY InProgress
    <3>2. QED
      BY <3>1, <1>2
  <2>3. QED
    BY <2>1, <2>2, <1>1, <1>2, <1>5 DEF InStep
<1>7. Earned'
  BY DEF Earned, Reading
<1>8. QED
  BY <1>3, <1>4, <1>6, <1>7 DEF IInv

\* A call that is followed by another field of the entry.
LEMMA CallStep ==
    ASSUME NoEa, IInv, pc \in Reading, NEW then \in Reading, NEW kinds, NEW row, NEW values,
           RowOf(kinds, row), Ahead(then, entry) \in Seq(Tokens), Has(entry, then),
           Ahead(pc, entry) = row \o Ahead(then, entry),
           Reads(kinds) => Clean(at, at + Len(row)) /\ values = Expected(then, entry),
           Call(pc, kinds, then, values)
    PROVE  IInv'
<1>1. CASE Lose(pc, kinds)
  BY <1>1, LoseStep
<1>2. CASE Get(pc, kinds, then, values)
  <2>1. /\ pc' = then /\ at' = at + Len(row) /\ inode' = values /\ Reads(kinds)
        /\ row \in Seq(Tokens) /\ UNCHANGED <<format, written, end, listed>>
    BY <1>2 DEF Get, RowOf
  <2>2. QED
    BY <2>1, AdvanceStep
<1>3. QED
  BY <1>1, <1>2 DEF Call

\* An entry that is refused.
LEMMA CorruptStep ==
    ASSUME NoEa, IInv, pc \in Reading, HasExcess(entry), pc' = "corrupt",
           UNCHANGED <<format, written, end, at, inode, listed>>
    PROVE  IInv'
<1>1. stream' = stream /\ current' = current /\ entry' = entry
      /\ \A e : HasExcess(e)' <=> HasExcess(e)
  BY Frame DEF current, entry
<1>2. Constant'
  BY <1>1 DEF IInv, Constant
<1>3. ListedSoFar'
  BY <1>1, FrameExpected DEF IInv, ListedSoFar
<1>4. InStep'
  BY <1>1 DEF IInv, InStep, Reading, Ended
<1>5. Earned'
  BY <1>1, InProgress DEF Earned
<1>6. QED
  BY <1>2, <1>3, <1>4, <1>5 DEF IInv

\* A call that ends the entry.
LEMMA ListStep ==
    ASSUME NoEa, IInv, pc \in Reading, NEW kinds, NEW row, NEW value,
           RowOf(kinds, row), Ahead(pc, entry) = row,
           Reads(kinds) => Clean(at, at + Len(row)) /\ value = Complete(entry),
           List(pc, kinds, value)
    PROVE  IInv'
<1>0. row \in Seq(Tokens) /\ << >> \in Seq(Tokens) /\ Ahead(pc, entry) = row \o << >>
  BY Empty, EmptySeq DEF RowOf
<1>1. CASE Lose(pc, kinds)
  BY <1>0, <1>1, LoseStep
<1>2. CASE /\ pc' = "type" /\ Reads(kinds) /\ at' = at + Len(kinds)
           /\ listed' = Append(listed, value) /\ inode' = Blank
           /\ UNCHANGED <<format, written, end>>
  <2>1. at' = at + Len(row)
    BY <1>2 DEF RowOf
  <2>2. /\ at' \in Nat /\ at' \in 1..(Len(stream) + 1)
        /\ at' + Len(<< >>) = start[current + 1] + 1
        /\ Clean(start[current] + 1, at')
    BY <1>0, <1>2, <2>1, PastRow
  <2>3. at' = start[current + 1] + 1
    BY <2>2, EmptySeq
  <2>4. stream' = stream /\ start' = start /\ \A e : HasExcess(e)' <=> HasExcess(e)
    BY <1>2, Frame
  <2>5. current \in 1..Len(written) /\ Len(written) \in Nat /\ Len(listed) \in Nat
        /\ listed = [i \in 1..Len(listed) |-> Complete(written[i])]
        /\ written[current].type # "c"
        /\ \A i \in 1..Len(listed) : ~HasExcess(written[i]) /\ written[i].type # "c"
    BY InProgress DEF IInv, ListedSoFar, Has, entry
  <2>6. Len(listed') = Len(listed) + 1 /\ listed' = [i \in 1..(Len(listed) + 1) |-> Complete(written[i])]
    <3> DEFINE n == Len(listed)
               T == {Complete(written[i]) : i \in 1..(n + 1)}
    <3>1. n \in Nat /\ listed = [i \in 1..n |-> Complete(written[i])] /\ value = Complete(written[n + 1])
      BY <2>5, <1>2 DEF entry, current
    <3> HIDE DEF n
    <3>2. listed \in [1..n -> T] /\ value \in T
      BY <3>1
    <3> HIDE DEF T
    <3>3. listed \in Seq(T)
      BY <3>1, <3>2
    <3>4. /\ Append(listed, value) \in Seq(T) /\ Len(Append(listed, value)) = Len(listed) + 1
          /\ \A i \in 1..Len(listed) : Append(listed, value)[i] = listed[i]
          /\ Append(listed, value)[Len(listed) + 1] = value
      BY <3>2, <3>3, AppendProperties
    <3>5. \A i \in 1..(n + 1) : listed'[i] = Complete(written[i])
      <4>1. \A i \in 1..n : listed'[i] = Complete(written[i])
        BY <3>1, <3>4, <1>2 DEF n
      <4>2. listed'[n + 1] = Complete(written[n + 1])
        BY <3>1, <3>4, <1>2 DEF n
      <4>3. \A i \in 1..(n + 1) : i \in 1..n \/ i = n + 1
        BY <3>1
      <4>4. QED
        BY <4>1, <4>2, <4>3
    <3>6. listed' \in Seq(T) /\ Len(listed') = n + 1 /\ DOMAIN listed' = 1..(n + 1)
      BY <3>4, <1>2, LenProperties DEF n
    <3>7. listed' = [i \in 1..(n + 1) |-> listed'[i]]
      BY <3>6, LenProperties
    <3>8. QED
      BY <3>5, <3>6, <3>7 DEF n
  <2>7. Constant'
    BY <1>2, <2>4 DEF IInv, Constant
  <2>8. ~HasExcess(written[current])
    BY <2>2, <2>3, <2>5, ExcessOfEntry DEF IInv
  <2>9. ListedSoFar'
    <3>1. Len(listed') \in 0..Len(written)
      BY <2>5, <2>6 DEF current
    <3>2. \A i \in 1..Len(listed') : Complete(written[i])' = Complete(written[i])
      BY <1>2, FrameExpected
    <3>3. listed' = [i \in 1..Len(listed') |-> Complete(written[i])']
      BY <2>6, <3>2
    <3>4. \A i \in 1..Len(listed') : i \in 1..Len(listed) \/ i = current
      BY <2>5, <2>6 DEF current
    <3>5. \A i \in 1..Len(listed') : ~HasExcess(written[i])' /\ written'[i].type # "c"
      <4>1. written' = written
        BY <1>2
      <4>2. ASSUME NEW i \in 1..Len(listed') PROVE ~HasExcess(written[i]) /\ written[i].type # "c"
        <5>1. i \in 1..Len(listed) \/ i = current
          BY <3>4
        <5>2. CASE i \in 1..Len(listed)
          BY <5>2, <2>5
        <5>3. CASE i = current
          BY <5>3, <2>5, <2>8
        <5>4. QED
          BY <5>1, <5>2, <5>3
      <4>3. \A i : HasExcess(written[i])' <=> HasExcess(written[i])
        BY <4>1, <2>4
      <4>4. QED
        BY <4>1, <4>2, <4>3
    <3>6. QED
      BY <3>1, <3>3, <3>5, <1>2 DEF ListedSoFar
  <2>10. InStep'
    <3>1. current' = current + 1
      BY <2>5, <2>6 DEF current
    <3>2. QED
      BY <3>1, <2>2, <2>3, <2>4, <1>2 DEF InStep, Reading
  <2>11. Earned'
    BY <1>2 DEF Earned
  <2>12. QED
    BY <2>7, <2>9, <2>10, <2>11 DEF IInv
<1>3. QED
  BY <1>1, <1>2 DEF List

-----------------------------------------------------------------------------
(***************************************************************************)
(* Rows of one, two and three tokens.                                      *)
(***************************************************************************)
Fits(kind, t) == t \in Tokens /\ t.kind = kind /\ (kind = "inf" => t.value \in Nat)

LEMMA RowOfNone == RowOf(<< >>, << >>)
BY EmptySeq DEF RowOf

LEMMA RowOfOne ==
    ASSUME NEW a, NEW t, Fits(a, t)
    PROVE  RowOf(<<a>>, <<t>>) /\ Len(<<t>>) = 1 /\ <<t>>[1] = t
BY DEF RowOf, Fits

LEMMA RowOfTwo ==
    ASSUME NEW a, NEW b, NEW t, NEW u, Fits(a, t), Fits(b, u)
    PROVE  LET row == <<t>> \o <<u>> IN
           RowOf(<<a, b>>, row) /\ Len(row) = 2 /\ row[1] = t /\ row[2] = u
<1> DEFINE row == <<t>> \o <<u>>
<1>1. <<t>> \in Seq(Tokens) /\ <<u>> \in Seq(Tokens) /\ Len(<<t>>) = 1 /\ Len(<<u>>) = 1
      /\ <<t>>[1] = t /\ <<u>>[1] = u
  BY OneToken DEF Fits
<1>2. row \in Seq(Tokens) /\ Len(row) = 2 /\ row[1] = t /\ row[2] = u
  BY <1>1, ConcatProperties
<1> HIDE DEF row
<1>3. DOMAIN <<a, b>> = 1..2 /\ Len(<<a, b>>) = 2
  OBVIOUS
<1>4. \A j \in 1..2 : row[j].kind = <<a, b>>[j] /\ (<<a, b>>[j] = "inf" => row[j].value \in Nat)
  BY <1>2 DEF Fits
<1>5. QED
  BY <1>2, <1>3, <1>4 DEF RowOf, row

LEMMA RowOfThree ==
    ASSUME NEW a, NEW b, NEW c, NEW t, NEW u, NEW v, Fits(a, t), Fits(b, u), Fits(c, v)
    PROVE  LET row == <<t>> \o <<u>> \o <<v>> IN
           /\ RowOf(<<a, b, c>>, row) /\ Len(row) = 3
           /\ row[1] = t /\ row[2] = u /\ row[3] = v
<1> DEFINE two == <<t>> \o <<u>>
           row == two \o <<v>>
<1>0. <<t>> \in Seq(Tokens) /\ <<u>> \in Seq(Tokens) /\ Len(<<t>>) = 1 /\ Len(<<u>>) = 1
      /\ <<t>>[1] = t /\ <<u>>[1] = u
  BY OneToken DEF Fits
<1>1. two \in Seq(Tokens) /\ Len(two) = 2 /\ two[1] = t /\ two[2] = u
  BY <1>0, ConcatProperties
<1>2. <<v>> \in Seq(Tokens) /\ Len(<<v>>) = 1 /\ <<v>>[1] = v
  BY OneToken DEF Fits
<1> HIDE DEF two
<1>3. row \in Seq(Tokens) /\ Len(row) = 3 /\ row[1] = t /\ row[2] = u /\ row[3] = v
  BY <1>1, <1>2, ConcatProperties
<1> HIDE DEF row
<1>4. DOMAIN <<a, b, c>> = 1..3 /\ Len(<<a, b, c>>) = 3
  OBVIOUS
<1>5. \A j \in 1..3 : /\ row[j].kind = <<a, b, c>>[j]
                      /\ <<a, b, c>>[j] = "inf" => row[j].value \in Nat
  BY <1>3 DEF Fits
<1>6. QED
  BY <1>3, <1>4, <1>5 DEF RowOf, row, two

\* The tokens of an entry.
LEMMA TokensOf ==
    ASSUME NEW field \in FieldNames
    PROVE  /\ \A n \in Nat : Fits("inf", Token("inf", field, n, 5))
           /\ \A n \in Nat : Fits("u16", Token("u16", field, n % SHORT, 2))
           /\ \A n \in Nat : Fits("raw", Token("raw", field, n, n))
           /\ \A v \in Values : Fits("u8", Token("u8", field, v, 1))
           /\ \A name \in [text : STRING, length : Nat] :
                 Fits("nul", Token("nul", field, name.text, name.length))
<1>1. \A n \in Nat : n % SHORT \in Nat
  BY FieldConstants
<1>2. \A kind \in Kinds, v \in Values, w \in Nat :
         /\ Token(kind, field, v, w) \in Tokens /\ Token(kind, field, v, w).kind = kind
         /\ Token(kind, field, v, w).value = v
  BY DEF Token, Tokens
<1>3. \A n \in Nat : n \in Values
  BY DEF Values
<1>4. \A name \in [text : STRING, length : Nat] : name.text \in Values /\ name.length \in Nat
  BY DEF Values
<1>5. "inf" \in Kinds /\ "u16" \in Kinds /\ "raw" \in Kinds /\ "u8" \in Kinds /\ "nul" \in Kinds
  BY DEF Kinds
<1>6. \A kind \in Kinds, v \in Values, w \in Nat :
         (kind = "inf" => v \in Nat) => Fits(kind, Token(kind, field, v, w))
  BY <1>2 DEF Fits
<1>7. QED
  BY <1>1, <1>3, <1>4, <1>5, <1>6

\* An entry whose inode was read.
LEMMA ChangedRecord ==
    ASSUME NEW e, format \in Nat
    PROVE  Changed(e) =
             [name |-> e.name.text, flags |-> IF format >= 2 THEN e.flags ELSE "none",
              uid |-> owner(e.uid), gid |-> owner(e.gid), mode |-> e.mode % SHORT,
              atime |-> as_i64(e.atime), mtime |-> as_i64(e.mtime),
              ctime |-> IF format >= 8 THEN as_i64(e.ctime) ELSE None,
              size |-> 0, archive_offset |-> 0, stored_size |-> 0, compression |-> "n",
              crc |-> None, target |-> None, type |-> e.type]
<1>1. CASE format >= 8
  <2>1. format >= 2
    BY <1>1
  <2>2. QED
    BY <1>1, <2>1
       DEF Changed, Modified, Accessed, Moded, Owned, Flagged, Named, Typed, Blank
<1>2. CASE ~(format >= 8) /\ format >= 2
  BY <1>2 DEF Changed, Modified, Accessed, Moded, Owned, Flagged, Named, Typed, Blank
<1>3. CASE ~(format >= 8) /\ ~(format >= 2)
  BY <1>3 DEF Changed, Modified, Accessed, Moded, Owned, Flagged, Named, Typed, Blank
<1>4. QED
  BY <1>1, <1>2, <1>3

LEMMA ChangedKeeps ==
    ASSUME NEW e, format \in Nat
    PROVE  Changed(e).type = e.type /\ Sized(e).size = e.size
BY ChangedRecord DEF Sized

\* A call on a row without a width of a CRC.
LEMMA PlainCall ==
    ASSUME NoEa, IInv, pc \in Reading, NEW then \in Reading, NEW kinds, NEW row, NEW values,
           RowOf(kinds, row), Plain(row), Has(entry, then),
           Ahead(pc, entry) = row \o Ahead(then, entry),
           (\A j \in 1..Len(row) : Here(j) = row[j]) => values = Expected(then, entry),
           Call(pc, kinds, then, values)
    PROVE  IInv'
<1>1. format \in Nat /\ entry \in EntryFields /\ at \in Nat /\ Lies(at, Ahead(pc, entry))
  BY InProgress
<1>2. Ahead(then, entry) \in Seq(Tokens)
  <2>1. << >> \in Seq(Tokens) /\ AheadCrc(entry) \in Seq(Tokens)
    BY <1>1, RowTypes, EmptySeq
  <2>2. QED
    BY <1>1, <2>1, AheadTypes DEF Ahead
<1>3. Lies(at, row)
  BY <1>1, <1>2, LiesSplit DEF RowOf
<1>4. values = Expected(then, entry)
  BY <1>3, HereIsRow
<1>5. Reads(kinds) => Clean(at, at + Len(row))
  BY <1>1, <1>3, ReadsClean
<1>6. QED
  BY <1>2, <1>4, <1>5, CallStep

\* A list on such a row.
LEMMA PlainList ==
    ASSUME NoEa, IInv, pc \in Reading, NEW kinds, NEW row, NEW value,
           RowOf(kinds, row), Plain(row), Ahead(pc, entry) = row,
           (\A j \in 1..Len(row) : Here(j) = row[j]) => value = Complete(entry),
           List(pc, kinds, value)
    PROVE  IInv'
<1>1. at \in Nat /\ Lies(at, row)
  BY InProgress
<1>2. value = Complete(entry)
  BY <1>1, HereIsRow
<1>3. Reads(kinds) => Clean(at, at + Len(row))
  BY <1>1, ReadsClean
<1>4. QED
  BY <1>2, <1>3, ListStep

-----------------------------------------------------------------------------
(***************************************************************************)
(* Every action of the parser.                                             *)
(***************************************************************************)
LEMMA NameStep ==
    ASSUME NoEa, IInv, ReadName
    PROVE  IInv'
<1> DEFINE t == Token("nul", "name", entry.name.text, entry.name.length)
           then == IF format >= 2 THEN "flags" ELSE "owner"
           values == [inode EXCEPT !.name = Val(1)]
<1>1. pc = "name" /\ pc \in Reading /\ then \in Reading
  BY DEF ReadName, Call, Get, Lose, Reading
<1>2. format \in Nat /\ entry \in EntryFields /\ Has(entry, "name") /\ inode = Typed(entry)
  BY <1>1, InProgress DEF Expected
<1>3. Fits("nul", t) /\ t.value = entry.name.text /\ t.field = "name"
  BY <1>2, EntryTypes, TokensOf DEF FieldNames, Token
<1>4. RowOf(<<"nul">>, <<t>>) /\ Len(<<t>>) = 1 /\ <<t>>[1] = t
  BY <1>3, RowOfOne
<1>5. Plain(<<t>>)
  BY <1>3, <1>4 DEF Plain
<1>6. Has(entry, then)
  BY <1>2 DEF Has
<1>7. Ahead(pc, entry) = <<t>> \o Ahead(then, entry)
  BY <1>1 DEF Ahead, AheadName, AfterName, Nul
<1>8. ASSUME \A j \in 1..Len(<<t>>) : Here(j) = <<t>>[j] PROVE values = Expected(then, entry)
  <2>1. Val(1) = entry.name.text
    BY <1>3, <1>4, <1>8 DEF Val
  <2>2. QED
    BY <2>1, <1>2 DEF Expected, Flagged, Named
<1>9. Call(pc, <<"nul">>, then, values)
  BY <1>1 DEF ReadName
<1>10. QED
  <2> HIDE DEF t, then, values
  <2>1. QED
    BY <1>1, <1>4, <1>5, <1>6, <1>7, <1>8, <1>9, PlainCall

LEMMA FlagsStep ==
    ASSUME NoEa, IInv, ReadFlags
    PROVE  IInv'
<1> DEFINE t == Token("u8", "flags", entry.flags, 1)
           values == [inode EXCEPT !.flags = Val(1)]
<1>1. pc = "flags" /\ pc \in Reading /\ "owner" \in Reading
  BY DEF ReadFlags, Call, Get, Lose, Reading
<1>2. format \in Nat /\ entry \in EntryFields /\ Has(entry, "flags") /\ inode = Named(entry)
  BY <1>1, InProgress DEF Expected
<1>3. Fits("u8", t) /\ t.value = entry.flags /\ t.field = "flags"
  BY <1>2, EntryTypes, TokensOf, FixedValues DEF FieldNames, Token
<1>4. RowOf(<<"u8">>, <<t>>) /\ Len(<<t>>) = 1 /\ <<t>>[1] = t
  BY <1>3, RowOfOne
<1>5. Plain(<<t>>)
  BY <1>3, <1>4 DEF Plain
<1>6. Has(entry, "owner") /\ format >= 2
  BY <1>2 DEF Has
<1>7. Ahead(pc, entry) = <<t>> \o Ahead("owner", entry)
  BY <1>1 DEF Ahead, AheadFlags, U8
<1>8. ASSUME \A j \in 1..Len(<<t>>) : Here(j) = <<t>>[j]
      PROVE  values = Expected("owner", entry)
  <2>1. Val(1) = entry.flags
    BY <1>3, <1>4, <1>8 DEF Val
  <2>2. QED
    BY <2>1, <1>2, <1>6 DEF Expected, Flagged
<1>9. Call(pc, <<"u8">>, "owner", values)
  BY <1>1 DEF ReadFlags
<1>10. QED
  <2> HIDE DEF t, values
  <2>1. QED
    BY <1>1, <1>4, <1>5, <1>6, <1>7, <1>8, <1>9, PlainCall

LEMMA ModeStep ==
    ASSUME NoEa, IInv, ReadMode
    PROVE  IInv'
<1> DEFINE t == Token("u16", "mode", entry.mode % SHORT, 2)
           values == [inode EXCEPT !.mode = Val(1)]
<1>1. pc = "mode" /\ pc \in Reading /\ "atime" \in Reading
  BY DEF ReadMode, Call, Get, Lose, Reading
<1>2. format \in Nat /\ entry \in EntryFields /\ Has(entry, "mode") /\ inode = Owned(entry)
  BY <1>1, InProgress DEF Expected
<1>3. Fits("u16", t) /\ t.value = entry.mode % SHORT /\ t.field = "mode"
  BY <1>2, EntryTypes, TokensOf DEF FieldNames, Token
<1>4. RowOf(<<"u16">>, <<t>>) /\ Len(<<t>>) = 1 /\ <<t>>[1] = t
  BY <1>3, RowOfOne
<1>5. Plain(<<t>>)
  BY <1>3, <1>4 DEF Plain
<1>6. Has(entry, "atime")
  BY <1>2 DEF Has
<1>7. Ahead(pc, entry) = <<t>> \o Ahead("atime", entry)
  BY <1>1 DEF Ahead, AheadMode, U16
<1>8. ASSUME \A j \in 1..Len(<<t>>) : Here(j) = <<t>>[j]
      PROVE  values = Expected("atime", entry)
  <2>1. Val(1) = entry.mode % SHORT
    BY <1>3, <1>4, <1>8 DEF Val
  <2>2. QED
    BY <2>1, <1>2 DEF Expected, Moded
<1>9. Call(pc, <<"u16">>, "atime", values)
  BY <1>1 DEF ReadMode
<1>10. QED
  <2> HIDE DEF t, values
  <2>1. QED
    BY <1>1, <1>4, <1>5, <1>6, <1>7, <1>8, <1>9, PlainCall

LEMMA OwnerStep ==
    ASSUME NoEa, IInv, ReadOwner
    PROVE  IInv'
<1> DEFINE t == IF format <= 7 THEN Token("u16", "uid", entry.uid % SHORT, 2)
                ELSE Token("inf", "uid", entry.uid, 5)
           u == IF format <= 7 THEN Token("u16", "gid", entry.gid % SHORT, 2)
                ELSE Token("inf", "gid", entry.gid, 5)
           row == <<t>> \o <<u>>
           values == [inode EXCEPT !.uid = Val(1), !.gid = Val(2)]
<1>1. pc = "owner" /\ pc \in Reading /\ "mode" \in Reading
  BY DEF ReadOwner, Call, Get, Lose, Reading
<1>2. format \in Nat /\ entry \in EntryFields /\ Has(entry, "owner") /\ inode = Flagged(entry)
  BY <1>1, InProgress DEF Expected
<1>3. /\ t.value = owner(entry.uid) /\ t.field = "uid"
      /\ u.value = owner(entry.gid) /\ u.field = "gid"
  BY DEF Token, owner
<1>4. OwnerRow(entry) = row /\ RowOf(owner_kinds, row) /\ Len(row) = 2
      /\ row[1] = t /\ row[2] = u
  <2>1. entry.uid \in Nat /\ entry.gid \in Nat /\ "uid" \in FieldNames /\ "gid" \in FieldNames
    BY <1>2, EntryTypes DEF FieldNames
  <2>2. CASE format <= 7
    <3>1. Fits("u16", t) /\ Fits("u16", u)
      BY <2>1, <2>2, TokensOf
    <3>2. OwnerRow(entry) = row /\ owner_kinds = <<"u16", "u16">>
      BY <2>2 DEF OwnerRow, owner_kinds, U16
    <3> HIDE DEF t, u
    <3>3. QED
      BY <3>1, <3>2, RowOfTwo
  <2>3. CASE ~(format <= 7)
    <3>1. Fits("inf", t) /\ Fits("inf", u)
      BY <2>1, <2>3, TokensOf
    <3>2. OwnerRow(entry) = row /\ owner_kinds = <<"inf", "inf">>
      BY <2>3 DEF OwnerRow, owner_kinds, Inf
    <3> HIDE DEF t, u
    <3>3. QED
      BY <3>1, <3>2, RowOfTwo
  <2>4. QED
    BY <2>2, <2>3
<1> HIDE DEF t, u, row
<1>5. Plain(row)
  BY <1>3, <1>4 DEF Plain
<1>6. Has(entry, "mode")
  BY <1>2 DEF Has
<1>7. Ahead(pc, entry) = row \o Ahead("mode", entry)
  BY <1>1, <1>4 DEF Ahead, AheadOwner
<1>8. ASSUME \A j \in 1..Len(row) : Here(j) = row[j]
      PROVE  values = Expected("mode", entry)
  <2>1. Val(1) = owner(entry.uid) /\ Val(2) = owner(entry.gid)
    BY <1>3, <1>4, <1>8 DEF Val
  <2>2. QED
    BY <2>1, <1>2 DEF Expected, Owned
<1>9. Call(pc, owner_kinds, "mode", values)
  BY <1>1 DEF ReadOwner
<1>10. QED
  <2> HIDE DEF values
  <2>1. QED
    BY <1>1, <1>4, <1>5, <1>6, <1>7, <1>8, <1>9, PlainCall

LEMMA FsaStep ==
    ASSUME NoEa, IInv, ReadFsa
    PROVE  IInv'
<1> DEFINE t == Token("inf", "fsa_families", 0, 5)
           u == Token("inf", "fsa_size", 0, 5)
           v == Token("inf", "fsa_offset", 0, 5)
           row == <<t>> \o <<u>> \o <<v>>
<1>1. pc = "fsa" /\ pc \in Reading /\ "fsa size" \in Reading
  BY DEF ReadFsa, Call, Get, Lose, Reading
<1>2. Has(entry, "fsa") /\ inode = Changed(entry)
  BY <1>1, InProgress DEF Expected
<1>3. /\ t.field = "fsa_families" /\ u.field = "fsa_size" /\ v.field = "fsa_offset"
      /\ Fits("inf", t) /\ Fits("inf", u) /\ Fits("inf", v)
  BY TokensOf DEF Token, FieldNames
<1>4. row = FsaRow
  BY DEF FsaRow, Inf
<1> HIDE DEF t, u, v
<1>5. RowOf(<<"inf", "inf", "inf">>, row) /\ Len(row) = 3
      /\ row[1] = t /\ row[2] = u /\ row[3] = v
  BY <1>3, RowOfThree
<1> HIDE DEF row
<1>6. Plain(row)
  <2>1. \A j \in 1..3 : j = 1 \/ j = 2 \/ j = 3
    OBVIOUS
  <2>2. QED
    BY <2>1, <1>3, <1>5 DEF Plain
<1>7. Has(entry, "fsa size") /\ inode = Expected("fsa size", entry)
  BY <1>2 DEF Has, Expected
<1>8. Ahead(pc, entry) = row \o Ahead("fsa size", entry)
  BY <1>1, <1>4 DEF Ahead, AheadFsa
<1>9. Call(pc, <<"inf", "inf", "inf">>, "fsa size", inode)
  BY <1>1 DEF ReadFsa
<1>10. QED
  BY <1>1, <1>5, <1>6, <1>7, <1>8, <1>9, PlainCall

LEMMA FinishInodeStep ==
    ASSUME NoEa, IInv, FinishInode
    PROVE  IInv'
<1>1. pc = "rest" /\ pc \in Reading /\ inode.type \in {"d", "p", "s"}
  BY DEF FinishInode, List, Lose, Reading
<1>2. entry \in EntryFields /\ format \in Nat /\ inode = Changed(entry)
  BY <1>1, InProgress DEF Expected
<1>3. inode.type = entry.type
  BY <1>2, ChangedKeeps
<1>4. Ahead(pc, entry) = << >> /\ inode = Complete(entry)
  BY <1>1, <1>2, <1>3 DEF Ahead, AheadRest, Complete
<1>5. Plain(<< >>)
  BY EmptySeq DEF Plain
<1>6. List(pc, << >>, inode)
  BY <1>1 DEF FinishInode
<1>7. QED
  BY <1>1, <1>4, <1>5, <1>6, RowOfNone, PlainList

LEMMA FinishSymlinkStep ==
    ASSUME NoEa, IInv, FinishSymlink
    PROVE  IInv'
<1> DEFINE t == Token("nul", "target", entry.name.text, entry.name.length)
           value == [inode EXCEPT !.target = Val(1)]
<1>1. pc = "rest" /\ pc \in Reading /\ inode.type = "l"
  BY DEF FinishSymlink, List, Lose, Reading
<1>2. entry \in EntryFields /\ format \in Nat /\ inode = Changed(entry)
  BY <1>1, InProgress DEF Expected
<1>3. entry.type = "l"
  BY <1>1, <1>2, ChangedKeeps
<1>4. Fits("nul", t) /\ t.value = entry.name.text /\ t.field = "target"
  BY <1>2, EntryTypes, TokensOf DEF FieldNames, Token
<1>5. RowOf(<<"nul">>, <<t>>) /\ Len(<<t>>) = 1 /\ <<t>>[1] = t
  BY <1>4, RowOfOne
<1>6. Plain(<<t>>)
  BY <1>4, <1>5 DEF Plain
<1>7. Ahead(pc, entry) = <<t>>
  BY <1>1, <1>3 DEF Ahead, AheadRest, Nul
<1>8. ASSUME \A j \in 1..Len(<<t>>) : Here(j) = <<t>>[j]
      PROVE  value = Complete(entry)
  <2>1. Val(1) = entry.name.text
    BY <1>4, <1>5, <1>8 DEF Val
  <2>2. QED
    BY <2>1, <1>2, <1>3 DEF Complete
<1>9. List(pc, <<"nul">>, value)
  BY <1>1 DEF FinishSymlink
<1>10. QED
  <2> HIDE DEF t, value
  <2>1. QED
    BY <1>1, <1>5, <1>6, <1>7, <1>8, <1>9, PlainList

LEMMA SizesStep ==
    ASSUME NoEa, IInv, ReadSizes
    PROVE  IInv'
<1> DEFINE t == Token("inf", "size", entry.size, 5)
           u == Token("inf", "archive_offset", entry.archive_offset, 5)
           row == <<t>> \o <<u>>
           values == [inode EXCEPT !.size = Val(1), !.archive_offset = Val(2)]
<1>1. pc = "rest" /\ pc \in Reading /\ "stored" \in Reading /\ inode.type = "f"
  BY DEF ReadSizes, Call, Get, Lose, Reading
<1>2. entry \in EntryFields /\ format \in Nat /\ Has(entry, "rest") /\ inode = Changed(entry)
  BY <1>1, InProgress DEF Expected
<1>3. entry.type = "f"
  BY <1>1, <1>2, ChangedKeeps
<1>4. /\ t.field = "size" /\ u.field = "archive_offset"
      /\ t.value = entry.size /\ u.value = entry.archive_offset
      /\ Fits("inf", t) /\ Fits("inf", u)
  BY <1>2, EntryTypes, TokensOf DEF Token, FieldNames
<1>5. row = SizesRow(entry)
  BY DEF SizesRow, Inf
<1> HIDE DEF t, u
<1>6. RowOf(<<"inf", "inf">>, row) /\ Len(row) = 2 /\ row[1] = t /\ row[2] = u
  BY <1>4, RowOfTwo
<1> HIDE DEF row
<1>7. Plain(row)
  BY <1>4, <1>6 DEF Plain
<1>8. Has(entry, "stored")
  BY <1>2, <1>3 DEF Has
<1>9. Ahead(pc, entry) = row \o Ahead("stored", entry)
  BY <1>1, <1>3, <1>5 DEF Ahead, AheadRest
<1>10. ASSUME \A j \in 1..Len(row) : Here(j) = row[j]
       PROVE  values = Expected("stored", entry)
  <2>1. Val(1) = entry.size /\ Val(2) = entry.archive_offset
    BY <1>4, <1>6, <1>10 DEF Val
  <2>2. QED
    BY <2>1, <1>2 DEF Expected, Sized
<1>11. Call(pc, <<"inf", "inf">>, "stored", values)
  BY <1>1 DEF ReadSizes
<1>12. QED
  <2> HIDE DEF values
  <2>1. QED
    BY <1>1, <1>6, <1>7, <1>8, <1>9, <1>10, <1>11, PlainCall

LEMMA Edition1Step ==
    ASSUME NoEa, IInv, FinishEdition1
    PROVE  IInv'
<1> DEFINE value == [inode EXCEPT !.stored_size = inode.size, !.compression = GlobalComp]
<1>1. pc = "stored" /\ pc \in Reading /\ format = 1
  BY DEF FinishEdition1, List, Lose, Reading
<1>2. format \in Nat /\ Has(entry, "stored") /\ inode = Sized(entry)
  BY <1>1, InProgress DEF Expected
<1>3. entry.type = "f" /\ inode.size = entry.size
  BY <1>2, ChangedKeeps DEF Has
<1>4. Ahead(pc, entry) = << >>
  BY <1>1 DEF Ahead, AheadStored
<1>5. value = Complete(entry)
  BY <1>1, <1>2, <1>3 DEF Complete, CompleteFile
<1>6. Plain(<< >>)
  BY EmptySeq DEF Plain
<1>7. List(pc, << >>, value)
  BY <1>1 DEF FinishEdition1
<1>8. QED
  BY <1>1, <1>4, <1>5, <1>6, <1>7, RowOfNone, PlainList

LEMMA LegacyStep ==
    ASSUME NoEa, IInv, FinishLegacy
    PROVE  IInv'
<1> DEFINE t == Token("inf", "stored_size", entry.stored_size, 5)
           u == Token("raw", "crc", 2, 2)
           row == <<t>> \o <<u>>
           value == [inode EXCEPT !.stored_size = legacy_stored(Val(1)),
                                  !.compression = GlobalComp, !.crc = 2]
<1>1. pc = "stored" /\ pc \in Reading /\ format \in 2..7
  BY DEF FinishLegacy, List, Lose, Reading
<1>2. entry \in EntryFields /\ format \in Nat /\ Has(entry, "stored") /\ inode = Sized(entry)
  BY <1>1, InProgress DEF Expected
<1>3. entry.type = "f" /\ inode.size = entry.size
  BY <1>2, ChangedKeeps DEF Has
<1>4. /\ t.field = "stored_size" /\ u.field = "crc" /\ t.value = entry.stored_size
      /\ Fits("inf", t) /\ Fits("raw", u)
  BY <1>2, EntryTypes, TokensOf DEF Token, FieldNames
<1>5. row = LegacyRow(entry)
  BY DEF LegacyRow, Inf, Raw
<1> HIDE DEF t, u
<1>6. RowOf(<<"inf", "raw">>, row) /\ Len(row) = 2 /\ row[1] = t /\ row[2] = u
  BY <1>4, RowOfTwo
<1> HIDE DEF row
<1>7. Plain(row)
  BY <1>4, <1>6 DEF Plain
<1>8. Ahead(pc, entry) = row
  BY <1>1, <1>5 DEF Ahead, AheadStored
<1>9. ASSUME \A j \in 1..Len(row) : Here(j) = row[j]
      PROVE  value = Complete(entry)
  <2>1. Val(1) = entry.stored_size
    BY <1>4, <1>6, <1>9 DEF Val
  <2>2. legacy_stored(Val(1)) = IF entry.stored_size = 0 THEN entry.size ELSE entry.stored_size
    BY <2>1, <1>3 DEF legacy_stored
  <2>3. format # 1
    BY <1>1
  <2>4. Complete(entry) =
          [Sized(entry) EXCEPT
              !.stored_size = IF entry.stored_size = 0 THEN entry.size ELSE entry.stored_size,
              !.compression = GlobalComp, !.crc = 2]
    BY <1>1, <1>3, <2>3 DEF Complete, CompleteFile
  <2>5. QED
    BY <2>2, <2>4, <1>2
<1>10. List(pc, <<"inf", "raw">>, value)
  BY <1>1 DEF FinishLegacy
<1>11. QED
  <2> HIDE DEF value
  <2>1. QED
    BY <1>1, <1>6, <1>7, <1>8, <1>9, <1>10, PlainList

LEMMA StoredStep ==
    ASSUME NoEa, IInv, ReadStored
    PROVE  IInv'
<1> DEFINE t == Token("inf", "stored_size", entry.stored_size, 5)
           u == Token("u8", "file_data_status", "none", 1)
           v == Token("u8", "compression", entry.compression, 1)
           row == <<t>> \o <<u>> \o <<v>>
           values == [inode EXCEPT !.stored_size = Val(1), !.compression = Val(3)]
<1>1. pc = "stored" /\ pc \in Reading /\ "crc" \in Reading /\ format >= 8
  BY DEF ReadStored, Call, Get, Lose, Reading
<1>2. format \in Nat /\ entry \in EntryFields /\ Has(entry, "stored") /\ inode = Sized(entry)
  BY <1>1, InProgress DEF Expected
<1>3. /\ t.field = "stored_size" /\ u.field = "file_data_status" /\ v.field = "compression"
      /\ t.value = entry.stored_size /\ v.value = entry.compression
      /\ Fits("inf", t) /\ Fits("u8", u) /\ Fits("u8", v)
  BY <1>2, EntryTypes, TokensOf, FixedValues DEF Token, FieldNames
<1>4. row = StoredRow(entry)
  BY DEF StoredRow, Inf, U8
<1> HIDE DEF t, u, v
<1>5. RowOf(<<"inf", "u8", "u8">>, row) /\ Len(row) = 3
      /\ row[1] = t /\ row[2] = u /\ row[3] = v
  BY <1>3, RowOfThree
<1> HIDE DEF row
<1>6. Plain(row)
  <2>1. \A j \in 1..3 : j = 1 \/ j = 2 \/ j = 3
    OBVIOUS
  <2>2. QED
    BY <2>1, <1>3, <1>5 DEF Plain
<1>7. Has(entry, "crc")
  BY <1>1, <1>2 DEF Has
<1>8. Ahead(pc, entry) = row \o Ahead("crc", entry)
  <2>1. format # 1 /\ ~(format <= 7)
    BY <1>1, <1>2
  <2>2. AheadStored(entry) = row \o AheadCrc(entry)
    BY <2>1, <1>4 DEF AheadStored
  <2>3. QED
    BY <1>1, <2>2 DEF Ahead
<1>9. ASSUME \A j \in 1..Len(row) : Here(j) = row[j]
      PROVE  values = Expected("crc", entry)
  <2>1. Val(1) = entry.stored_size /\ Val(3) = entry.compression
    BY <1>3, <1>5, <1>9 DEF Val
  <2>2. QED
    BY <2>1, <1>2 DEF Expected, Stored
<1>10. Call(pc, <<"inf", "u8", "u8">>, "crc", values)
  BY <1>1 DEF ReadStored
<1>11. QED
  <2> HIDE DEF values
  <2>1. QED
    BY <1>1, <1>5, <1>6, <1>7, <1>8, <1>9, <1>10, PlainCall

\* The width of a CRC, with what follows it.
LEMMA WidthAhead ==
    ASSUME NoEa, IInv, pc \in Reading, NEW t, NEW rest \in Seq(Tokens),
           Ahead(pc, entry) = <<t>> \o rest, Fits("inf", t)
    PROVE  /\ RowOf(<<"inf">>, <<t>>) /\ Len(<<t>>) = 1 /\ <<t>>[1] = t /\ Here(1) = t
           /\ Lies(at + 1, rest)
           /\ Excessive(t) => HasExcess(entry)
<1>1. RowOf(<<"inf">>, <<t>>) /\ Len(<<t>>) = 1 /\ <<t>>[1] = t /\ <<t>> \in Seq(Tokens)
  BY RowOfOne, OneToken DEF Fits
<1>2. at \in Nat /\ Lies(at, <<t>> \o rest) /\ start[current] < at
      /\ start[current] \in Nat /\ start[current + 1] \in Nat
      /\ at + Len(<<t>> \o rest) = start[current + 1] + 1
  BY InProgress
<1>3. Lies(at, <<t>>) /\ Lies(at + 1, rest) /\ Len(<<t>> \o rest) = 1 + Len(rest)
      /\ Len(rest) \in Nat
  <2> DEFINE row == <<t>>
  <2>1. row \in Seq(Tokens) /\ Len(row) = 1 /\ at \in Nat /\ Lies(at, row \o rest)
    BY <1>1, <1>2
  <2> HIDE DEF row
  <2>2. Lies(at, row) /\ Lies(at + Len(row), rest) /\ Len(row \o rest) = Len(row) + Len(rest)
        /\ Len(rest) \in Nat
    BY <2>1, LiesSplit
  <2>3. QED
    BY <2>1, <2>2 DEF row
<1>4. Here(1) = t
  BY <1>1, <1>3, HereIsRow
<1>5. ASSUME Excessive(t) PROVE HasExcess(entry)
  <2>1. at \in (start[current] + 1)..start[current + 1]
    <3> DEFINE a == start[current]
               b == start[current + 1]
               n == Len(rest)
    <3>1. at \in Nat /\ a \in Nat /\ b \in Nat /\ n \in Nat /\ a < at /\ at + (1 + n) = b + 1
      BY <1>2, <1>3
    <3> HIDE DEF a, b, n
    <3>2. at \in (a + 1)..b
      BY <3>1
    <3>3. QED
      BY <3>2 DEF a, b
  <2>2. stream[at] = t
    BY <1>2, <1>4 DEF Here
  <2>3. Constant /\ current \in 1..Len(written)
    BY InProgress DEF IInv
  <2>4. QED
    BY <2>1, <2>2, <2>3, <1>5, ExcessOfEntry DEF entry
<1>6. QED
  BY <1>1, <1>3, <1>4, <1>5

\* One token read, or two, of which none is too large.
LEMMA OneClean ==
    ASSUME NEW t, at \in Nat, Here(1) = t, ~Excessive(t)
    PROVE  Clean(at, at + 1)
<1>1. at + 1 - 1 = at /\ \A i \in at..((at + 1) - 1) : i = at
  OBVIOUS
<1>2. \A i \in at..((at + 1) - 1) : ~Excessive(stream[i])
  BY <1>1 DEF Here
<1>3. QED
  BY <1>2, Zenon DEF Clean

LEMMA TwoClean ==
    ASSUME NEW t, NEW u, at \in Nat, Here(1) = t, Here(2) = u, ~Excessive(t), ~Excessive(u)
    PROVE  Clean(at, at + 2)
<1>1. stream[at] = t /\ stream[at + 1] = u
  <2>1. at + 1 - 1 = at /\ at + 2 - 1 = at + 1
    OBVIOUS
  <2>2. QED
    BY <2>1 DEF Here
<1>2. \A i \in at..((at + 2) - 1) : i = at \/ i = at + 1
  OBVIOUS
<1>3. QED
  BY <1>1, <1>2 DEF Clean

\* A CRC is too large for nothing.
LEMMA RawIsClean ==
    ASSUME NEW field \in {"crc", "fsa_crc"}, NEW n
    PROVE  ~Excessive(Token("raw", field, n, n))
BY DEF Excessive, Token

LEMMA CrcAhead ==
    ASSUME NoEa, IInv, pc = "crc"
    PROVE  LET t == Token("inf", "crc_width", entry.crc_width, 5) IN
           /\ entry \in EntryFields /\ pc \in Reading /\ Fits("inf", t)
           /\ t.value = entry.crc_width /\ t.field = "crc_width"
           /\ Raw("crc", entry.crc_width) \in Seq(Tokens)
           /\ Ahead(pc, entry) = <<t>> \o Raw("crc", entry.crc_width)
           /\ entry.type = "f" /\ format \in Nat /\ format >= 8 /\ inode = Stored(entry)
<1>1. pc \in Reading
  BY DEF Reading
<1>2. entry \in EntryFields /\ format \in Nat /\ Has(entry, "crc") /\ inode = Expected("crc", entry)
  BY <1>1, InProgress
<1>3. entry.crc_width \in Nat /\ "crc" \in FieldNames /\ "crc_width" \in FieldNames
  BY <1>2, EntryTypes DEF FieldNames
<1>4. Fits("inf", Token("inf", "crc_width", entry.crc_width, 5))
      /\ Raw("crc", entry.crc_width) \in Seq(Tokens)
  BY <1>3, TokensOf, Rows
<1>5. Ahead(pc, entry) = <<Token("inf", "crc_width", entry.crc_width, 5)>> \o Raw("crc", entry.crc_width)
  BY DEF Ahead, AheadCrc, Inf
<1>6. inode = Stored(entry) /\ entry.type = "f" /\ format >= 8
  BY <1>2 DEF Expected, Has
<1>7. QED
  BY <1>1, <1>2, <1>4, <1>5, <1>6 DEF Token

LEMMA CrcTooWideStep ==
    ASSUME NoEa, IInv, CrcTooWide
    PROVE  IInv'
<1> DEFINE t == Token("inf", "crc_width", entry.crc_width, 5)
           rest == Raw("crc", entry.crc_width)
<1>1. pc = "crc" /\ TooWide(crc_width) /\ pc' = "corrupt"
      /\ UNCHANGED <<format, written, end, at, inode, listed>>
  BY DEF CrcTooWide
<1>2. pc \in Reading /\ Fits("inf", t) /\ rest \in Seq(Tokens) /\ Ahead(pc, entry) = <<t>> \o rest
      /\ t.value = entry.crc_width /\ t.field = "crc_width"
  BY <1>1, CrcAhead
<1> HIDE DEF t, rest
<1>3. Here(1) = t /\ (Excessive(t) => HasExcess(entry))
  BY <1>2, WidthAhead
<1>4. Val(1) = t.value
  BY <1>3 DEF Val
<1>5. ~(0 > MAX_CRC_SIZE)
  BY FieldConstants
<1>6. t.value > MAX_CRC_SIZE
  BY <1>1, <1>4, <1>5 DEF TooWide, crc_width
<1>7. Excessive(t)
  BY <1>2, <1>6 DEF Excessive
<1>8. QED
  BY <1>1, <1>2, <1>3, <1>7, CorruptStep

LEMMA FinishFileStep ==
    ASSUME NoEa, IInv, FinishFile
    PROVE  IInv'
<1> DEFINE t == Token("inf", "crc_width", entry.crc_width, 5)
           rest == Raw("crc", entry.crc_width)
           u == Token("raw", "crc", entry.crc_width, entry.crc_width)
<1>1. pc = "crc" /\ ~TooWide(crc_width)
  BY DEF FinishFile, List, Lose
<1>2. /\ pc \in Reading /\ Fits("inf", t) /\ rest \in Seq(Tokens)
      /\ Ahead(pc, entry) = <<t>> \o rest
      /\ t.value = entry.crc_width /\ t.field = "crc_width" /\ t.kind = "inf"
      /\ entry \in EntryFields /\ entry.type = "f"
      /\ format \in Nat /\ format >= 8 /\ inode = Stored(entry)
  BY <1>1, CrcAhead DEF Token
<1>3. entry.crc_width \in Nat /\ WORD \in Nat /\ MAX_CRC_SIZE \in Nat /\ MAX_CRC_SIZE < WORD
  BY <1>2, EntryTypes, FieldConstants
<1>4. Complete(entry) = IF entry.crc_width = 0 THEN Stored(entry)
                        ELSE [Stored(entry) EXCEPT !.crc = entry.crc_width]
  <2>1. format # 1 /\ format \notin 2..7
    BY <1>2
  <2>2. QED
    BY <1>2, <2>1 DEF Complete, CompleteFile
<1>5. /\ RowOf(<<"inf">>, <<t>>) /\ Len(<<t>>) = 1 /\ <<t>>[1] = t /\ Here(1) = t
      /\ Lies(at + 1, rest) /\ at \in Nat
  <2> HIDE DEF t, rest
  <2>1. QED
    BY <1>2, WidthAhead, InProgress
<1>6. Val(1) = entry.crc_width
  BY <1>5, <1>2 DEF Val
<1>7. Reads(<<"inf">>) => ~Excessive(t)
  <2>1. ASSUME Reads(<<"inf">>) PROVE ~Excessive(t)
    <3>1. Good(<<"inf">>, 1)
      BY <2>1 DEF Reads
    <3>2. entry.crc_width < WORD
      BY <3>1, <1>5, <1>2 DEF Good, FitsWord
    <3>3. ~(entry.crc_width > MAX_CRC_SIZE)
      BY <1>1, <1>6, <2>1 DEF TooWide, crc_width
    <3> HIDE DEF t
    <3>4. QED
      BY <3>2, <3>3, <1>2, <1>3 DEF Excessive
  <2>2. QED
    BY <2>1
<1>8. CASE crc_width = 0
  <2>1. List("crc", <<"inf">>, inode)
    BY <1>8 DEF FinishFile
  <2>2. CASE Lose(pc, <<"inf">>)
    <3> HIDE DEF t, rest
    <3>1. QED
      BY <2>2, <1>2, <1>5, LoseStep
  <2>3. CASE Reads(<<"inf">>)
    <3>1. entry.crc_width = 0
      BY <2>3, <1>6, <1>8 DEF crc_width
    <3>2. rest = << >> /\ Ahead(pc, entry) = <<t>>
      <4>1. rest = << >>
        BY <3>1 DEF Raw
      <4>2. <<t>> \in Seq(Tokens)
        BY <1>5 DEF RowOf
      <4>3. QED
        BY <4>1, <4>2, <1>2, Empty
    <3>3. Clean(at, at + 1)
      <4> HIDE DEF t
      <4>1. ~Excessive(t) /\ at \in Nat /\ Here(1) = t
        BY <1>5, <1>7, <2>3
      <4>2. QED
        BY <4>1, OneClean
    <3>4. inode = Complete(entry)
      BY <3>1, <1>2, <1>4
    <3>5. List(pc, <<"inf">>, inode)
      BY <2>1, <1>1
    <3> HIDE DEF t, rest
    <3>6. QED
      BY <3>2, <3>3, <3>4, <3>5, <1>2, <1>5, ListStep
  <2>4. QED
    BY <2>1, <2>2, <2>3, <1>1 DEF List
<1>9. CASE crc_width # 0
  <2>1. List("crc", <<"inf", "raw">>, [inode EXCEPT !.crc = Val(2)])
    BY <1>9 DEF FinishFile
  <2>2. Reads(<<"inf">>) /\ entry.crc_width # 0 /\ ~Excessive(t)
    BY <1>9, <1>6, <1>7 DEF crc_width
  <2>3. rest = <<u>>
    BY <2>2 DEF Raw
  <2>4. Fits("raw", u) /\ ~Excessive(u) /\ u.value = entry.crc_width
    BY <1>3, TokensOf, RawIsClean DEF FieldNames, Token
  <2> HIDE DEF t, u, rest
  <2>5. RowOf(<<"inf", "raw">>, <<t>> \o <<u>>) /\ Len(<<t>> \o <<u>>) = 2
    BY <1>2, <2>4, RowOfTwo
  <2>6. Ahead(pc, entry) = <<t>> \o <<u>>
    BY <1>2, <2>3
  <2>7. Here(2) = u
    <3>1. Len(<<u>>) = 1 /\ <<u>>[1] = u /\ (at + 1) + 1 - 1 = at + 2 - 1
      BY <1>5
    <3>2. stream[(at + 1) + 1 - 1] = u
      BY <3>1, <2>3, <1>5 DEF Lies
    <3>3. QED
      BY <3>1, <3>2 DEF Here
  <2>8. Clean(at, at + 2)
    BY <1>5, <2>2, <2>4, <2>7, TwoClean
  <2>9. [inode EXCEPT !.crc = Val(2)] = Complete(entry)
    <3>1. Val(2) = entry.crc_width
      BY <2>4, <2>7 DEF Val
    <3>2. QED
      BY <3>1, <2>2, <1>2, <1>4
  <2>10. List(pc, <<"inf", "raw">>, [inode EXCEPT !.crc = Val(2)])
    BY <2>1, <1>1
  <2>11. QED
    BY <2>5, <2>6, <2>8, <2>9, <2>10, <1>2, ListStep
<1>10. QED
  BY <1>8, <1>9

LEMMA SkipFsaStep ==
    ASSUME NoEa, IInv, SkipFsa
    PROVE  IInv'
<1> DEFINE t == Token("inf", "fsa_crc_width", entry.fsa_crc_width, 5)
           raw == Raw("fsa_crc", entry.fsa_crc_width)
           u == Token("raw", "fsa_crc", entry.fsa_crc_width, entry.fsa_crc_width)
           after == Ahead("rest", entry)
           rest == raw \o after
           size == Val(1)
<1>1. pc = "fsa size" /\ pc \in Reading /\ "rest" \in Reading
  BY DEF SkipFsa, Lose, Reading
<1>2. entry \in EntryFields /\ format \in Nat /\ Has(entry, "fsa size") /\ inode = Changed(entry)
      /\ at \in Nat
  BY <1>1, InProgress DEF Expected
<1>3. entry.fsa_crc_width \in Nat /\ "fsa_crc" \in FieldNames /\ "fsa_crc_width" \in FieldNames
  BY <1>2, EntryTypes DEF FieldNames
<1>4. /\ Fits("inf", t) /\ t.value = entry.fsa_crc_width /\ t.field = "fsa_crc_width"
      /\ t.kind = "inf" /\ raw \in Seq(Tokens) /\ after \in Seq(Tokens)
  BY <1>2, <1>3, TokensOf, Rows, AheadTypes DEF Token, Ahead
<1>5. Ahead(pc, entry) = (<<t>> \o raw) \o after
  BY <1>1 DEF Ahead, AheadFsaSize, FsaSizeRow, Inf
<1>6. Has(entry, "rest") /\ inode = Expected("rest", entry)
  BY <1>2 DEF Has, Expected
<1>7. u.width = entry.fsa_crc_width /\ (entry.fsa_crc_width # 0 => Fits("raw", u)) /\ ~Excessive(u)
      /\ raw = IF entry.fsa_crc_width = 0 THEN << >> ELSE <<u>>
  BY <1>3, TokensOf, RawIsClean DEF Token, Raw
<1> HIDE DEF t, raw, after, u
<1>8. Ahead(pc, entry) = <<t>> \o rest /\ rest \in Seq(Tokens) /\ <<t>> \in Seq(Tokens)
  <2>1. <<t>> \in Seq(Tokens)
    BY <1>4, OneToken DEF Fits
  <2>2. rest \in Seq(Tokens)
    BY <1>4, Concat
  <2>3. (<<t>> \o raw) \o after = <<t>> \o (raw \o after)
    BY <2>1, <1>4, Associates
  <2>4. QED
    BY <2>1, <2>2, <2>3, <1>5
<1>9. /\ RowOf(<<"inf">>, <<t>>) /\ Len(<<t>>) = 1 /\ <<t>>[1] = t /\ Here(1) = t
      /\ Lies(at + 1, rest) /\ (Excessive(t) => HasExcess(entry))
  <2> HIDE DEF rest
  <2>1. QED
    BY <1>1, <1>4, <1>8, WidthAhead
<1>10. size = entry.fsa_crc_width
  BY <1>4, <1>9 DEF Val
<1>11. CASE Lose("fsa size", <<"inf">>)
  <2> HIDE DEF rest
  <2>1. QED
    BY <1>1, <1>8, <1>9, <1>11, LoseStep
<1>12. CASE /\ SkipsTooFar(size) /\ pc' = "corrupt"
            /\ UNCHANGED <<format, written, end, at, inode, listed>>
  <2>1. Excessive(t)
    <3>1. WORD \in Nat /\ WORD \div 2 \in Nat
      BY FieldConstants
    <3> DEFINE half == WORD \div 2
    <3> HIDE DEF half
    <3>2. entry.fsa_crc_width > half - 1 /\ half \in Nat
      BY <3>1, <1>10, <1>12 DEF SkipsTooFar, half
    <3>3. entry.fsa_crc_width >= half
      BY <3>2, <1>3
    <3>4. QED
      BY <3>3, <1>4 DEF Excessive, half
  <2>2. QED
    BY <2>1, <1>1, <1>9, <1>12, CorruptStep
<1>13. CASE /\ Reads(<<"inf">>) /\ ~SkipsTooFar(size)
            /\ pc' = IF size = 0 \/ Here(2).width = size THEN "rest" ELSE "misread"
            /\ at' = IF size = 0 THEN at + 1 ELSE at + 2
            /\ UNCHANGED <<format, written, end, inode, listed>>
  <2>1. ~Excessive(t)
    <3>1. entry.fsa_crc_width < WORD
      BY <1>13, <1>9, <1>4 DEF Reads, Good, FitsWord
    <3>2. WORD \in Nat /\ WORD \div 2 \in Nat
      BY FieldConstants
    <3> DEFINE half == WORD \div 2
    <3> HIDE DEF half
    <3>3. ~(entry.fsa_crc_width > half - 1) /\ half \in Nat
      BY <3>2, <1>10, <1>13 DEF SkipsTooFar, half
    <3>4. ~(entry.fsa_crc_width >= half) /\ ~(entry.fsa_crc_width >= WORD)
      BY <3>1, <3>2, <3>3, <1>3
    <3>5. QED
      BY <3>4, <1>4 DEF Excessive, half
  <2>2. CASE size = 0
    <3>1. raw = << >>
      BY <2>2, <1>7, <1>10
    <3>2. Ahead(pc, entry) = <<t>> \o after
      BY <3>1, <1>4, <1>8, Empty
    <3>3. Clean(at, at + 1)
      BY <2>1, <1>2, <1>9, OneClean
    <3>4. pc' = "rest" /\ at' = at + Len(<<t>>) /\ inode' = Expected("rest", entry)
          /\ UNCHANGED <<format, written, end, listed>> /\ Clean(at, at + Len(<<t>>))
      BY <1>6, <1>9, <1>13, <2>2, <3>3
    <3>5. QED
      BY <3>2, <3>4, <1>1, <1>4, <1>6, <1>8, AdvanceStep DEF after
  <2>3. CASE size # 0
    <3> DEFINE row == <<t>> \o <<u>>
    <3>1. raw = <<u>> /\ Fits("raw", u)
      BY <2>3, <1>7, <1>10
    <3>2. Ahead(pc, entry) = row \o after
      BY <3>1, <1>5
    <3>3. row \in Seq(Tokens) /\ Len(row) = 2
      <4>1. LET s == <<t>> \o <<u>> IN RowOf(<<"inf", "raw">>, s) /\ Len(s) = 2
        BY <3>1, <1>4, RowOfTwo
      <4>2. QED
        BY <4>1 DEF RowOf
    <3> HIDE DEF row
    <3>4. Here(2) = u
      <4> DEFINE one == <<u>>
      <4>1. one \in Seq(Tokens) /\ Len(one) = 1 /\ one[1] = u
        BY <3>1, OneToken DEF Fits
      <4>2. at \in Nat
        BY <1>2
      <4>3. Lies(at + 1, one \o after)
        BY <3>1, <1>9
      <4> HIDE DEF one, rest, size
      <4>4. at + 1 \in Nat /\ (at + 1) + 1 - 1 = at + 2 - 1
        BY <4>2
      <4>5. Lies(at + 1, one)
        BY <4>1, <4>3, <4>4, <1>4, LiesSplit
      <4>6. stream[(at + 1) + 1 - 1] = u
        BY <4>1, <4>5 DEF Lies
      <4>7. QED
        BY <4>4, <4>6 DEF Here
    <3>5. Clean(at, at + 2)
      BY <3>4, <2>1, <1>2, <1>7, <1>9, TwoClean
    <3>6. pc' = "rest" /\ at' = at + Len(row) /\ inode' = Expected("rest", entry)
          /\ UNCHANGED <<format, written, end, listed>> /\ Clean(at, at + Len(row))
      BY <3>3, <3>4, <3>5, <1>6, <1>7, <1>10, <1>13, <2>3
    <3>7. QED
      BY <3>2, <3>3, <3>6, <1>1, <1>4, <1>6, AdvanceStep DEF after
  <2>4. QED
    BY <2>2, <2>3
<1>14. QED
  BY <1>11, <1>12, <1>13 DEF SkipFsa

\* The tokens of a timestamp.  One without subseconds is one row in every
\* format; one with them, of which the end of the file hides the unit, is
\* taken for one without, and then fails at its unit.
ReadsTime(row, seconds) ==
    \/ RowOf(time_kinds, row) /\ Plain(row) /\ Here(seconds_at).value = seconds
    \/ /\ ~(at <= end)
       /\ \E first \in Seq(Tokens), last \in Seq(Tokens) :
             RowOf(time_kinds, first) /\ row = first \o last

LEMMA TimeTokens ==
    ASSUME NEW field \in {"atime", "mtime", "ctime"}, NEW seconds \in Nat,
           NEW unit \in {"s", "n", "u"}, format \in Nat, at \in Nat, end \in Nat,
           Lies(at, WrittenTime(field, seconds, unit))
    PROVE  ReadsTime(WrittenTime(field, seconds, unit), seconds)
<1> DEFINE row == WrittenTime(field, seconds, unit)
<1> SUFFICES ReadsTime(row, seconds)
  OBVIOUS
<1> DEFINE t == Token("u8", "unit", unit, 1)
           u == Token("inf", field, seconds, 5)
           v == Token("inf", "subsecond", 0, 5)
<1>1. field \in FieldNames /\ field \notin {"crc_width", "fsa_crc_width"}
  BY DEF FieldNames
<1>2. /\ t.field = "unit" /\ u.field = field /\ v.field = "subsecond"
      /\ t.value = unit /\ u.value = seconds
  BY DEF Token
<1>3. Fits("u8", t) /\ Fits("inf", u) /\ Fits("inf", v)
  <2>1. Fits("u8", t)
    BY TokensOf, FixedValues DEF FieldNames
  <2>2. Fits("inf", u)
    BY <1>1, TokensOf
  <2>3. Fits("inf", v)
    BY TokensOf DEF FieldNames
  <2>4. QED
    BY <2>1, <2>2, <2>3
<1>4. \A kinds : RowOf(kinds, row) => \A j \in 1..Len(row) : Here(j) = row[j]
  BY HereIsRow
<1> HIDE DEF row
<1>5. CASE format < 9
  <2>1. row = <<u>> /\ time_kinds = <<"inf">> /\ seconds_at = 1
    BY <1>1, <1>5, TimeRow DEF row, Inf, time_kinds, seconds_at
  <2> HIDE DEF u
  <2>2. RowOf(<<"inf">>, <<u>>) /\ Len(<<u>>) = 1 /\ <<u>>[1] = u
    BY <1>3, RowOfOne
  <2>3. RowOf(time_kinds, row) /\ Len(row) = 1 /\ row[1] = u
    BY <2>1, <2>2
  <2>4. Plain(row)
    BY <2>3, <1>1, <1>2 DEF Plain
  <2>5. QED
    BY <2>1, <2>3, <2>4, <1>2, <1>4 DEF ReadsTime
<1>6. CASE ~(format < 9)
  <2>1. format >= 9 /\ seconds_at = 2
    BY <1>6 DEF seconds_at
  <2>2. row = IF unit = "s" THEN <<t>> \o <<u>> ELSE <<t>> \o <<u>> \o <<v>>
    BY <1>1, <2>1, TimeRow DEF row, Inf, U8
  <2> DEFINE two == <<t>> \o <<u>>
             three == <<t>> \o <<u>> \o <<v>>
  <2> HIDE DEF t, u, v
  <2>3. RowOf(<<"u8", "inf">>, two) /\ Len(two) = 2 /\ two[1] = t /\ two[2] = u
    BY <1>3, RowOfTwo
  <2>4. RowOf(<<"u8", "inf", "inf">>, three) /\ Len(three) = 3
        /\ three[1] = t /\ three[2] = u /\ three[3] = v
    BY <1>3, RowOfThree
  <2>5. <<v>> \in Seq(Tokens) /\ two \in Seq(Tokens) /\ three = two \o <<v>>
    BY <1>3, <2>3, OneToken DEF Fits, RowOf
  <2> HIDE DEF two, three
  <2>6. row = IF unit = "s" THEN two ELSE three
    BY <2>2 DEF two, three
  <2>7. Here(1) = t /\ Here(2) = u
    <3>1. CASE unit = "s"
      <4>1. row = two
        BY <3>1, <2>6
      <4>2. QED
        BY <4>1, <2>3, <1>4
    <3>2. CASE unit # "s"
      <4>1. row = three
        BY <3>2, <2>6
      <4>2. QED
        BY <4>1, <2>4, <1>4
    <3>3. QED
      BY <3>1, <3>2
  <2>8. CASE unit = "s"
    <3>1. time_kinds = <<"u8", "inf">> /\ row = two
      BY <2>6, <2>7, <2>8, <1>2, <1>6 DEF time_kinds, Val
    <3>2. Plain(row)
      BY <3>1, <2>3, <1>1, <1>2 DEF Plain
    <3>3. QED
      BY <3>1, <3>2, <2>1, <2>3, <2>7, <1>2 DEF ReadsTime
  <2>9. CASE unit # "s" /\ at <= end
    <3>1. time_kinds = <<"u8", "inf", "inf">> /\ row = three
      BY <2>6, <2>7, <2>9, <1>2, <1>6 DEF time_kinds, Val
    <3>2. \A j \in 1..3 : j = 1 \/ j = 2 \/ j = 3
      OBVIOUS
    <3>3. Plain(row)
      BY <3>1, <3>2, <2>4, <1>1, <1>2 DEF Plain
    <3>4. QED
      BY <3>1, <3>3, <2>1, <2>4, <2>7, <1>2 DEF ReadsTime
  <2>10. CASE unit # "s" /\ ~(at <= end)
    <3>1. time_kinds = <<"u8", "inf">> /\ row = three
      BY <2>6, <2>10, <1>6 DEF time_kinds
    <3>2. QED
      BY <3>1, <2>3, <2>5, <2>10 DEF ReadsTime
  <2>11. QED
    BY <2>8, <2>9, <2>10
<1>7. QED
  BY <1>5, <1>6

LEMMA TimeStep ==
    ASSUME NoEa, IInv, pc \in Reading, NEW field \in {"atime", "mtime", "ctime"}, field = pc,
           NEW seconds \in Nat, NEW then \in Reading, Has(entry, then),
           Ahead(pc, entry) = WrittenTime(field, seconds, entry.unit) \o Ahead(then, entry),
           [inode EXCEPT ![field] = as_i64(seconds)] = Expected(then, entry),
           ReadTime(field, then)
    PROVE  IInv'
<1> DEFINE after == Ahead(then, entry)
           values == [inode EXCEPT ![field] = as_i64(Val(seconds_at))]
           row == WrittenTime(field, seconds, entry.unit)
<1>1. format \in Nat /\ entry \in EntryFields /\ at \in Nat /\ end \in Nat
      /\ entry.unit \in {"s", "n", "u"}
  <2>1. entry \in EntryFields
    BY InProgress
  <2>2. QED
    BY <2>1, InProgress, EntryTypes
<1>2. Call(pc, time_kinds, then, values)
  BY DEF ReadTime
<1>3. after \in Seq(Tokens) /\ row \in Seq(Tokens) /\ Lies(at, row)
  <2>1. << >> \in Seq(Tokens) /\ AheadCrc(entry) \in Seq(Tokens)
    BY <1>1, RowTypes, EmptySeq
  <2>2. after \in Seq(Tokens)
    BY <1>1, <2>1, AheadTypes DEF Ahead
  <2>3. field \in FieldNames
    BY DEF FieldNames
  <2>4. row \in Seq(Tokens)
    BY <1>1, <2>3, TimeRow
  <2> HIDE DEF row, after
  <2>5. Ahead(pc, entry) = row \o after
    BY DEF row, after
  <2>6. Lies(at, row \o after)
    BY <2>5, InProgress
  <2>7. QED
    BY <2>2, <2>4, <2>6, <1>1, LiesSplit
<1>4. CASE RowOf(time_kinds, row) /\ Plain(row) /\ Here(seconds_at).value = seconds
  <2>1. values = Expected(then, entry)
    BY <1>4 DEF Val
  <2> HIDE DEF row, values
  <2>2. Ahead(pc, entry) = row \o Ahead(then, entry)
    BY DEF row
  <2>3. QED
    BY <2>1, <2>2, <1>2, <1>4, PlainCall
<1>5. ASSUME ~(at <= end), NEW first \in Seq(Tokens), NEW last \in Seq(Tokens),
             RowOf(time_kinds, first), row = first \o last
      PROVE  IInv'
  <2>1. ~Reads(time_kinds)
    <3>1. 1 \in DOMAIN time_kinds
      BY DEF time_kinds
    <3>2. ~Stands(time_kinds, 1)
      <4>1. at + 1 - 1 = at
        BY <1>1
      <4>2. QED
        BY <4>1, <1>5 DEF Stands
    <3>3. QED
      BY <3>1, <3>2 DEF Reads, Good
  <2>2. Lose(pc, time_kinds)
    BY <2>1, <1>2 DEF Call, Get
  <2> HIDE DEF after, row
  <2>3. last \o after \in Seq(Tokens) /\ (first \o last) \o after = first \o (last \o after)
    <3>1. after \in Seq(Tokens) /\ first \in Seq(Tokens) /\ last \in Seq(Tokens)
      BY <1>3, <1>5
    <3>2. (first \o last) \o after = first \o (last \o after)
      BY <3>1, Associates, Zenon
    <3>3. last \o after \in Seq(Tokens)
      BY <3>1, Concat
    <3>4. QED
      BY <3>2, <3>3, Zenon
  <2>4. Ahead(pc, entry) = first \o (last \o after)
    BY <2>3, <1>5 DEF after, row
  <2>5. QED
    BY <2>2, <2>3, <2>4, <1>5, LoseStep
<1>6. QED
  <2>1. format \in Nat /\ at \in Nat /\ end \in Nat /\ entry.unit \in {"s", "n", "u"}
        /\ Lies(at, row)
    BY <1>1, <1>3
  <2>2. ReadsTime(row, seconds)
    BY <2>1, TimeTokens
  <2> HIDE DEF row
  <2>3. QED
    BY <2>2, <1>4, <1>5 DEF ReadsTime

\* The flags decide what follows the times.
LEMMA ModifiedFlags ==
    ASSUME NEW e, format >= 2
    PROVE  Modified(e).flags = e.flags
BY DEF Modified, Accessed, Moded, Owned, Flagged, Named, Typed, Blank

LEMMA TimesStep ==
    ASSUME NoEa, IInv, ReadTimes
    PROVE  IInv'
<1>1. CASE ReadTime("atime", "mtime")
  <2>1. pc = "atime" /\ pc \in Reading /\ "mtime" \in Reading
    BY <1>1 DEF ReadTime, Call, Get, Lose, Reading
  <2>2. entry \in EntryFields /\ Has(entry, pc) /\ inode = Expected(pc, entry)
    BY <2>1, InProgress
  <2>3. entry.atime \in Nat
    BY <2>2, EntryTypes
  <2>4. Has(entry, "mtime")
    BY <2>1, <2>2 DEF Has
  <2>5. Ahead(pc, entry) = WrittenTime("atime", entry.atime, entry.unit) \o Ahead("mtime", entry)
    BY <2>1 DEF Ahead, AheadAtime
  <2>6. [inode EXCEPT !["atime"] = as_i64(entry.atime)] = Expected("mtime", entry)
    BY <2>1, <2>2 DEF Expected, Accessed
  <2>7. "atime" \in {"atime", "mtime", "ctime"}
    OBVIOUS
  <2>8. QED
    BY <1>1, <2>1, <2>3, <2>4, <2>5, <2>6, <2>7, TimeStep
<1>2. CASE ReadTime("mtime", IF format >= 8 THEN "ctime" ELSE after_times)
  <2> DEFINE then == IF format >= 8 THEN "ctime" ELSE after_times
  <2>1. pc = "mtime" /\ pc \in Reading
    BY <1>2 DEF ReadTime, Call, Get, Lose, Reading
  <2>2. entry \in EntryFields /\ format \in Nat /\ Has(entry, pc) /\ inode = Expected(pc, entry)
    BY <2>1, InProgress
  <2>3. entry.mtime \in Nat
    BY <2>2, EntryTypes
  <2>4. format < 8 => then = "rest" /\ ~(format >= 8) /\ ~(format >= 9)
    BY <2>2 DEF after_times
  <2>5. format >= 8 => then = "ctime"
    OBVIOUS
  <2>6. format >= 8 \/ format < 8
    BY <2>2
  <2> HIDE DEF then
  <2>7. then \in Reading
    BY <2>4, <2>5, <2>6 DEF Reading
  <2>8. Has(entry, then)
    BY <2>1, <2>2, <2>4, <2>5, <2>6 DEF Has
  <2>9. Ahead(pc, entry) = WrittenTime("mtime", entry.mtime, entry.unit) \o Ahead(then, entry)
    <3>1. AfterMtime(entry) = Ahead(then, entry)
      <4>1. CASE format >= 8
        BY <4>1, <2>5 DEF AfterMtime, Ahead
      <4>2. CASE format < 8
        BY <4>2, <2>4 DEF AfterMtime, AfterTimes, Ahead
      <4>3. QED
        BY <4>1, <4>2, <2>6
    <3>2. Ahead(pc, entry) = AheadMtime(entry)
      BY <2>1 DEF Ahead
    <3>3. QED
      BY <3>1, <3>2 DEF AheadMtime
  <2>10. [inode EXCEPT !["mtime"] = as_i64(entry.mtime)] = Expected(then, entry)
    <3>1. inode = Accessed(entry)
      BY <2>1, <2>2 DEF Expected
    <3>2. Expected(then, entry) = Modified(entry)
      BY <2>4, <2>5, <2>6 DEF Expected, Changed
    <3>3. QED
      BY <3>1, <3>2 DEF Modified
  <2>11. ReadTime("mtime", then) /\ "mtime" \in {"atime", "mtime", "ctime"}
    BY <1>2 DEF then
  <2>12. QED
    BY <2>1, <2>3, <2>7, <2>8, <2>9, <2>10, <2>11, TimeStep
<1>3. CASE ReadTime("ctime", after_times)
  <2> DEFINE then == after_times
  <2>1. pc = "ctime" /\ pc \in Reading
    BY <1>3 DEF ReadTime, Call, Get, Lose, Reading
  <2>2. entry \in EntryFields /\ format \in Nat /\ Has(entry, pc) /\ inode = Expected(pc, entry)
    BY <2>1, InProgress
  <2>3. entry.ctime \in Nat
    BY <2>2, EntryTypes
  <2>4. format >= 8 /\ format >= 2 /\ inode = Modified(entry)
    BY <2>1, <2>2 DEF Has, Expected
  <2>5. inode.flags = entry.flags
    BY <2>4, ModifiedFlags
  <2>6. then = IF format >= 9 /\ HasFsa(entry.flags) THEN "fsa" ELSE "rest"
    BY <2>5 DEF after_times
  <2> HIDE DEF then
  <2>7. then \in Reading /\ then \in {"fsa", "rest"}
    BY <2>6 DEF Reading
  <2>8. Has(entry, then)
    BY <2>1, <2>2, <2>7 DEF Has
  <2>9. Ahead(pc, entry) = WrittenTime("ctime", entry.ctime, entry.unit) \o Ahead(then, entry)
    <3>1. AfterTimes(entry) = Ahead(then, entry)
      BY <2>6 DEF AfterTimes, Ahead
    <3>2. Ahead(pc, entry) = AheadCtime(entry)
      BY <2>1 DEF Ahead
    <3>3. QED
      BY <3>1, <3>2 DEF AheadCtime
  <2>10. [inode EXCEPT !["ctime"] = as_i64(entry.ctime)] = Expected(then, entry)
    <3>1. Expected(then, entry) = Changed(entry)
      BY <2>7 DEF Expected
    <3>2. QED
      BY <3>1, <2>4 DEF Changed
  <2>11. ReadTime("ctime", then) /\ "ctime" \in {"atime", "mtime", "ctime"}
    BY <1>3 DEF then
  <2>12. QED
    BY <2>1, <2>3, <2>7, <2>8, <2>9, <2>10, <2>11, TimeStep
<1>4. QED
  BY <1>1, <1>2, <1>3 DEF ReadTimes

\* Between two entries the next token is the type of the next, or the end mark.
LEMMA AtType ==
    ASSUME NoEa, IInv, pc = "type"
    PROVE  /\ format \in Nat \ {0} /\ Len(written) \in Nat /\ Len(stream) \in Nat /\ end \in Nat
           /\ current \in 1..(Len(written) + 1) /\ at \in Nat /\ at = start[current] + 1
           /\ at <= Len(stream)
           /\ current = Len(written) + 1 => Here(1) = Token("u8", "type", "z", 1)
           /\ current \in 1..Len(written) =>
                 /\ entry \in EntryFields /\ ~HasEa(entry.flags)
                 /\ Here(1) = Token("u8", "type", entry.type, 1)
                 /\ start[current + 1] = start[current] + Len(WrittenEntry(entry))
                 /\ Lies(at, WrittenEntry(entry))
<1>1. format \in Formats /\ written \in Catalogues /\ end \in 0..Len(stream)
  BY DEF IInv, Constant
<1>2. format \in Nat \ {0} /\ Len(written) \in Nat
  BY <1>1, WrittenTypes
<1>3. Len(stream) \in Nat
  BY <1>1, Layout
<1>4. current \in 1..(Len(written) + 1)
  BY <1>2 DEF IInv, ListedSoFar, current
<1>5. at = start[current] + 1
  BY DEF IInv, InStep
<1>6. start[current] \in Nat /\ start[current] + 1 <= Len(stream)
  BY <1>1, <1>4, Layout
<1>7. at \in Nat /\ at <= Len(stream) /\ end \in Nat /\ at + 1 - 1 = at
  BY <1>1, <1>3, <1>5, <1>6
<1>8. ASSUME current = Len(written) + 1 PROVE Here(1) = Token("u8", "type", "z", 1)
  <2>1. stream[start[current] + 1] = Token("u8", "type", "z", 1)
    BY <1>1, <1>8, Layout
  <2>2. QED
    BY <2>1, <1>5, <1>7 DEF Here
<1>9. ASSUME current \in 1..Len(written)
      PROVE  /\ entry \in EntryFields /\ ~HasEa(entry.flags)
             /\ Here(1) = Token("u8", "type", entry.type, 1)
             /\ start[current + 1] = start[current] + Len(WrittenEntry(entry))
             /\ Lies(at, WrittenEntry(entry))
  <2>1. entry \in EntryFields /\ ~HasEa(entry.flags)
    BY <1>1, <1>9, WrittenTypes DEF entry
  <2>2. start[current + 1] = start[current] + Len(WrittenEntry(entry))
        /\ Lies(start[current] + 1, WrittenEntry(entry))
    BY <1>1, <1>9, Layout DEF entry
  <2>3. Len(WrittenEntry(entry)) \in Nat \ {0}
        /\ WrittenEntry(entry)[1] = Token("u8", "type", entry.type, 1)
    BY <2>1, <1>2, EntryShape
  <2>4. 1 \in 1..Len(WrittenEntry(entry)) /\ Lies(at, WrittenEntry(entry))
    BY <2>2, <2>3, <1>5
  <2>5. stream[at + 1 - 1] = WrittenEntry(entry)[1]
    BY <2>4 DEF Lies
  <2>6. QED
    BY <2>1, <2>2, <2>3, <2>4, <2>5 DEF Here
<1>10. QED
  BY <1>2, <1>3, <1>4, <1>5, <1>7, <1>8, <1>9

LEMMA TypeStep ==
    ASSUME NoEa, IInv, ReadType
    PROVE  IInv'
<1>1. pc = "type" /\ UNCHANGED <<format, written, end, listed>>
  BY DEF ReadType
<1>2. /\ format \in Nat \ {0} /\ Len(written) \in Nat /\ Len(stream) \in Nat /\ end \in Nat
      /\ current \in 1..(Len(written) + 1) /\ at \in Nat /\ at = start[current] + 1
      /\ at <= Len(stream) /\ start[current] \in Nat
  <2>1. start[current] \in Nat
    <3>1. current \in 1..(Len(written) + 1)
      BY <1>1, AtType
    <3>2. QED
      BY <3>1, Layout DEF IInv, Constant
  <2>2. QED
    BY <2>1, <1>1, AtType
<1>3. stream' = stream /\ start' = start /\ current' = current /\ entry' = entry
      /\ \A e : HasExcess(e)' <=> HasExcess(e)
  BY <1>1, Frame DEF current, entry
<1>4. Constant'
  BY <1>1, <1>3 DEF IInv, Constant
<1>5. ListedSoFar'
  BY <1>1, <1>3, FrameExpected DEF IInv, ListedSoFar
<1>6. Here(1).kind = "u8" /\ (Val(1) = "z" \/ Val(1) \in Types)
  <2>1. CASE current = Len(written) + 1
    <3>1. Here(1) = Token("u8", "type", "z", 1)
      BY <2>1, <1>1, AtType
    <3>2. QED
      BY <3>1 DEF Token, Val
  <2>2. CASE current \in 1..Len(written)
    <3>1. Here(1) = Token("u8", "type", entry.type, 1) /\ entry \in EntryFields
      BY <2>2, <1>1, AtType
    <3>2. entry.type \in Types
      BY <3>1, EntryTypes
    <3>3. QED
      BY <3>1, <3>2 DEF Token, Val
  <2>3. QED
    BY <2>1, <2>2, <1>2
<1>7. Stands(<<"u8">>, 1) <=> at <= end
  BY <1>2, <1>6 DEF Stands
<1>8. CASE ~(at <= end)
  <2>1. pc' = "stopped" /\ at' = at
    BY <1>2, <1>7, <1>8 DEF ReadType
  <2>2. InStep'
    BY <2>1, <1>3 DEF IInv, InStep, Reading, Ended
  <2>3. Earned'
    BY <2>1 DEF Earned
  <2>4. QED
    BY <1>4, <1>5, <2>2, <2>3 DEF IInv
<1>9. CASE at <= end
  <2>1. /\ pc' = CASE Val(1) = "z" -> "closed"
                   [] Val(1) \in Types \ {"c"} -> "name"
                   [] OTHER -> "stopped"
        /\ at' = at + 1 /\ inode' = [Blank EXCEPT !.type = Val(1)]
    BY <1>7, <1>9 DEF ReadType
  <2>2. at' \in 1..(Len(stream) + 1)
    BY <2>1, <1>2
  <2>3. CASE current = Len(written) + 1
    <3>1. Val(1) = "z"
      BY <2>3, <1>1, AtType DEF Val, Token
    <3>2. pc' = "closed"
      BY <2>1, <3>1 DEF Types
    <3>3. InStep'
      BY <2>2, <3>2, <1>3 DEF InStep, Reading, Ended
    <3>4. Len(listed) = Len(written)
      <4>1. Len(listed) \in Nat /\ Len(listed) + 1 = Len(written) + 1
        BY <2>3, <1>2 DEF IInv, ListedSoFar, current
      <4>2. QED
        BY <4>1, <1>2
    <3>5. Earned'
      BY <3>2, <3>4, <1>1 DEF Earned
    <3>6. QED
      BY <1>4, <1>5, <3>3, <3>5 DEF IInv
  <2>4. CASE current \in 1..Len(written)
    <3>1. /\ entry \in EntryFields /\ ~HasEa(entry.flags)
          /\ Here(1) = Token("u8", "type", entry.type, 1)
          /\ start[current + 1] = start[current] + Len(WrittenEntry(entry))
          /\ Lies(at, WrittenEntry(entry))
      BY <2>4, <1>1, AtType
    <3>2. entry.type \in Types /\ Val(1) = entry.type /\ Val(1) # "z"
      <4>1. entry.type \in Types
        BY <3>1, EntryTypes
      <4>2. Val(1) = entry.type
        BY <3>1 DEF Val, Token
      <4>3. QED
        BY <4>1, <4>2 DEF Types
    <3>3. CASE entry.type = "c"
      <4>1. pc' = "stopped"
        BY <2>1, <3>2, <3>3
      <4>2. InStep'
        BY <2>2, <4>1, <1>3 DEF InStep, Reading, Ended
      <4>3. Earned'
        BY <4>1 DEF Earned
      <4>4. QED
        BY <1>4, <1>5, <4>2, <4>3 DEF IInv
    <3>4. CASE entry.type # "c"
      <4> DEFINE one == U8("type", entry.type)
                 a == start[current]
                 b == start[current + 1]
                 n == Len(AheadName(entry))
      <4>1. pc' = "name"
        BY <2>1, <3>2, <3>4
      <4>2. WrittenEntry(entry) = one \o AheadName(entry)
        BY <3>1, <3>4, <1>2, EntryAhead
      <4>3. one \in Seq(Tokens) /\ AheadName(entry) \in Seq(Tokens) /\ Len(one) = 1
        <5>1. one \in Seq(Tokens) /\ AheadName(entry) \in Seq(Tokens)
          BY <3>1, <1>2, RowTypes, AheadTypes
        <5>2. Len(one) = 1
          BY DEF U8
        <5>3. QED
          BY <5>1, <5>2
      <4> HIDE DEF one
      <4>4. n \in Nat /\ Len(WrittenEntry(entry)) = 1 + n /\ Lies(at + 1, AheadName(entry))
        <5>1. Lies(at, one \o AheadName(entry))
          BY <3>1, <4>2
        <5>2. at \in Nat
          BY <1>2
        <5>3. Len(one \o AheadName(entry)) = Len(one) + n /\ n \in Nat
              /\ Lies(at + Len(one), AheadName(entry))
          BY <5>1, <5>2, <4>3, LiesSplit
        <5>4. QED
          BY <5>3, <4>2, <4>3
      <4>5. a < at + 1 /\ (at + 1) + n = b + 1
        <5>1. a \in Nat /\ at = a + 1 /\ b = a + (1 + n)
          BY <3>1, <4>4, <1>2
        <5> HIDE DEF a, b, n
        <5>2. QED
          BY <5>1, <4>4
      <4>6. Clean(a + 1, at + 1)
        <5>1. ~Excessive(Here(1))
          BY <3>1 DEF Excessive, Token
        <5>2. at = a + 1
          BY <1>2
        <5>3. Clean(at, at + 1)
          BY <5>1, <1>2, OneClean
        <5>4. QED
          BY <5>2, <5>3
      <4>7. InEntry(pc, entry)'
        <5>1. Ahead(pc, entry)' = Ahead(pc', entry')
          BY <1>1, FrameAhead
        <5>2. Ahead(pc, entry)' = AheadName(entry)
          BY <5>1, <4>1, <1>3 DEF Ahead
        <5>3. Expected(pc, entry)' = Expected(pc', entry')
          BY <1>1, FrameExpected
        <5>4. Expected(pc, entry)' = Typed(entry)
          BY <5>3, <4>1, <1>3 DEF Expected
        <5>5. inode' = Typed(entry)
          BY <2>1, <3>2 DEF Typed
        <5>6. Has(entry, pc)'
          BY <4>1, <1>3, <3>4 DEF Has
        <5>7. Lies(at, Ahead(pc, entry))'
          BY <5>2, <4>4, <2>1, <1>3 DEF Lies
        <5>8. Clean(start[current] + 1, at)'
          BY <4>6, <2>1, <1>3 DEF Clean
        <5>9. QED
          BY <2>1, <4>5, <1>3, <5>2, <5>4, <5>5, <5>6, <5>7, <5>8 DEF InEntry
      <4>8. InStep'
        <5>1. pc' \in Reading /\ pc' # "type" /\ current <= Len(written)
          BY <4>1, <2>4 DEF Reading
        <5>2. current' <= Len(written)'
          BY <5>1, <1>1, <1>3
        <5>3. QED
          BY <5>1, <5>2, <4>7, <2>2, <1>3 DEF InStep
      <4>9. Earned'
        BY <4>1 DEF Earned
      <4>10. QED
        BY <1>4, <1>5, <4>8, <4>9 DEF IInv
    <3>5. QED
      BY <3>3, <3>4
  <2>5. QED
    BY <2>3, <2>4, <1>2
<1>10. QED
  BY <1>8, <1>9

-----------------------------------------------------------------------------
(***************************************************************************)
(* The invariant holds of every behaviour.                                 *)
(***************************************************************************)
LEMMA InitHolds ==
    ASSUME NoEa, Init
    PROVE  IInv
<1>1. Constant
  BY DEF Init, Constant
<1>2. Len(listed) = 0 /\ current = 1 /\ Len(written) \in Nat
  <2>1. Len(written) \in Nat
    BY WrittenTypes DEF Init
  <2>2. QED
    BY <2>1 DEF Init, current
<1>3. start[1] = 0 /\ Len(stream) \in Nat
  BY Layout DEF Init
<1>4. ListedSoFar
  <2>1. listed = << >> /\ << >> = [i \in 1..0 |-> Complete(written[i])]
    BY DEF Init
  <2>2. QED
    BY <2>1, <1>2 DEF ListedSoFar
<1>5. InStep
  <2>1. at = 1 /\ pc = "type"
    BY DEF Init
  <2>2. QED
    BY <2>1, <1>2, <1>3 DEF InStep, Reading
<1>6. Earned
  BY DEF Init, Earned
<1>7. QED
  BY <1>1, <1>4, <1>5, <1>6 DEF IInv

LEMMA StepHolds ==
    ASSUME NoEa, IInv, [Next]_vars
    PROVE  IInv'
<1>1. CASE ReadType
  BY <1>1, TypeStep
<1>2. CASE ReadName
  BY <1>2, NameStep
<1>3. CASE ReadFlags
  BY <1>3, FlagsStep
<1>4. CASE ReadOwner
  BY <1>4, OwnerStep
<1>5. CASE ReadMode
  BY <1>5, ModeStep
<1>6. CASE ReadTimes
  BY <1>6, TimesStep
<1>7. CASE ReadFsa
  BY <1>7, FsaStep
<1>8. CASE SkipFsa
  BY <1>8, SkipFsaStep
<1>9. CASE FinishInode
  BY <1>9, FinishInodeStep
<1>10. CASE FinishSymlink
  BY <1>10, FinishSymlinkStep
<1>11. CASE ReadSizes
  BY <1>11, SizesStep
<1>12. CASE FinishEdition1
  BY <1>12, Edition1Step
<1>13. CASE FinishLegacy
  BY <1>13, LegacyStep
<1>14. CASE ReadStored
  BY <1>14, StoredStep
<1>15. CASE CrcTooWide
  BY <1>15, CrcTooWideStep
<1>16. CASE FinishFile
  BY <1>16, FinishFileStep
<1>17. CASE UNCHANGED vars
  <2>1. UNCHANGED <<format, written, end, at, pc, inode, listed>>
    BY <1>17 DEF vars
  <2>2. stream' = stream /\ start' = start /\ current' = current /\ entry' = entry
        /\ \A e : HasExcess(e)' <=> HasExcess(e)
    BY <2>1, Frame DEF current, entry
  <2>3. Constant'
    BY <2>1, <2>2 DEF IInv, Constant
  <2>4. ListedSoFar'
    BY <2>1, <2>2, FrameExpected DEF IInv, ListedSoFar
  <2>5. InEntry(pc, entry)' <=> InEntry(pc, entry)
    <3>1. Ahead(pc, entry)' = Ahead(pc', entry') /\ Expected(pc, entry)' = Expected(pc', entry')
      BY <2>1, FrameAhead, FrameExpected
    <3>2. Ahead(pc, entry)' = Ahead(pc, entry) /\ Expected(pc, entry)' = Expected(pc, entry)
      BY <3>1, <2>1, <2>2
    <3>3. QED
      BY <2>1, <2>2, <3>2 DEF InEntry, Lies, Clean, Has
  <2>6. InStep'
    BY <2>1, <2>2, <2>5 DEF IInv, InStep
  <2>7. Earned'
    BY <2>1, <2>2 DEF IInv, Earned
  <2>8. QED
    BY <2>3, <2>4, <2>6, <2>7 DEF IInv
<1>18. QED
  BY <1>1, <1>2, <1>3, <1>4, <1>5, <1>6, <1>7, <1>8, <1>9, <1>10, <1>11, <1>12, <1>13,
     <1>14, <1>15, <1>16, <1>17 DEF Next

LEMMA Inductive ==
    ASSUME NoEa
    PROVE  Spec => []IInv
<1>1. Init => IInv
  BY InitHolds
<1>2. IInv /\ [Next]_vars => IInv'
  BY StepHolds
<1>3. QED
  BY <1>1, <1>2, PTL DEF Spec

\* The parser never asks for another kind of field than the one that was
\* written there, for every format, catalogue and bound.
THEOREM AlwaysInStep ==
    ASSUME NoEa
    PROVE  Spec => []NeverMisreads
<1>1. IInv => NeverMisreads
  BY DEF IInv, InStep, Reading, Ended, NeverMisreads
<1>2. QED
  BY <1>1, Inductive, PTL

\* An entry is refused only when one of its numbers does not fit, and always
\* then; a read error means a cut file; a walk to the end lists everything.
THEOREM RefusalsAreEarned ==
    ASSUME NoEa
    PROVE  Spec => []ErrorsAreEarned
<1>1. IInv => ErrorsAreEarned
  <2> SUFFICES ASSUME IInv PROVE ErrorsAreEarned
    OBVIOUS
  <2>1. DOMAIN listed = 1..Len(listed)
    BY DEF IInv, ListedSoFar
  <2>2. QED
    BY <2>1 DEF IInv, ListedSoFar, Earned, ErrorsAreEarned, current, entry
<1>2. QED
  BY <1>1, Inductive, PTL

-----------------------------------------------------------------------------
(***************************************************************************)
(* What an entry's tokens say of its listing.                              *)
(***************************************************************************)
LEMMA RangeOfConcat ==
    ASSUME NEW s \in Seq(Tokens), NEW t \in Seq(Tokens)
    PROVE  Range(s \o t) = Range(s) \cup Range(t)
<1> DEFINE a == Len(s)
           b == Len(t)
           st == s \o t
<1>1. a \in Nat /\ b \in Nat /\ DOMAIN s = 1..a /\ DOMAIN t = 1..b
  BY LenProperties
<1>2. DOMAIN st = 1..(a + b)
  <2>1. st \in Seq(Tokens) /\ Len(st) = a + b
    BY ConcatProperties
  <2>2. QED
    BY <2>1, LenProperties
<1>3. \A j \in 1..(a + b) : st[j] = IF j <= a THEN s[j] ELSE t[j - a]
  BY ConcatProperties
<1> HIDE DEF a, b, st
<1>4. ASSUME NEW x \in Range(st) PROVE x \in Range(s) \cup Range(t)
  <2>1. PICK j \in 1..(a + b) : x = st[j]
    BY <1>2 DEF Range
  <2>2. CASE j <= a
    <3>1. j \in DOMAIN s /\ x = s[j]
      BY <2>1, <2>2, <1>1, <1>3
    <3>2. QED
      BY <3>1 DEF Range
  <2>3. CASE ~(j <= a)
    <3>1. j - a \in DOMAIN t /\ x = t[j - a]
      BY <2>1, <2>3, <1>1, <1>3
    <3>2. QED
      BY <3>1 DEF Range
  <2>4. QED
    BY <2>2, <2>3
<1>5. ASSUME NEW x \in Range(s) PROVE x \in Range(st)
  <2>1. PICK j \in 1..a : x = s[j]
    BY <1>1 DEF Range
  <2>2. j \in DOMAIN st /\ st[j] = x
    <3>1. j \in 1..(a + b) /\ j <= a
      BY <1>1
    <3>2. QED
      BY <3>1, <2>1, <1>2, <1>3
  <2>3. QED
    BY <2>2 DEF Range
<1>6. ASSUME NEW x \in Range(t) PROVE x \in Range(st)
  <2>1. PICK j \in 1..b : x = t[j]
    BY <1>1 DEF Range
  <2>2. a + j \in 1..(a + b) /\ ~(a + j <= a) /\ (a + j) - a = j
    BY <1>1
  <2>3. a + j \in DOMAIN st /\ st[a + j] = x
    BY <2>1, <2>2, <1>2, <1>3
  <2>4. QED
    BY <2>3 DEF Range
<1>7. QED
  BY <1>4, <1>5, <1>6 DEF st

LEMMA RangeOfOne ==
    ASSUME NEW t
    PROVE  Range(<<t>>) = {t} /\ Range(<< >>) = {}
BY DEF Range

\* The tokens of every field that an entry of the format has.
LEMMA TokensAhead ==
    ASSUME NEW e \in EntryFields, format \in Nat \ {0}, ~HasEa(e.flags), e.type # "c"
    PROVE  /\ Range(WrittenEntry(e)) = Range(U8("type", e.type)) \cup Range(AheadName(e))
           /\ Range(AheadName(e)) = Range(Nul("name", e.name)) \cup Range(AfterName(e))
           /\ Range(AheadFlags(e)) = Range(U8("flags", e.flags)) \cup Range(AheadOwner(e))
           /\ Range(AheadOwner(e)) = Range(OwnerRow(e)) \cup Range(AheadMode(e))
           /\ Range(AheadMode(e)) = Range(U16("mode", e.mode)) \cup Range(AheadAtime(e))
           /\ Range(AheadAtime(e)) =
                 Range(WrittenTime("atime", e.atime, e.unit)) \cup Range(AheadMtime(e))
           /\ Range(AheadMtime(e)) =
                 Range(WrittenTime("mtime", e.mtime, e.unit)) \cup Range(AfterMtime(e))
           /\ Range(AheadCtime(e)) =
                 Range(WrittenTime("ctime", e.ctime, e.unit)) \cup Range(AfterTimes(e))
           /\ Range(AheadFsa(e)) = Range(FsaRow) \cup Range(AheadFsaSize(e))
           /\ Range(AheadFsaSize(e)) = Range(FsaSizeRow(e)) \cup Range(AheadRest(e))
           /\ e.type = "f" => Range(AheadRest(e)) = Range(SizesRow(e)) \cup Range(AheadStored(e))
           /\ format >= 8 => Range(AheadStored(e)) = Range(StoredRow(e)) \cup Range(AheadCrc(e))
<1>1. format \in Nat /\ WrittenEntry(e) = U8("type", e.type) \o AheadName(e)
  BY EntryAhead
<1>2. Range(WrittenEntry(e)) = Range(U8("type", e.type)) \cup Range(AheadName(e))
  BY <1>1, RowTypes, AheadTypes, RangeOfConcat
<1>3. Range(AheadName(e)) = Range(Nul("name", e.name)) \cup Range(AfterName(e))
  BY <1>1, RowTypes, AheadTypes, RangeOfConcat DEF AheadName
<1>4. Range(AheadFlags(e)) = Range(U8("flags", e.flags)) \cup Range(AheadOwner(e))
  BY <1>1, RowTypes, AheadTypes, RangeOfConcat DEF AheadFlags
<1>5. Range(AheadOwner(e)) = Range(OwnerRow(e)) \cup Range(AheadMode(e))
  BY <1>1, RowTypes, AheadTypes, RangeOfConcat DEF AheadOwner
<1>6. Range(AheadMode(e)) = Range(U16("mode", e.mode)) \cup Range(AheadAtime(e))
  BY <1>1, RowTypes, AheadTypes, RangeOfConcat DEF AheadMode
<1>7. Range(AheadAtime(e)) =
        Range(WrittenTime("atime", e.atime, e.unit)) \cup Range(AheadMtime(e))
  BY <1>1, RowTypes, AheadTypes, RangeOfConcat DEF AheadAtime
<1>8. Range(AheadMtime(e)) =
        Range(WrittenTime("mtime", e.mtime, e.unit)) \cup Range(AfterMtime(e))
  BY <1>1, RowTypes, AheadTypes, RangeOfConcat DEF AheadMtime
<1>9. Range(AheadCtime(e)) =
        Range(WrittenTime("ctime", e.ctime, e.unit)) \cup Range(AfterTimes(e))
  BY <1>1, RowTypes, AheadTypes, RangeOfConcat DEF AheadCtime
<1>10. Range(AheadFsa(e)) = Range(FsaRow) \cup Range(AheadFsaSize(e))
  BY <1>1, RowTypes, AheadTypes, RangeOfConcat DEF AheadFsa
<1>11. Range(AheadFsaSize(e)) = Range(FsaSizeRow(e)) \cup Range(AheadRest(e))
  BY <1>1, RowTypes, AheadTypes, RangeOfConcat DEF AheadFsaSize
<1>12. ASSUME e.type = "f"
       PROVE  Range(AheadRest(e)) = Range(SizesRow(e)) \cup Range(AheadStored(e))
  <2>1. AheadRest(e) = SizesRow(e) \o AheadStored(e)
    BY <1>12 DEF AheadRest
  <2>2. QED
    BY <2>1, <1>1, RowTypes, AheadTypes, RangeOfConcat
<1>13. ASSUME format >= 8
       PROVE  Range(AheadStored(e)) = Range(StoredRow(e)) \cup Range(AheadCrc(e))
  <2>1. AheadStored(e) = StoredRow(e) \o AheadCrc(e)
    <3>1. format # 1 /\ ~(format <= 7)
      BY <1>1, <1>13
    <3>2. QED
      BY <3>1 DEF AheadStored
  <2>2. QED
    BY <2>1, <1>1, RowTypes, RangeOfConcat
<1>14. QED
  BY <1>2, <1>3, <1>4, <1>5, <1>6, <1>7, <1>8, <1>9, <1>10, <1>11, <1>12, <1>13

\* The tokens of every row.
LEMMA TokensOfRows ==
    ASSUME NEW e \in EntryFields, format \in Nat \ {0}
    PROVE  /\ Range(U8("type", e.type)) = {Token("u8", "type", e.type, 1)}
           /\ Range(Nul("name", e.name)) = {Token("nul", "name", e.name.text, e.name.length)}
           /\ Range(Nul("target", e.name)) = {Token("nul", "target", e.name.text, e.name.length)}
           /\ Range(U8("flags", e.flags)) = {Token("u8", "flags", e.flags, 1)}
           /\ Range(OwnerRow(e)) =
                 IF format <= 7 THEN {Token("u16", "uid", e.uid % SHORT, 2),
                                      Token("u16", "gid", e.gid % SHORT, 2)}
                 ELSE {Token("inf", "uid", e.uid, 5), Token("inf", "gid", e.gid, 5)}
           /\ Range(U16("mode", e.mode)) = {Token("u16", "mode", e.mode % SHORT, 2)}
           /\ \A field \in {"atime", "mtime", "ctime"}, seconds \in Nat :
                 /\ Token("inf", field, seconds, 5) \in Range(WrittenTime(field, seconds, e.unit))
                 /\ \A t \in Range(WrittenTime(field, seconds, e.unit)) :
                       \/ t = Token("inf", field, seconds, 5)
                       \/ t.field \in {"unit", "subsecond"}
           /\ \A t \in Range(FsaRow) : t.field \in {"fsa_families", "fsa_size", "fsa_offset"}
           /\ \A t \in Range(FsaSizeRow(e)) : t.field \in {"fsa_crc_width", "fsa_crc"}
           /\ Range(SizesRow(e)) = {Token("inf", "size", e.size, 5),
                                    Token("inf", "archive_offset", e.archive_offset, 5)}
           /\ Range(LegacyRow(e)) = {Token("inf", "stored_size", e.stored_size, 5),
                                     Token("raw", "crc", 2, 2)}
           /\ Range(StoredRow(e)) = {Token("inf", "stored_size", e.stored_size, 5),
                                     Token("u8", "file_data_status", "none", 1),
                                     Token("u8", "compression", e.compression, 1)}
           /\ \A t \in Range(AheadCrc(e)) :
                 \/ t.field = "crc_width"
                 \/ e.crc_width # 0 /\ t = Token("raw", "crc", e.crc_width, e.crc_width)
<1>1. /\ e.uid \in Nat /\ e.gid \in Nat /\ e.size \in Nat /\ e.archive_offset \in Nat
      /\ e.stored_size \in Nat /\ e.crc_width \in Nat /\ e.fsa_crc_width \in Nat
      /\ e.compression \in Values /\ "none" \in Values /\ e.unit \in Values
      /\ e.unit \in {"s", "n", "u"}
  BY EntryTypes, FixedValues
<1>2. \A t, u \in Tokens : Range(<<t>> \o <<u>>) = {t, u}
  <2>1. ASSUME NEW t \in Tokens, NEW u \in Tokens PROVE Range(<<t>> \o <<u>>) = {t, u}
    <3>1. <<t>> \in Seq(Tokens) /\ <<u>> \in Seq(Tokens)
      BY OneToken
    <3>2. Range(<<t>> \o <<u>>) = Range(<<t>>) \cup Range(<<u>>)
      BY <3>1, RangeOfConcat
    <3>3. Range(<<t>>) = {t} /\ Range(<<u>>) = {u}
      BY RangeOfOne
    <3>4. Range(<<t>> \o <<u>>) = {t} \cup {u}
      BY <3>2, <3>3, Zenon
    <3>5. QED
      BY <3>4, Zenon
  <2>2. QED
    BY <2>1
<1>3. \A t, u, v \in Tokens : Range(<<t>> \o <<u>> \o <<v>>) = {t, u, v}
  <2>1. ASSUME NEW t \in Tokens, NEW u \in Tokens, NEW v \in Tokens
        PROVE  Range(<<t>> \o <<u>> \o <<v>>) = {t, u, v}
    <3>1. <<t>> \o <<u>> \in Seq(Tokens) /\ <<v>> \in Seq(Tokens)
      BY OneToken, Concat
    <3>2. Range(<<t>> \o <<u>> \o <<v>>) = Range(<<t>> \o <<u>>) \cup Range(<<v>>)
      BY <3>1, RangeOfConcat
    <3>3. Range(<<t>> \o <<u>>) = {t, u} /\ Range(<<v>>) = {v}
      BY <1>2, RangeOfOne
    <3>4. Range(<<t>> \o <<u>> \o <<v>>) = {t, u} \cup {v}
      BY <3>2, <3>3
    <3>5. QED
      BY <3>4
  <2>2. QED
    BY <2>1
<1>4. \A field \in FieldNames : \A n \in Nat :
         /\ Token("inf", field, n, 5) \in Tokens /\ Token("u16", field, n % SHORT, 2) \in Tokens
         /\ Token("raw", field, n, n) \in Tokens
  BY TokensOf DEF Fits
<1>5. \A field \in FieldNames : \A v \in Values : Token("u8", field, v, 1) \in Tokens
  BY TokensOf DEF Fits
<1>6. /\ Range(U8("type", e.type)) = {Token("u8", "type", e.type, 1)}
      /\ Range(Nul("name", e.name)) = {Token("nul", "name", e.name.text, e.name.length)}
      /\ Range(Nul("target", e.name)) = {Token("nul", "target", e.name.text, e.name.length)}
      /\ Range(U8("flags", e.flags)) = {Token("u8", "flags", e.flags, 1)}
      /\ Range(U16("mode", e.mode)) = {Token("u16", "mode", e.mode % SHORT, 2)}
  BY RangeOfOne DEF U8, Nul, U16
<1>7. Range(OwnerRow(e)) =
        IF format <= 7 THEN {Token("u16", "uid", e.uid % SHORT, 2),
                             Token("u16", "gid", e.gid % SHORT, 2)}
        ELSE {Token("inf", "uid", e.uid, 5), Token("inf", "gid", e.gid, 5)}
  <2>1. "uid" \in FieldNames /\ "gid" \in FieldNames
    BY DEF FieldNames
  <2>2. QED
    BY <2>1, <1>1, <1>2, <1>4 DEF OwnerRow, U16, Inf
<1>8. ASSUME NEW field \in {"atime", "mtime", "ctime"}, NEW seconds \in Nat
      PROVE  /\ Token("inf", field, seconds, 5) \in Range(WrittenTime(field, seconds, e.unit))
             /\ \A t \in Range(WrittenTime(field, seconds, e.unit)) :
                   \/ t = Token("inf", field, seconds, 5)
                   \/ t.field \in {"unit", "subsecond"}
  <2> DEFINE t == Token("u8", "unit", e.unit, 1)
             u == Token("inf", field, seconds, 5)
             v == Token("inf", "subsecond", 0, 5)
  <2>1. field \in FieldNames /\ "unit" \in FieldNames /\ "subsecond" \in FieldNames
    BY DEF FieldNames
  <2>2. t \in Tokens /\ u \in Tokens /\ v \in Tokens
    BY <2>1, <1>1, <1>4, <1>5
  <2>3. t.field = "unit" /\ v.field = "subsecond"
    BY DEF Token
  <2>4. WrittenTime(field, seconds, e.unit) \in {<<u>>, <<t>> \o <<u>>, <<t>> \o <<u>> \o <<v>>}
    <3>1. CASE format < 9
      BY <2>1, <3>1, <1>1, TimeRow DEF Inf
    <3>2. CASE ~(format < 9)
      <4>1. format >= 9
        BY <3>2
      <4>2. QED
        BY <2>1, <4>1, <1>1, TimeRow DEF Inf, U8
    <3>3. QED
      BY <3>1, <3>2
  <2> HIDE DEF t, u, v
  <2>5. Range(WrittenTime(field, seconds, e.unit)) \in {{u}, {t, u}, {t, u, v}}
    <3>1. Range(<<u>>) = {u}
      BY RangeOfOne
    <3>2. Range(<<t>> \o <<u>>) = {t, u} /\ Range(<<t>> \o <<u>> \o <<v>>) = {t, u, v}
      BY <2>2, <1>2, <1>3
    <3>3. QED
      BY <3>1, <3>2, <2>4
  <2>6. QED
    BY <2>3, <2>5 DEF u
<1>9. \A t \in Range(FsaRow) : t.field \in {"fsa_families", "fsa_size", "fsa_offset"}
  <2> DEFINE t == Token("inf", "fsa_families", 0, 5)
             u == Token("inf", "fsa_size", 0, 5)
             v == Token("inf", "fsa_offset", 0, 5)
  <2>1. t \in Tokens /\ u \in Tokens /\ v \in Tokens
    BY <1>4 DEF FieldNames
  <2>2. t.field = "fsa_families" /\ u.field = "fsa_size" /\ v.field = "fsa_offset"
    BY DEF Token
  <2>3. FsaRow = <<t>> \o <<u>> \o <<v>>
    BY DEF FsaRow, Inf
  <2> HIDE DEF t, u, v
  <2>4. Range(FsaRow) = {t, u, v}
    BY <2>1, <2>3, <1>3
  <2>5. QED
    BY <2>2, <2>4
<1>10. \A t \in Range(FsaSizeRow(e)) : t.field \in {"fsa_crc_width", "fsa_crc"}
  <2> DEFINE t == Token("inf", "fsa_crc_width", e.fsa_crc_width, 5)
             u == Token("raw", "fsa_crc", e.fsa_crc_width, e.fsa_crc_width)
  <2>1. "fsa_crc_width" \in FieldNames /\ "fsa_crc" \in FieldNames
    BY DEF FieldNames
  <2>2. t \in Tokens /\ u \in Tokens /\ t.field = "fsa_crc_width" /\ u.field = "fsa_crc"
    BY <2>1, <1>1, <1>4 DEF Token
  <2>3. FsaSizeRow(e) = <<t>> \o << >> \/ FsaSizeRow(e) = <<t>> \o <<u>>
    BY DEF FsaSizeRow, Inf, Raw
  <2> HIDE DEF t, u
  <2>4. <<t>> \o << >> = <<t>>
    BY <2>2, OneToken, Empty
  <2>5. Range(FsaSizeRow(e)) \in {{t}, {t, u}}
    BY <2>2, <2>3, <2>4, <1>2, RangeOfOne
  <2>6. QED
    BY <2>2, <2>5
<1>11. Range(SizesRow(e)) = {Token("inf", "size", e.size, 5),
                             Token("inf", "archive_offset", e.archive_offset, 5)}
  <2>1. "size" \in FieldNames /\ "archive_offset" \in FieldNames
    BY DEF FieldNames
  <2>2. QED
    BY <2>1, <1>1, <1>2, <1>4 DEF SizesRow, Inf
<1>12. Range(LegacyRow(e)) = {Token("inf", "stored_size", e.stored_size, 5),
                              Token("raw", "crc", 2, 2)}
  <2>1. "stored_size" \in FieldNames /\ "crc" \in FieldNames
    BY DEF FieldNames
  <2>2. QED
    BY <2>1, <1>1, <1>2, <1>4 DEF LegacyRow, Inf, Raw
<1>13. Range(StoredRow(e)) = {Token("inf", "stored_size", e.stored_size, 5),
                              Token("u8", "file_data_status", "none", 1),
                              Token("u8", "compression", e.compression, 1)}
  <2>1. "stored_size" \in FieldNames /\ "file_data_status" \in FieldNames
        /\ "compression" \in FieldNames
    BY DEF FieldNames
  <2>2. QED
    BY <2>1, <1>1, <1>3, <1>4, <1>5 DEF StoredRow, Inf, U8
<1>14. \A t \in Range(AheadCrc(e)) :
          \/ t.field = "crc_width"
          \/ e.crc_width # 0 /\ t = Token("raw", "crc", e.crc_width, e.crc_width)
  <2> DEFINE t == Token("inf", "crc_width", e.crc_width, 5)
             u == Token("raw", "crc", e.crc_width, e.crc_width)
  <2>1. "crc_width" \in FieldNames /\ "crc" \in FieldNames
    BY DEF FieldNames
  <2>2. t \in Tokens /\ u \in Tokens /\ t.field = "crc_width"
    BY <2>1, <1>1, <1>4 DEF Token
  <2>3. AheadCrc(e) = IF e.crc_width = 0 THEN <<t>> \o << >> ELSE <<t>> \o <<u>>
    BY DEF AheadCrc, Inf, Raw
  <2> HIDE DEF t, u
  <2>4. <<t>> \o << >> = <<t>>
    BY <2>2, OneToken, Empty
  <2>5. Range(AheadCrc(e)) = IF e.crc_width = 0 THEN {t} ELSE {t, u}
    BY <2>2, <2>3, <2>4, <1>2, RangeOfOne
  <2>6. QED
    BY <2>2, <2>5 DEF u
<1>15. QED
  BY <1>6, <1>7, <1>8, <1>9, <1>10, <1>11, <1>12, <1>13, <1>14

\* The fields of a listed entry.
LEMMA CompleteFields ==
    ASSUME NEW e, format \in Nat \ {0}
    PROVE  LET c == Complete(e) IN
           /\ c.type = e.type /\ c.name = e.name.text
           /\ c.flags = IF format >= 2 THEN e.flags ELSE "none"
           /\ c.uid = owner(e.uid) /\ c.gid = owner(e.gid) /\ c.mode = e.mode % SHORT
           /\ c.atime = as_i64(e.atime) /\ c.mtime = as_i64(e.mtime)
           /\ c.ctime = IF format >= 8 THEN as_i64(e.ctime) ELSE None
           /\ e.type = "l" => c.target = e.name.text
           /\ e.type # "f" => c.size = 0 /\ c.archive_offset = 0 /\ c.stored_size = 0
           /\ e.type = "f" =>
                 /\ c.size = e.size /\ c.archive_offset = e.archive_offset
                 /\ c.compression = IF format <= 7 THEN GlobalComp ELSE e.compression
                 /\ c.stored_size = IF format = 1 \/ (format <= 7 /\ e.stored_size = 0)
                                    THEN e.size ELSE e.stored_size
                 /\ format \in 2..7 => c.crc = 2
                 /\ format >= 8 /\ e.crc_width # 0 => c.crc = e.crc_width
<1> DEFINE flags == IF format >= 2 THEN e.flags ELSE "none"
           ctime == IF format >= 8 THEN as_i64(e.ctime) ELSE None
           uid == owner(e.uid)
           gid == owner(e.gid)
           mode == e.mode % SHORT
           atime == as_i64(e.atime)
           mtime == as_i64(e.mtime)
           file(size, offset, stored, compression, crc, target) ==
             [name |-> e.name.text, flags |-> flags, uid |-> uid, gid |-> gid, mode |-> mode,
              atime |-> atime, mtime |-> mtime, ctime |-> ctime, size |-> size,
              archive_offset |-> offset, stored_size |-> stored, compression |-> compression,
              crc |-> crc, target |-> target, type |-> e.type]
<1>1. Changed(e) = file(0, 0, 0, "n", None, None)
  BY ChangedRecord
<1> HIDE DEF flags, ctime, uid, gid, mode, atime, mtime
<1>2. Sized(e) = file(e.size, e.archive_offset, 0, "n", None, None)
  <2>1. Sized(e) = [file(0, 0, 0, "n", None, None) EXCEPT
                      !.size = e.size, !.archive_offset = e.archive_offset]
    BY <1>1, Zenon DEF Sized
  <2>2. QED
    BY <2>1
<1>3. Stored(e) = file(e.size, e.archive_offset, e.stored_size, e.compression, None, None)
  <2>1. Stored(e) = [file(e.size, e.archive_offset, 0, "n", None, None) EXCEPT
                       !.stored_size = e.stored_size, !.compression = e.compression]
    BY <1>2, Zenon DEF Stored
  <2>2. QED
    BY <2>1
<1>4. e.type = "l" => Complete(e) = file(0, 0, 0, "n", None, e.name.text)
  BY <1>1 DEF Complete
<1>5. e.type \notin {"f", "l"} => Complete(e) = file(0, 0, 0, "n", None, None)
  BY <1>1 DEF Complete
<1>6. e.type = "f" => Complete(e) = CompleteFile(e)
  BY DEF Complete
<1>7. format = 1 =>
        CompleteFile(e) = file(e.size, e.archive_offset, e.size, GlobalComp, None, None)
  <2> SUFFICES ASSUME format = 1
               PROVE  CompleteFile(e) = file(e.size, e.archive_offset, e.size, GlobalComp, None, None)
    OBVIOUS
  <2>1. CompleteFile(e) = [Sized(e) EXCEPT !.stored_size = e.size, !.compression = GlobalComp]
    BY DEF CompleteFile
  <2>2. CompleteFile(e) = [file(e.size, e.archive_offset, 0, "n", None, None) EXCEPT
                             !.stored_size = e.size, !.compression = GlobalComp]
    BY <2>1, <1>2, Zenon
  <2>3. QED
    BY <2>2, ZenonT(40)
<1>8. ASSUME format \in 2..7
      PROVE  CompleteFile(e) =
               file(e.size, e.archive_offset,
                    IF e.stored_size = 0 THEN e.size ELSE e.stored_size, GlobalComp, 2, None)
  <2> DEFINE stored == IF e.stored_size = 0 THEN e.size ELSE e.stored_size
  <2>1. format # 1
    BY <1>8
  <2>2. CompleteFile(e) =
          [Sized(e) EXCEPT !.stored_size = stored, !.compression = GlobalComp, !.crc = 2]
    BY <2>1, <1>8 DEF CompleteFile
  <2> HIDE DEF stored
  <2>3. CompleteFile(e) = file(e.size, e.archive_offset, stored, GlobalComp, 2, None)
    <3>1. CompleteFile(e) = [file(e.size, e.archive_offset, 0, "n", None, None) EXCEPT
                               !.stored_size = stored, !.compression = GlobalComp, !.crc = 2]
      BY <2>2, <1>2, Zenon
    <3>2. QED
      BY <3>1, ZenonT(40)
  <2>4. QED
    BY <2>3 DEF stored
<1>9. ASSUME format >= 8
      PROVE  CompleteFile(e) =
               file(e.size, e.archive_offset, e.stored_size, e.compression,
                    IF e.crc_width = 0 THEN None ELSE e.crc_width, None)
  <2>1. format # 1 /\ format \notin 2..7
    BY <1>9
  <2>2. CompleteFile(e) = IF e.crc_width = 0 THEN Stored(e)
                          ELSE [Stored(e) EXCEPT !.crc = e.crc_width]
    BY <2>1 DEF CompleteFile
  <2>3. QED
    BY <2>2, <1>3
<1>10. format = 1 \/ format \in 2..7 \/ format >= 8
  OBVIOUS
<1>11. \E size, offset, stored, compression, crc, target :
          Complete(e) = file(size, offset, stored, compression, crc, target)
  BY <1>4, <1>5, <1>6, <1>7, <1>8, <1>9, <1>10
<1>12. LET c == Complete(e) IN
       /\ c.type = e.type /\ c.name = e.name.text /\ c.flags = flags
       /\ c.uid = uid /\ c.gid = gid /\ c.mode = mode
       /\ c.atime = atime /\ c.mtime = mtime /\ c.ctime = ctime
  BY <1>11
<1>13. e.type # "f" =>
         /\ Complete(e).size = 0 /\ Complete(e).archive_offset = 0 /\ Complete(e).stored_size = 0
         /\ e.type = "l" => Complete(e).target = e.name.text
  BY <1>4, <1>5
<1>14. ASSUME e.type = "f"
       PROVE  LET c == Complete(e) IN
              /\ c.size = e.size /\ c.archive_offset = e.archive_offset
              /\ c.compression = IF format <= 7 THEN GlobalComp ELSE e.compression
              /\ c.stored_size = IF format = 1 \/ (format <= 7 /\ e.stored_size = 0)
                                 THEN e.size ELSE e.stored_size
              /\ format \in 2..7 => c.crc = 2
              /\ format >= 8 /\ e.crc_width # 0 => c.crc = e.crc_width
  <2>1. CASE format = 1
    BY <2>1, <1>6, <1>7, <1>14
  <2>2. CASE format \in 2..7
    <3>1. format # 1 /\ format <= 7 /\ ~(format >= 8)
      BY <2>2
    <3>2. QED
      BY <2>2, <3>1, <1>6, <1>8, <1>14
  <2>3. CASE format >= 8
    <3>1. format # 1 /\ ~(format <= 7) /\ format \notin 2..7
      BY <2>3
    <3>2. QED
      BY <2>3, <3>1, <1>6, <1>9, <1>14
  <2>4. QED
    BY <2>1, <2>2, <2>3, <1>10
<1>15. QED
  BY <1>12, <1>13, <1>14 DEF flags, ctime, uid, gid, mode, atime, mtime
\* A token's value is what is listed under its field.
Agrees(e, t) ==
    /\ t.field \in DOMAIN Blank \ {"atime", "mtime", "ctime", "stored_size"} =>
          Complete(e)[t.field] = t.value
    /\ t.field = "atime" => t.value = e.atime
    /\ t.field = "mtime" => t.value = e.mtime
    /\ t.field = "ctime" => t.value = e.ctime /\ format >= 8
    /\ t.field = "size" => t.value = e.size
    /\ t.field = "stored_size" => t.value = e.stored_size /\ format # 1

LEMMA Agreement ==
    ASSUME NEW e \in EntryFields, format \in Nat \ {0}, ~HasEa(e.flags), e.type # "c"
    PROVE  \A t \in Range(WrittenEntry(e)) : Agrees(e, t)
<1>1. DOMAIN Blank =
        {"name", "flags", "uid", "gid", "mode", "atime", "mtime", "ctime", "size",
         "archive_offset", "stored_size", "compression", "crc", "target", "type"}
  BY DEF Blank
<1>2. /\ e.atime \in Nat /\ e.mtime \in Nat /\ e.ctime \in Nat
      /\ "atime" \in {"atime", "mtime", "ctime"} /\ "mtime" \in {"atime", "mtime", "ctime"}
      /\ "ctime" \in {"atime", "mtime", "ctime"}
  BY EntryTypes
<1>3. ASSUME NEW t, t.field \in {"unit", "subsecond", "fsa_families", "fsa_size", "fsa_offset",
                                 "fsa_crc_width", "fsa_crc", "crc_width", "file_data_status"}
      PROVE  Agrees(e, t)
  BY <1>1, <1>3 DEF Agrees
<1>4. e.type = "f" /\ format >= 8 => \A t \in Range(AheadCrc(e)) : Agrees(e, t)
  <2> SUFFICES ASSUME e.type = "f", format >= 8, NEW t \in Range(AheadCrc(e))
               PROVE  Agrees(e, t)
    OBVIOUS
  <2>1. CASE t.field = "crc_width"
    BY <2>1, <1>3
  <2>2. CASE e.crc_width # 0 /\ t = Token("raw", "crc", e.crc_width, e.crc_width)
    <3>1. t.field = "crc" /\ t.value = e.crc_width
      BY <2>2 DEF Token
    <3>2. Complete(e).crc = e.crc_width
      BY <2>2, CompleteFields
    <3>3. QED
      BY <3>1, <3>2 DEF Agrees
  <2>3. QED
    BY <2>1, <2>2, TokensOfRows
<1>5. e.type = "f" => \A t \in Range(AheadStored(e)) : Agrees(e, t)
  <2> SUFFICES ASSUME e.type = "f" PROVE \A t \in Range(AheadStored(e)) : Agrees(e, t)
    OBVIOUS
  <2>1. format # 1 => Agrees(e, Token("inf", "stored_size", e.stored_size, 5))
    BY DEF Agrees, Token
  <2>2. CASE format = 1
    BY <2>2, RangeOfOne DEF AheadStored
  <2>3. CASE format \in 2..7
    <3>1. AheadStored(e) = LegacyRow(e) /\ format # 1
      BY <2>3 DEF AheadStored
    <3>2. Complete(e).crc = 2
      BY <2>3, CompleteFields
    <3>3. Agrees(e, Token("raw", "crc", 2, 2))
      BY <3>2 DEF Agrees, Token
    <3>4. QED
      BY <3>1, <3>3, <2>1, TokensOfRows
  <2>4. CASE format >= 8
    <3>1. format # 1 /\ ~(format <= 7)
      BY <2>4
    <3>2. Complete(e).compression = e.compression
      BY <3>1, CompleteFields
    <3>3. Agrees(e, Token("u8", "compression", e.compression, 1))
      BY <3>2 DEF Agrees, Token
    <3>4. Agrees(e, Token("u8", "file_data_status", "none", 1))
      BY <1>3 DEF Token
    <3>5. \A t \in Range(StoredRow(e)) : Agrees(e, t)
      BY <3>1, <3>3, <3>4, <2>1, TokensOfRows
    <3>6. QED
      BY <2>4, <3>5, <1>4, TokensAhead
  <2>5. format = 1 \/ format \in 2..7 \/ format >= 8
    OBVIOUS
  <2>6. QED
    BY <2>2, <2>3, <2>4, <2>5
<1>6. \A t \in Range(AheadRest(e)) : Agrees(e, t)
  <2>1. CASE e.type = "f"
    <3>1. Complete(e).size = e.size /\ Complete(e).archive_offset = e.archive_offset
      BY <2>1, CompleteFields
    <3>2. Agrees(e, Token("inf", "size", e.size, 5))
          /\ Agrees(e, Token("inf", "archive_offset", e.archive_offset, 5))
      BY <3>1 DEF Agrees, Token
    <3>3. QED
      BY <2>1, <3>2, <1>5, TokensAhead, TokensOfRows
  <2>2. CASE e.type = "l"
    <3>1. Complete(e).target = e.name.text
      BY <2>2, CompleteFields
    <3>2. Agrees(e, Token("nul", "target", e.name.text, e.name.length))
      BY <3>1 DEF Agrees, Token
    <3>3. AheadRest(e) = Nul("target", e.name)
      BY <2>2 DEF AheadRest
    <3>4. QED
      BY <3>2, <3>3, TokensOfRows
  <2>3. CASE e.type \notin {"f", "l"}
    BY <2>3, RangeOfOne DEF AheadRest
  <2>4. QED
    BY <2>1, <2>2, <2>3
<1>7. \A t \in Range(AheadFsaSize(e)) : Agrees(e, t)
  <2>1. \A t \in Range(FsaSizeRow(e)) : Agrees(e, t)
    BY <1>3, TokensOfRows
  <2>2. QED
    BY <2>1, <1>6, TokensAhead
<1>8. \A t \in Range(AheadFsa(e)) : Agrees(e, t)
  <2>1. \A t \in Range(FsaRow) : Agrees(e, t)
    BY <1>3, TokensOfRows
  <2>2. QED
    BY <2>1, <1>7, TokensAhead
<1>9. \A t \in Range(AfterTimes(e)) : Agrees(e, t)
  BY <1>6, <1>8 DEF AfterTimes
<1>10. ASSUME NEW field \in {"atime", "mtime", "ctime"}, NEW seconds \in Nat,
              Agrees(e, Token("inf", field, seconds, 5))
       PROVE  \A t \in Range(WrittenTime(field, seconds, e.unit)) : Agrees(e, t)
  <2> SUFFICES ASSUME NEW t \in Range(WrittenTime(field, seconds, e.unit)) PROVE Agrees(e, t)
    OBVIOUS
  <2>1. t = Token("inf", field, seconds, 5) \/ t.field \in {"unit", "subsecond"}
    BY TokensOfRows
  <2>2. QED
    BY <2>1, <1>3, <1>10
<1>11. /\ Agrees(e, Token("inf", "atime", e.atime, 5)) /\ Agrees(e, Token("inf", "mtime", e.mtime, 5))
       /\ format >= 8 => Agrees(e, Token("inf", "ctime", e.ctime, 5))
  BY DEF Agrees, Token
<1>12. format >= 8 => \A t \in Range(AheadCtime(e)) : Agrees(e, t)
  BY <1>2, <1>9, <1>10, <1>11, TokensAhead
<1>13. \A t \in Range(AfterMtime(e)) : Agrees(e, t)
  BY <1>9, <1>12 DEF AfterMtime
<1>14. \A t \in Range(AheadMtime(e)) : Agrees(e, t)
  BY <1>2, <1>10, <1>11, <1>13, TokensAhead
<1>15. \A t \in Range(AheadAtime(e)) : Agrees(e, t)
  BY <1>2, <1>10, <1>11, <1>14, TokensAhead
<1>16. \A t \in Range(AheadMode(e)) : Agrees(e, t)
  <2>1. Agrees(e, Token("u16", "mode", e.mode % SHORT, 2))
    BY CompleteFields DEF Agrees, Token
  <2>2. QED
    BY <2>1, <1>15, TokensAhead, TokensOfRows
<1>17. \A t \in Range(AheadOwner(e)) : Agrees(e, t)
  <2>1. Complete(e).uid = owner(e.uid) /\ Complete(e).gid = owner(e.gid)
    BY CompleteFields
  <2>2. \A t \in Range(OwnerRow(e)) : Agrees(e, t)
    <3>1. CASE format <= 7
      <4>1. Agrees(e, Token("u16", "uid", e.uid % SHORT, 2))
            /\ Agrees(e, Token("u16", "gid", e.gid % SHORT, 2))
        BY <2>1, <3>1 DEF Agrees, Token, owner
      <4>2. QED
        BY <3>1, <4>1, TokensOfRows
    <3>2. CASE ~(format <= 7)
      <4>1. Agrees(e, Token("inf", "uid", e.uid, 5)) /\ Agrees(e, Token("inf", "gid", e.gid, 5))
        BY <2>1, <3>2 DEF Agrees, Token, owner
      <4>2. QED
        BY <3>2, <4>1, TokensOfRows
    <3>3. QED
      BY <3>1, <3>2
  <2>3. QED
    BY <2>2, <1>16, TokensAhead
<1>18. \A t \in Range(AfterName(e)) : Agrees(e, t)
  <2>1. CASE format >= 2
    <3>1. Agrees(e, Token("u8", "flags", e.flags, 1))
      <4>1. Complete(e).flags = e.flags
        BY <2>1, CompleteFields
      <4>2. QED
        BY <4>1 DEF Agrees, Token
    <3>2. QED
      BY <2>1, <3>1, <1>17, TokensAhead, TokensOfRows DEF AfterName
  <2>2. CASE ~(format >= 2)
    BY <2>2, <1>17 DEF AfterName
  <2>3. QED
    BY <2>1, <2>2
<1>19. Agrees(e, Token("nul", "name", e.name.text, e.name.length))
       /\ Agrees(e, Token("u8", "type", e.type, 1))
  BY CompleteFields DEF Agrees, Token
<1>20. QED
  BY <1>18, <1>19, TokensAhead, TokensOfRows

\* The numbers that an entry is written with.
LEMMA Present ==
    ASSUME NEW e \in EntryFields, format \in Nat \ {0}, ~HasEa(e.flags), e.type # "c"
    PROVE  /\ Token("inf", "atime", e.atime, 5) \in Range(WrittenEntry(e))
           /\ Token("inf", "mtime", e.mtime, 5) \in Range(WrittenEntry(e))
           /\ format >= 8 => /\ Token("inf", "uid", e.uid, 5) \in Range(WrittenEntry(e))
                             /\ Token("inf", "gid", e.gid, 5) \in Range(WrittenEntry(e))
                             /\ Token("inf", "ctime", e.ctime, 5) \in Range(WrittenEntry(e))
           /\ e.type = "f" =>
                 /\ Token("inf", "size", e.size, 5) \in Range(WrittenEntry(e))
                 /\ Token("inf", "archive_offset", e.archive_offset, 5) \in Range(WrittenEntry(e))
                 /\ format # 1 =>
                       Token("inf", "stored_size", e.stored_size, 5) \in Range(WrittenEntry(e))
<1> DEFINE R == Range(WrittenEntry(e))
<1>1. Range(AfterName(e)) \subseteq R
  BY TokensAhead
<1>2. Range(AheadOwner(e)) \subseteq R
  BY <1>1, TokensAhead DEF AfterName
<1>3. Range(AheadAtime(e)) \subseteq R /\ Range(OwnerRow(e)) \subseteq R
  BY <1>2, TokensAhead
<1>4. Range(AheadMtime(e)) \subseteq R /\ Range(WrittenTime("atime", e.atime, e.unit)) \subseteq R
  BY <1>3, TokensAhead
<1>5. Range(AfterMtime(e)) \subseteq R /\ Range(WrittenTime("mtime", e.mtime, e.unit)) \subseteq R
  BY <1>4, TokensAhead
<1>6. Range(AfterTimes(e)) \subseteq R
  BY <1>5, TokensAhead DEF AfterMtime
<1>7. Range(AheadRest(e)) \subseteq R
  <2>1. Range(AheadRest(e)) \subseteq Range(AheadFsa(e))
    BY TokensAhead
  <2>2. QED
    BY <2>1, <1>6 DEF AfterTimes
<1>8. Token("inf", "atime", e.atime, 5) \in R /\ Token("inf", "mtime", e.mtime, 5) \in R
  <2>1. e.atime \in Nat /\ e.mtime \in Nat
        /\ "atime" \in {"atime", "mtime", "ctime"} /\ "mtime" \in {"atime", "mtime", "ctime"}
    BY EntryTypes
  <2>2. QED
    BY <2>1, <1>4, <1>5, TokensOfRows
<1>9. format >= 8 => Token("inf", "uid", e.uid, 5) \in R /\ Token("inf", "gid", e.gid, 5) \in R
  <2>1. format >= 8 => ~(format <= 7)
    OBVIOUS
  <2>2. QED
    BY <2>1, <1>3, TokensOfRows
<1>10. ASSUME format >= 8 PROVE Token("inf", "ctime", e.ctime, 5) \in R
  <2>1. Range(WrittenTime("ctime", e.ctime, e.unit)) \subseteq R
    <3>1. AfterMtime(e) = AheadCtime(e)
      BY <1>10 DEF AfterMtime
    <3>2. Range(WrittenTime("ctime", e.ctime, e.unit)) \subseteq Range(AheadCtime(e))
      BY TokensAhead
    <3>3. QED
      BY <3>1, <3>2, <1>5
  <2>2. e.ctime \in Nat /\ "ctime" \in {"atime", "mtime", "ctime"}
    BY EntryTypes
  <2>3. QED
    BY <2>1, <2>2, TokensOfRows
<1>11. ASSUME e.type = "f"
       PROVE  /\ Token("inf", "size", e.size, 5) \in R
              /\ Token("inf", "archive_offset", e.archive_offset, 5) \in R
              /\ format # 1 => Token("inf", "stored_size", e.stored_size, 5) \in R
  <2>1. Range(SizesRow(e)) \subseteq R /\ Range(AheadStored(e)) \subseteq R
    BY <1>7, <1>11, TokensAhead
  <2>2. ASSUME format # 1 PROVE Token("inf", "stored_size", e.stored_size, 5) \in R
    <3>1. CASE format \in 2..7
      <4>1. AheadStored(e) = LegacyRow(e)
        BY <3>1, <2>2 DEF AheadStored
      <4>2. QED
        BY <4>1, <2>1, TokensOfRows
    <3>2. CASE format >= 8
      BY <3>2, <2>1, TokensAhead, TokensOfRows
    <3>3. format \in 2..7 \/ format >= 8
      BY <2>2
    <3>4. QED
      BY <3>1, <3>2, <3>3
  <2>3. QED
    BY <2>1, <2>2, TokensOfRows
<1>12. QED
  BY <1>8, <1>9, <1>10, <1>11

\* The numbers of an entry that is not refused fit.
LEMMA Fitting ==
    ASSUME NEW e \in EntryFields, format \in Nat \ {0}, ~HasEa(e.flags), e.type # "c",
           ~HasExcess(e)
    PROVE  /\ e.atime < WORD /\ e.mtime < WORD
           /\ format >= 8 => e.uid < WORD /\ e.gid < WORD /\ e.ctime < WORD
           /\ e.type = "f" => /\ e.size < WORD /\ e.archive_offset < WORD
                              /\ format # 1 => e.stored_size < WORD
<1>1. ASSUME NEW field, NEW n \in Nat, Token("inf", field, n, 5) \in Range(WrittenEntry(e))
      PROVE  n < WORD
  <2>1. ~Excessive(Token("inf", field, n, 5))
    BY <1>1 DEF HasExcess
  <2>2. ~(n >= WORD)
    BY <2>1 DEF Excessive, Token
  <2>3. QED
    BY <2>2, FieldConstants
<1>2. e.atime \in Nat /\ e.mtime \in Nat /\ e.ctime \in Nat /\ e.uid \in Nat /\ e.gid \in Nat
      /\ e.size \in Nat /\ e.archive_offset \in Nat /\ e.stored_size \in Nat
  BY EntryTypes
<1>3. QED
  BY <1>1, <1>2, Present

LEMMA Times ==
    ASSUME NEW n \in Nat, n < WORD
    PROVE  as_i64(n) \in -(WORD \div 2)..(WORD \div 2 - 1)
<1>1. WORD \in Nat /\ WORD % 2 = 0
  BY FieldConstants
<1>2. PICK half \in Nat : half = WORD \div 2 /\ WORD = 2 * half
  BY <1>1
<1>3. CASE n < half
  BY <1>1, <1>2, <1>3 DEF as_i64
<1>4. CASE ~(n < half)
  BY <1>1, <1>2, <1>4 DEF as_i64
<1>5. QED
  BY <1>3, <1>4

\* What the invariant says of a listed entry.
LEMMA Listed ==
    ASSUME NoEa, IInv, NEW i \in DOMAIN listed
    PROVE  /\ format \in Nat \ {0} /\ written[i] \in EntryFields
           /\ ~HasEa(written[i].flags) /\ written[i].type # "c" /\ ~HasExcess(written[i])
           /\ listed[i] = Complete(written[i])
<1>1. format \in Nat \ {0} /\ Len(written) \in Nat
      /\ \A k \in 1..Len(written) : written[k] \in EntryFields /\ ~HasEa(written[k].flags)
  BY WrittenTypes DEF IInv, Constant
<1>2. i \in 1..Len(listed) /\ Len(listed) \in 0..Len(written)
  BY DEF IInv, ListedSoFar
<1>3. i \in 1..Len(written)
  BY <1>1, <1>2
<1>4. QED
  BY <1>1, <1>2, <1>3 DEF IInv, ListedSoFar

\* The listing has the types of the code's struct, in every format.
THEOREM TypeCorrect ==
    ASSUME NoEa
    PROVE  Spec => []TypeOK
<1>1. IInv => TypeOK
  <2> SUFFICES ASSUME IInv PROVE TypeOK
    OBVIOUS
  <2>1. end \in 0..Len(stream) /\ at \in 1..(Len(stream) + 1)
        /\ pc \in {"type", "name", "flags", "owner", "mode", "atime", "mtime", "ctime", "fsa",
                   "fsa size", "rest", "stored", "crc"} \cup Ended
    BY DEF IInv, Constant, InStep, Reading, Ended
  <2>2. ASSUME NEW i \in DOMAIN listed
        PROVE  /\ {listed[i].uid, listed[i].gid, listed[i].mode, listed[i].size,
                   listed[i].archive_offset, listed[i].stored_size} \subseteq 0..(WORD - 1)
               /\ {listed[i].atime, listed[i].mtime}
                      \subseteq -(WORD \div 2)..(WORD \div 2 - 1)
               /\ listed[i].ctime = None <=> format < 8
    <3> DEFINE e == written[i]
    <3>1. /\ format \in Nat \ {0} /\ e \in EntryFields /\ ~HasEa(e.flags) /\ e.type # "c"
          /\ ~HasExcess(e) /\ listed[i] = Complete(e)
      BY <2>2, Listed
    <3> HIDE DEF e
    <3>2. /\ e.uid \in Nat /\ e.gid \in Nat /\ e.mode \in Nat /\ e.atime \in Nat
          /\ e.mtime \in Nat /\ e.ctime \in Nat /\ e.size \in Nat /\ e.archive_offset \in Nat
          /\ e.stored_size \in Nat
      BY <3>1, EntryTypes
    <3>3. /\ WORD \in Nat \ {0} /\ SHORT \in Nat \ {0} /\ SHORT <= WORD
      BY FieldConstants
    <3>4. \A n \in Nat : n % SHORT \in 0..(WORD - 1)
      <4>1. \A n \in Nat : n % SHORT \in 0..(SHORT - 1)
        BY <3>3
      <4>2. QED
        BY <4>1, <3>3
    <3>5. listed[i].uid \in 0..(WORD - 1) /\ listed[i].gid \in 0..(WORD - 1)
      <4>1. listed[i].uid = owner(e.uid) /\ listed[i].gid = owner(e.gid)
        BY <3>1, CompleteFields
      <4>2. CASE format <= 7
        BY <4>1, <4>2, <3>2, <3>4 DEF owner
      <4>3. CASE ~(format <= 7)
        <5>1. format >= 8
          BY <4>3, <3>1
        <5>2. e.uid < WORD /\ e.gid < WORD
          BY <5>1, <3>1, Fitting
        <5>3. e.uid \in 0..(WORD - 1) /\ e.gid \in 0..(WORD - 1)
          BY <5>2, <3>2, <3>3
        <5>4. QED
          BY <5>3, <4>1, <4>3 DEF owner
      <4>4. QED
        BY <4>2, <4>3
    <3>6. listed[i].mode \in 0..(WORD - 1)
      BY <3>1, <3>2, <3>4, CompleteFields
    <3>7. /\ listed[i].size \in 0..(WORD - 1) /\ listed[i].archive_offset \in 0..(WORD - 1)
          /\ listed[i].stored_size \in 0..(WORD - 1)
      <4>1. CASE e.type # "f"
        <5>1. listed[i].size = 0 /\ listed[i].archive_offset = 0 /\ listed[i].stored_size = 0
          BY <4>1, <3>1, CompleteFields
        <5>2. QED
          BY <5>1, <3>3
      <4>2. CASE e.type = "f"
        <5>1. /\ listed[i].size = e.size /\ listed[i].archive_offset = e.archive_offset
              /\ listed[i].stored_size \in {e.size, e.stored_size}
              /\ format = 1 => listed[i].stored_size = e.size
          BY <4>2, <3>1, CompleteFields
        <5>2. e.size < WORD /\ e.archive_offset < WORD /\ (format # 1 => e.stored_size < WORD)
          BY <4>2, <3>1, Fitting
        <5>3. e.size \in 0..(WORD - 1) /\ e.archive_offset \in 0..(WORD - 1)
              /\ (format # 1 => e.stored_size \in 0..(WORD - 1))
          BY <5>2, <3>2, <3>3
        <5>4. QED
          BY <5>1, <5>3
      <4>3. QED
        BY <4>1, <4>2
    <3>8. listed[i].atime \in -(WORD \div 2)..(WORD \div 2 - 1)
          /\ listed[i].mtime \in -(WORD \div 2)..(WORD \div 2 - 1)
      <4>1. listed[i].atime = as_i64(e.atime) /\ listed[i].mtime = as_i64(e.mtime)
        BY <3>1, CompleteFields
      <4>2. e.atime < WORD /\ e.mtime < WORD
        BY <3>1, Fitting
      <4>3. QED
        BY <4>1, <4>2, <3>2, Times
    <3>9. listed[i].ctime = None <=> format < 8
      <4>1. listed[i].ctime = IF format >= 8 THEN as_i64(e.ctime) ELSE None
        BY <3>1, CompleteFields
      <4>2. as_i64(e.ctime) \in Int /\ None \notin Int
        BY <3>2, <3>3, FieldConstants DEF as_i64
      <4>3. format >= 8 <=> ~(format < 8)
        BY <3>1
      <4>4. QED
        BY <4>1, <4>2, <4>3
    <3>10. QED
      BY <3>5, <3>6, <3>7, <3>8, <3>9
  <2>3. QED
    BY <2>1, <2>2 DEF TypeOK
<1>2. QED
  BY <1>1, Inductive, PTL

\* Every listed field is the one that was written under its name, in every
\* format, and the fields that a format lacks are filled in.
THEOREM ListsWhatWasWritten ==
    ASSUME NoEa
    PROVE  Spec => []ReadsWhatWasWritten
<1>1. IInv => ReadsWhatWasWritten
  <2> SUFFICES ASSUME IInv, NEW i \in DOMAIN listed
               PROVE  /\ \A field \in DOMAIN Blank \ {"atime", "mtime", "ctime", "stored_size"} :
                            \A v \in WrittenAs(i, field) : listed[i][field] = v
                      /\ \A field \in {"atime", "mtime", "ctime"} :
                            \A v \in WrittenAs(i, field) :
                               IF v < WORD \div 2 THEN listed[i][field] = v
                               ELSE listed[i][field] < 0
                      /\ LET stored == WrittenAs(i, "stored_size") IN
                         listed[i].type = "f" =>
                            IF stored = {} \/ (format <= 7 /\ stored = {0})
                            THEN {listed[i].stored_size} = WrittenAs(i, "size")
                            ELSE {listed[i].stored_size} = stored
                      /\ listed[i].type = "f" /\ format <= 7 =>
                            listed[i].compression = GlobalComp
    BY DEF ReadsWhatWasWritten
  <2> DEFINE e == written[i]
  <2>1. /\ format \in Nat \ {0} /\ e \in EntryFields /\ ~HasEa(e.flags) /\ e.type # "c"
        /\ ~HasExcess(e) /\ listed[i] = Complete(e)
    BY Listed
  <2>2. ASSUME NEW field, NEW v \in WrittenAs(i, field)
        PROVE  \E t \in Range(WrittenEntry(e)) : t.field = field /\ t.value = v /\ Agrees(e, t)
    <3>1. PICK t \in Range(WrittenEntry(e)) : t.field = field /\ t.value = v
      BY <2>2 DEF WrittenAs
    <3>2. Agrees(e, t)
      BY <3>1, <2>1, Agreement
    <3>3. QED
      BY <3>1, <3>2
  <2>3. \A field : \A t \in Range(WrittenEntry(e)) : t.field = field => t.value \in WrittenAs(i, field)
    BY DEF WrittenAs
  <2> HIDE DEF e
  <2>4. ASSUME NEW field \in DOMAIN Blank \ {"atime", "mtime", "ctime", "stored_size"},
               NEW v \in WrittenAs(i, field)
        PROVE  listed[i][field] = v
    BY <2>1, <2>2, <2>4 DEF Agrees
  <2>5. ASSUME NEW field \in {"atime", "mtime", "ctime"}, NEW v \in WrittenAs(i, field)
        PROVE  IF v < WORD \div 2 THEN listed[i][field] = v ELSE listed[i][field] < 0
    <3>1. PICK t \in Range(WrittenEntry(e)) : t.field = field /\ t.value = v /\ Agrees(e, t)
      BY <2>2
    <3>2. e.atime \in Nat /\ e.mtime \in Nat /\ e.ctime \in Nat
      BY <2>1, EntryTypes
    <3>3. listed[i][field] = as_i64(v) /\ v \in Nat
      <4>1. CASE field = "atime"
        BY <4>1, <3>1, <3>2, <2>1, CompleteFields DEF Agrees
      <4>2. CASE field = "mtime"
        BY <4>2, <3>1, <3>2, <2>1, CompleteFields DEF Agrees
      <4>3. CASE field = "ctime"
        BY <4>3, <3>1, <3>2, <2>1, CompleteFields DEF Agrees
      <4>4. QED
        BY <4>1, <4>2, <4>3
    <3>4. v < WORD
      <4>1. /\ e.atime < WORD /\ e.mtime < WORD /\ (format >= 8 => e.ctime < WORD)
        BY <2>1, Fitting
      <4>2. CASE field = "atime"
        BY <4>1, <4>2, <3>1 DEF Agrees
      <4>3. CASE field = "mtime"
        BY <4>1, <4>3, <3>1 DEF Agrees
      <4>4. CASE field = "ctime"
        BY <4>1, <4>4, <3>1 DEF Agrees
      <4>5. QED
        BY <4>2, <4>3, <4>4
    <3>5. WORD \in Nat /\ WORD % 2 = 0
      BY FieldConstants
    <3>6. PICK half \in Nat : half = WORD \div 2 /\ WORD = 2 * half
      BY <3>5
    <3>7. CASE v < half
      BY <3>3, <3>6, <3>7 DEF as_i64
    <3>8. CASE ~(v < half)
      BY <3>3, <3>4, <3>5, <3>6, <3>8 DEF as_i64
    <3>9. QED
      BY <3>7, <3>8
  <2>6. ASSUME e.type = "f"
        PROVE  /\ WrittenAs(i, "size") = {e.size}
               /\ WrittenAs(i, "stored_size") = IF format = 1 THEN {} ELSE {e.stored_size}
    <3>1. e.size \in WrittenAs(i, "size")
      <4>1. Token("inf", "size", e.size, 5) \in Range(WrittenEntry(e))
        BY <2>1, <2>6, Present
      <4>2. Token("inf", "size", e.size, 5).field = "size"
            /\ Token("inf", "size", e.size, 5).value = e.size
        BY DEF Token
      <4>3. QED
        BY <4>1, <4>2, <2>3
    <3>2. WrittenAs(i, "size") \subseteq {e.size}
      BY <2>2 DEF Agrees
    <3>3. ASSUME format # 1 PROVE e.stored_size \in WrittenAs(i, "stored_size")
      <4>1. Token("inf", "stored_size", e.stored_size, 5) \in Range(WrittenEntry(e))
        BY <2>1, <2>6, <3>3, Present
      <4>2. Token("inf", "stored_size", e.stored_size, 5).field = "stored_size"
            /\ Token("inf", "stored_size", e.stored_size, 5).value = e.stored_size
        BY DEF Token
      <4>3. QED
        BY <4>1, <4>2, <2>3
    <3>4. \A v \in WrittenAs(i, "stored_size") : v = e.stored_size /\ format # 1
      BY <2>2 DEF Agrees
    <3>5. QED
      BY <3>1, <3>2, <3>3, <3>4
  <2>7. listed[i].type = e.type
    BY <2>1, CompleteFields
  <2>8. ASSUME e.type = "f"
        PROVE  LET stored == WrittenAs(i, "stored_size") IN
               IF stored = {} \/ (format <= 7 /\ stored = {0})
               THEN {listed[i].stored_size} = WrittenAs(i, "size")
               ELSE {listed[i].stored_size} = stored
    <3>1. listed[i].stored_size = IF format = 1 \/ (format <= 7 /\ e.stored_size = 0)
                                  THEN e.size ELSE e.stored_size
      BY <2>1, <2>8, CompleteFields
    <3>2. /\ WrittenAs(i, "size") = {e.size}
          /\ WrittenAs(i, "stored_size") = IF format = 1 THEN {} ELSE {e.stored_size}
      BY <2>6, <2>8
    <3>3. QED
      BY <3>1, <3>2
  <2>9. e.type = "f" /\ format <= 7 => listed[i].compression = GlobalComp
    BY <2>1, CompleteFields
  <2>10. QED
    BY <2>4, <2>5, <2>7, <2>8, <2>9
<1>2. QED
  BY <1>1, Inductive, PTL
=============================================================================
