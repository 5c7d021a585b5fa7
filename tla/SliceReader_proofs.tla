------------------------- MODULE SliceReader_proofs -------------------------
(***************************************************************************)
(* The spans that SliceReader::open lays out, for archives of any size in  *)
(* any number of slices, of which any may be missing or cut at any time,   *)
(* what seeks and reads leave of them, and that the stream they make is    *)
(* the unsliced archive.                                                   *)
(***************************************************************************)
EXTENDS SliceReader, SequenceTheorems, WellFoundedInduction, TLAPS

Slice == [header : Nat, first : Nat, data : Nat]
Span == [file_data_start : Nat, logical_start : Nat, logical_len : Nat]

LEMMA SlicingFacts ==
    ASSUME slicing \in Slicings
    PROVE  /\ Len(slicing) \in Nat \ {0}
           /\ DOMAIN slicing = 1..Len(slicing)
           /\ \A i \in 1..Len(slicing) : /\ slicing[i].header \in Nat
                                         /\ slicing[i].first \in Nat
                                         /\ slicing[i].data \in Nat
                                         /\ flag(i) \in {0, 1}
           /\ slicing[1].header = 0 /\ slicing[1].first = 0
           /\ \A i \in 1..(Len(slicing) - 1) :
                  slicing[i + 1].first = slicing[i].first + slicing[i].data
<1>1. /\ slicing \in Seq(Slice) /\ Len(slicing) > 0
      /\ slicing[1].header = 0 /\ slicing[1].first = 0
      /\ \A i \in 1..(Len(slicing) - 1) :
             slicing[i + 1].first = slicing[i].first + slicing[i].data
  BY SlicerConstants DEF SlicerConstants, SlicingsAreContiguous, Slice
<1>2. Len(slicing) \in Nat /\ DOMAIN slicing = 1..Len(slicing)
  BY <1>1, LenProperties
<1>3. ASSUME NEW i \in 1..Len(slicing)
      PROVE  slicing[i].header \in Nat /\ slicing[i].first \in Nat /\ slicing[i].data \in Nat
  <2>1. slicing[i] \in Slice
    BY <1>1, ElementOfSeq
  <2>2. QED
    BY <2>1 DEF Slice
<1>4. QED
  BY <1>1, <1>2, <1>3 DEF flag

\* Naturals have a least one among them.
LEMMA Smallest ==
    ASSUME NEW T \in SUBSET Nat, T # {}
    PROVE  \E x \in T : \A y \in T : x <= y
<1> DEFINE Less == OpToRel(<, Nat)
<1>1. \A x, y \in Nat : x < y => <<x, y>> \in Less
  BY DEF OpToRel
<1>2. IsWellFoundedOn(Less, Nat)
  BY NatLessThanWellFounded
<1> HIDE DEF Less
<1>3. PICK x \in T : \A y \in T : ~(<<y, x>> \in Less)
  BY <1>2, WFMin
<1>4. \A y \in T : ~(y < x)
  BY <1>1, <1>3
<1>5. \A y \in T : x <= y
  BY <1>4
<1>6. QED
  BY <1>5

\* The first number that is missing exists, and findable is the one before it.
LEMMA FindableFacts ==
    ASSUME slicing \in Slicings, present \subseteq DOMAIN slicing
    PROVE  findable \in 0..Len(slicing) /\ 1..findable \subseteq present
           /\ findable + 1 \notin present
<1> DEFINE Missing == {n \in Nat : n + 1 \notin present}
<1>1. Len(slicing) \in Nat /\ DOMAIN slicing = 1..Len(slicing)
  BY SlicingFacts
<1>2. Len(slicing) \in Missing
  <2>1. Len(slicing) + 1 \notin present
    BY <1>1
  <2>2. QED
    BY <1>1, <2>1
<1>3. PICK n \in Missing : \A m \in Missing : n <= m
  BY <1>2, Smallest
<1>4. n \in Nat /\ n + 1 \notin present /\ \A m \in Missing : ~(m < n)
  BY <1>3
<1>5. n \in 0..Len(slicing)
  BY <1>1, <1>2, <1>4
<1>6. 1..n \subseteq present
  <2>1. SUFFICES ASSUME NEW i \in 1..n PROVE i \in present
    OBVIOUS
  <2>2. i - 1 \in Nat /\ i - 1 < n /\ (i - 1) + 1 = i
    BY <1>4
  <2>3. i - 1 \notin Missing
    BY <1>4, <2>2
  <2>4. QED
    BY <2>2, <2>3
<1>7. QED
  BY <1>4, <1>5, <1>6 DEF findable

-----------------------------------------------------------------------------
(***************************************************************************)
(* What open_slices has found is there, and all there is once it ends.     *)
(***************************************************************************)
Discovery ==
    /\ 1..found \subseteq present
    /\ phase # "finding" => found = findable
    /\ phase = "finding" => slices = << >>
    /\ phase = "opening" => Len(slices) < found
    /\ Len(slices) <= found

\* Unless one was cut, the files have the lengths that dar wrote.
FilesAreWhole ==
    intact => \A i \in 1..Len(slicing) :
                  len[i] = slicing[i].header + slicing[i].data + flag(i)

\* The spans follow each other, and `total` is where the last one ends.
Chain ==
    /\ \A i \in 1..Len(slices) :
          /\ slices[i].logical_start = IF i = 1 THEN 0 ELSE EndOf(i - 1)
          /\ slices[i].file_data_start = file_data_start(i)
    /\ total = IF slices = << >> THEN 0 ELSE EndOf(Len(slices))

\* A span of whole files is the data that dar put there.
SpansAreData ==
    intact => \A i \in 1..Len(slices) :
                  /\ slices[i].logical_start = slicing[i].first
                  /\ slices[i].logical_len = slicing[i].data + flag(i) - trailer(i)

Inv ==
    /\ TypeOK
    /\ Discovery
    /\ FilesAreWhole
    /\ Chain
    /\ SpansAreData

LEMMA Counts ==
    ASSUME TypeOK
    PROVE  /\ Len(slicing) \in Nat \ {0} /\ findable \in 0..Len(slicing)
           /\ found \in Nat /\ found <= findable
           /\ slices \in Seq(Span) /\ Len(slices) \in Nat
           /\ DOMAIN slices = 1..Len(slices)
           /\ \A i \in 1..Len(slices) : /\ slices[i].file_data_start \in Nat
                                        /\ slices[i].logical_start \in Nat
                                        /\ slices[i].logical_len \in Nat
<1>1. findable \in 0..Len(slicing) /\ Len(slicing) \in Nat \ {0}
  BY FindableFacts, SlicingFacts DEF TypeOK
<1>2. slices \in Seq(Span)
  BY DEF TypeOK, Span
<1>3. Len(slices) \in Nat /\ DOMAIN slices = 1..Len(slices)
  BY <1>2, LenProperties
<1>4. ASSUME NEW i \in 1..Len(slices)
      PROVE  slices[i].file_data_start \in Nat /\ slices[i].logical_start \in Nat
             /\ slices[i].logical_len \in Nat
  <2>1. slices[i] \in Span
    BY <1>2, ElementOfSeq
  <2>2. QED
    BY <2>1 DEF Span
<1>5. found \in Nat /\ found <= findable
  BY <1>1 DEF TypeOK
<1>6. QED
  BY <1>1, <1>2, <1>3, <1>4, <1>5

LEMMA InitInv == Init => Inv
<1> SUFFICES ASSUME Init PROVE Inv
  OBVIOUS
<1>1. slicing \in Slicings
  BY DEF Init
<1>2. /\ Len(slicing) \in Nat \ {0} /\ DOMAIN slicing = 1..Len(slicing)
      /\ \A i \in 1..Len(slicing) : /\ slicing[i].header \in Nat
                                    /\ slicing[i].data \in Nat
                                    /\ flag(i) \in {0, 1}
  BY <1>1, SlicingFacts
<1>3. present \subseteq DOMAIN slicing
  BY DEF Init
<1>4. findable \in 0..Len(slicing)
  BY <1>1, <1>3, FindableFacts
<1>5. /\ found = 0 /\ phase = "finding" /\ slices = << >> /\ pos = 0 /\ total = 0
      /\ need = 0 /\ got = << >> /\ buf = << >> /\ lost = FALSE /\ intact = TRUE
      /\ garbled = FALSE
  BY DEF Init
<1>6. len = [i \in 1..Len(slicing) |-> slicing[i].header + slicing[i].data + flag(i)]
  BY DEF Init
<1>7. len \in [1..Len(slicing) -> Nat]
  <2>1. \A i \in 1..Len(slicing) : slicing[i].header + slicing[i].data + flag(i) \in Nat
    BY <1>2
  <2>2. QED
    BY <1>6, <2>1
<1>8. << >> \in Seq(Int) /\ << >> \in Seq(Span) /\ Len(<< >>) = 0
  BY EmptySeq
<1>9. TypeOK
  <2>1. found \in 0..findable
    BY <1>2, <1>4, <1>5
  <2>2. QED
    BY <1>1, <1>3, <1>5, <1>7, <1>8, <2>1 DEF TypeOK, Span
<1>10. Discovery
  <2>1. 1..found = {}
    BY <1>5
  <2>2. QED
    BY <1>5, <1>8, <2>1 DEF Discovery
<1>11. FilesAreWhole
  BY <1>6 DEF FilesAreWhole
<1>12. Chain /\ SpansAreData
  <2>1. 1..Len(slices) = {}
    BY <1>5, <1>8
  <2>2. QED
    BY <1>5, <2>1 DEF Chain, SpansAreData
<1>13. QED
  BY <1>9, <1>10, <1>11, <1>12 DEF Inv

-----------------------------------------------------------------------------
\* Steps that leave the files, the spans and the opening alone.
spanVars == <<slicing, present, found, len, intact, slices, total>>

LEMMA SpansStay ==
    ASSUME Inv, spanVars' = spanVars, phase' # "finding",
           phase' = "opening" => phase = "opening", phase # "finding"
    PROVE  Discovery' /\ FilesAreWhole' /\ Chain' /\ SpansAreData'
<1>1. /\ slicing' = slicing /\ present' = present /\ found' = found /\ len' = len
      /\ intact' = intact /\ slices' = slices /\ total' = total
  BY DEF spanVars
<1>2. findable' = findable
  BY <1>1 DEF findable
<1>3. Discovery'
  BY <1>1, <1>2 DEF Inv, Discovery
<1>4. FilesAreWhole'
  BY <1>1 DEF Inv, FilesAreWhole, flag
<1>5. Chain'
  BY <1>1 DEF Inv, Chain, EndOf, file_data_start
<1>6. SpansAreData'
  BY <1>1 DEF Inv, SpansAreData, flag, trailer
<1>7. QED
  BY <1>3, <1>4, <1>5, <1>6

\* The bytes of a read are bytes, and fit what is asked for.
LEMMA FillTypes ==
    ASSUME Inv, Fill
    PROVE  /\ buf' \in Seq(Int) /\ pos' \in Nat
           /\ need - Len(got) - Len(buf') >= 0
<1>1. PICK i \in DOMAIN slices : \E n \in 1..Lesser(want(i), available(i)) :
          /\ buf' = buf \o FileBytes(i, slices[i].file_data_start + within(i), n)
          /\ pos' = pos + n
  BY DEF Fill
<1>2. PICK n \in 1..Lesser(want(i), available(i)) :
          /\ buf' = buf \o FileBytes(i, slices[i].file_data_start + within(i), n)
          /\ pos' = pos + n
  BY <1>1
<1>3. /\ slices[i].file_data_start \in Nat /\ slices[i].logical_start \in Nat
      /\ slices[i].logical_len \in Nat
      /\ i \in 1..Len(slices) /\ Len(slices) \in Nat
  BY Counts DEF Inv
<1>4. /\ pos \in Nat /\ need \in Nat /\ got \in Seq(Int) /\ buf \in Seq(Int)
      /\ Len(got) \in Nat /\ Len(buf) \in Nat
  BY LenProperties DEF Inv, TypeOK
<1>5. i \in 1..Len(slicing) /\ Len(slicing) \in Nat
  BY <1>3, Counts DEF Inv, Discovery
<1>6. len[i] \in Nat
  BY <1>5 DEF Inv, TypeOK
<1>7. /\ room \in Int /\ within(i) \in Int /\ want(i) \in Int /\ available(i) \in Int
      /\ want(i) <= room
  <2>1. room \in Int
    BY <1>4 DEF room
  <2>2. within(i) \in Int
    BY <1>3, <1>4 DEF within
  <2>3. available(i) \in Int
    BY <1>3, <1>6, <2>2 DEF available
  <2>4. slices[i].logical_len - within(i) \in Int
    BY <1>3, <2>2
  <2>5. want(i) \in Int /\ want(i) <= room
    BY <2>1, <2>4 DEF want, Lesser
  <2>6. QED
    BY <2>1, <2>2, <2>3, <2>5
<1>8. n \in Nat \ {0} /\ n <= room
  BY <1>2, <1>7 DEF Lesser
<1> DEFINE offset == slices[i].file_data_start + within(i)
<1>9. FileBytes(i, offset, n) \in Seq(Int) /\ Len(FileBytes(i, offset, n)) = n
  <2>1. offset \in Int
    BY <1>3, <1>7
  <2> HIDE DEF offset
  <2>2. slicing[i].header \in Nat /\ slicing[i].first \in Nat
    BY <1>5, SlicingFacts DEF Inv, TypeOK
  <2>3. \A j \in 1..n : Byte(i, offset + j - 1) \in Int
    BY <2>1, <2>2 DEF Byte, FLAG
  <2>4. FileBytes(i, offset, n) \in [1..n -> Int]
    BY <2>3 DEF FileBytes
  <2>5. QED
    BY <1>8, <2>4 DEF FileBytes
<1>10. buf' \in Seq(Int) /\ Len(buf') = Len(buf) + n
  BY <1>2, <1>4, <1>9, ConcatProperties
<1>11. need - Len(got) - Len(buf') >= 0
  BY <1>4, <1>8, <1>10 DEF room
<1>12. QED
  BY <1>2, <1>4, <1>8, <1>10, <1>11

LEMMA UseStep ==
    ASSUME Inv,
           \/ \E s \in Seeks : Seek(s[1], s[2]) \/ SeekBefore(s[1], s[2])
           \/ \E n \in Asks : Ask(n)
           \/ ReadStep \/ ReadFails \/ Interrupted
    PROVE  Inv'
<1>1. /\ slicing' = slicing /\ present' = present /\ found' = found /\ len' = len
      /\ intact' = intact /\ slices' = slices /\ total' = total
      /\ phase \in {"idle", "reading"} /\ phase' \in {"idle", "reading"}
  BY DEF files, Seek, SeekBefore, Ask, ReadStep, Fill, ReadReturns, ReadStops, ReadIsShort,
         ReadCompletes, ReadFails, Interrupted
<1>2. Discovery' /\ FilesAreWhole' /\ Chain' /\ SpansAreData'
  BY <1>1, SpansStay DEF spanVars
<1>3. /\ slicing \in Slicings /\ len \in [1..Len(slicing) -> Nat]
      /\ present \subseteq DOMAIN slicing /\ found \in 0..findable
      /\ slices \in Seq(Span) /\ total \in Nat /\ intact \in BOOLEAN
      /\ pos \in Nat /\ need \in Nat /\ got \in Seq(Int) /\ buf \in Seq(Int)
      /\ lost \in BOOLEAN /\ garbled \in BOOLEAN
  BY DEF Inv, TypeOK, Span
<1>4. found' \in 0..findable'
  BY <1>1, <1>3 DEF findable
<1>5. << >> \in Seq(Int) /\ Len(<< >>) = 0 /\ Len(got) \in Nat /\ Len(buf) \in Nat
  BY <1>3, EmptySeq, LenProperties
\* What the step itself moves.
<1>6. SUFFICES /\ pos' \in Nat /\ need' \in Nat /\ got' \in Seq(Int) /\ buf' \in Seq(Int)
               /\ lost' \in BOOLEAN /\ garbled' \in BOOLEAN
               /\ phase' = "reading" => need' - Len(got') - Len(buf') >= 0
  <2>1. ASSUME /\ pos' \in Nat /\ need' \in Nat /\ got' \in Seq(Int) /\ buf' \in Seq(Int)
               /\ lost' \in BOOLEAN /\ garbled' \in BOOLEAN
               /\ phase' = "reading" => need' - Len(got') - Len(buf') >= 0
        PROVE  TypeOK'
    BY <1>1, <1>3, <1>4, <2>1 DEF TypeOK, Span, room
  <2>2. QED
    BY <1>2, <2>1 DEF Inv
<1>7. ASSUME NEW s \in Seeks, Seek(s[1], s[2]) \/ SeekBefore(s[1], s[2])
      PROVE  /\ pos' \in Nat /\ need' = need /\ got' = got /\ buf' = buf
             /\ lost' \in BOOLEAN /\ garbled' = garbled /\ phase' = "idle"
  <2>1. CASE Seek(s[1], s[2])
    <3>1. pos' \in 0..MaxPos
      BY <2>1 DEF Seek
    <3>2. pos' \in Nat
      BY <3>1
    <3>3. QED
      BY <2>1, <3>2 DEF Seek, files
  <2>2. CASE SeekBefore(s[1], s[2])
    BY <1>3, <2>2 DEF SeekBefore, files
  <2>3. QED
    BY <1>7, <2>1, <2>2
<1>8. CASE \E s \in Seeks : Seek(s[1], s[2]) \/ SeekBefore(s[1], s[2])
  BY <1>3, <1>7, <1>8
<1>9. CASE \E n \in Asks : Ask(n)
  <2>1. PICK n \in Asks : Ask(n)
    BY <1>9
  <2>2. n \in Nat
    BY SlicerConstants DEF SlicerConstants
  <2>3. pos' = pos /\ need' = n /\ got' = << >> /\ buf' = << >> /\ lost' = lost
        /\ garbled' = garbled
    BY <2>1 DEF Ask, files
  <2>4. QED
    BY <1>3, <1>5, <2>2, <2>3
<1>10. CASE Fill
  BY <1>3, <1>10, FillTypes DEF Fill, files
<1>11. CASE ReadStops \/ ReadFails \/ ReadCompletes
  BY <1>3, <1>11 DEF ReadStops, ReadFails, ReadCompletes, files
<1>12. CASE ReadIsShort
  <2>1. pos' = pos /\ need' = need /\ got' = got \o buf /\ buf' = << >> /\ lost' = lost
        /\ garbled' = garbled /\ room > 0
    BY <1>12 DEF ReadIsShort, files
  <2>2. got' \in Seq(Int) /\ Len(got') = Len(got) + Len(buf)
    BY <1>3, <2>1, ConcatProperties
  <2>3. need' - Len(got') - Len(buf') >= 0
    BY <1>3, <1>5, <2>1, <2>2 DEF room
  <2>4. QED
    BY <1>3, <1>5, <2>1, <2>2, <2>3
<1>13. CASE Interrupted
  <2>1. pos' = pos /\ need' = need /\ got' = got /\ buf' = << >> /\ lost' = lost
        /\ garbled' \in BOOLEAN /\ room > 0
    BY <1>13, <1>3 DEF Interrupted
  <2>2. need' - Len(got') - Len(buf') >= 0
    BY <1>3, <1>5, <2>1 DEF room
  <2>3. QED
    BY <1>3, <1>5, <2>1, <2>2
<1>14. QED
  BY <1>8, <1>9, <1>10, <1>11, <1>12, <1>13 DEF ReadStep

-----------------------------------------------------------------------------
\* open_slices counts on, while there is a slice.
LEMMA FindStep ==
    ASSUME Inv, FindSlice \/ FindEnds
    PROVE  Inv'
<1>1. /\ slicing' = slicing /\ present' = present /\ len' = len /\ intact' = intact
      /\ garbled' = garbled /\ slices' = slices /\ total' = total /\ pos' = pos
      /\ need' = need /\ got' = got /\ buf' = buf /\ lost' = lost
      /\ phase = "finding" /\ phase' \in {"finding", "opening", "failed"}
  BY DEF FindSlice, FindEnds, files
<1>2. slices = << >> /\ Len(slices) = 0 /\ 1..Len(slices) = {}
  BY <1>1, EmptySeq DEF Inv, Discovery
<1>3. findable' = findable
  BY <1>1 DEF findable
<1>4. /\ findable \in 0..Len(slicing) /\ 1..findable \subseteq present
      /\ findable + 1 \notin present /\ Len(slicing) \in Nat
      /\ found \in 0..findable
  BY FindableFacts, SlicingFacts DEF Inv, TypeOK
<1>5. found' \in 0..findable /\ 1..found' \subseteq present
  <2>1. CASE FindSlice
    <3>1. found' = found + 1 /\ found + 1 \in present
      BY <2>1 DEF FindSlice
    <3>2. found # findable
      BY <1>4, <3>1
    <3>3. 1..found' = (1..found) \cup {found + 1}
      BY <1>4, <3>1
    <3>4. QED
      BY <1>4, <3>1, <3>2, <3>3 DEF Inv, Discovery
  <2>2. CASE FindEnds
    <3>1. found' = found
      BY <2>2 DEF FindEnds, files
    <3>2. QED
      BY <1>4, <3>1 DEF Inv, Discovery
  <2>3. QED
    BY <2>1, <2>2
<1>6. phase' # "finding" => found' = findable /\ (phase' = "opening" => 0 < found')
  <2>1. CASE FindSlice
    BY <1>1, <2>1 DEF FindSlice
  <2>2. CASE FindEnds
    <3>1. found' = found /\ found + 1 \notin present /\ (found = 0 => phase' = "failed")
      BY <2>2 DEF FindEnds, files
    <3>2. found = findable
      <4>1. SUFFICES ASSUME found < findable PROVE FALSE
        BY <1>4
      <4>2. found + 1 \in 1..findable
        BY <1>4, <4>1
      <4>3. QED
        BY <1>4, <3>1, <4>2
    <3>3. QED
      BY <1>4, <3>1, <3>2
  <2>3. QED
    BY <2>1, <2>2
<1>7. TypeOK'
  BY <1>1, <1>3, <1>5 DEF Inv, TypeOK
<1>8. Discovery'
  BY <1>1, <1>2, <1>3, <1>4, <1>5, <1>6 DEF Discovery
<1>9. FilesAreWhole'
  BY <1>1 DEF Inv, FilesAreWhole, flag
<1>10. Chain' /\ SpansAreData'
  BY <1>1, <1>2 DEF Inv, Chain, SpansAreData
<1>11. QED
  BY <1>7, <1>8, <1>9, <1>10 DEF Inv

\* The next span begins where the last one ends, with the data of its slice.
LEMMA OpenSliceStep ==
    ASSUME Inv, OpenSlice
    PROVE  Inv'
<1>0. PICK k \in Nat : k = Len(slices) + 1
  BY Counts DEF Inv
<1> DEFINE span == [file_data_start |-> file_data_start(k), logical_start |-> total,
                     logical_len |-> logical_len(k)]
<1>1. /\ slicing' = slicing /\ present' = present /\ found' = found /\ len' = len
      /\ intact' = intact /\ garbled' = garbled /\ pos' = pos /\ need' = need
      /\ got' = got /\ buf' = buf /\ lost' = lost
      /\ slices' = Append(slices, span) /\ total' = total + logical_len(k)
      /\ phase = "opening" /\ phase' = IF k = found THEN "idle" ELSE "opening"
      /\ len[k] >= file_data_start(k) + trailer(k)
  BY <1>0 DEF OpenSlice, files, next_slice
<1>2. /\ Len(slicing) \in Nat \ {0} /\ findable \in 0..Len(slicing)
      /\ found \in Nat /\ found <= findable
      /\ slices \in Seq(Span) /\ Len(slices) \in Nat
      /\ DOMAIN slices = 1..Len(slices)
  BY Counts DEF Inv
<1>3. Len(slices) < found /\ found = findable
  BY <1>1 DEF Inv, Discovery
<1>4. k \in 1..found /\ k \in 1..Len(slicing) /\ k \in Nat
  BY <1>0, <1>2, <1>3
<1>5. /\ slicing[k].header \in Nat /\ slicing[k].data \in Nat /\ slicing[k].first \in Nat
      /\ flag(k) \in {0, 1} /\ slicing[1].header = 0 /\ slicing[1].first = 0
      /\ \A i \in 1..(Len(slicing) - 1) :
             slicing[i + 1].first = slicing[i].first + slicing[i].data
  BY <1>4, SlicingFacts DEF Inv, TypeOK
<1>6. file_data_start(k) \in Nat /\ trailer(k) \in {0, 1} /\ len[k] \in Nat /\ total \in Nat
  BY <1>4, <1>5 DEF file_data_start, trailer, Inv, TypeOK
<1>7. logical_len(k) \in Nat
  BY <1>1, <1>6 DEF logical_len
<1>8. span \in Span
  BY <1>6, <1>7 DEF Span
<1> HIDE DEF span
<1>9. /\ slices' \in Seq(Span) /\ Len(slices') = k
      /\ \A i \in 1..Len(slices) : slices'[i] = slices[i]
      /\ slices'[k] = span
  BY <1>0, <1>1, <1>2, <1>8, AppendProperties
<1>10. /\ span.file_data_start = file_data_start(k) /\ span.logical_start = total
       /\ span.logical_len = logical_len(k)
  BY DEF span
<1>11. findable' = findable
  BY <1>1 DEF findable
<1>12. 1..k = (1..Len(slices)) \cup {k} /\ slices' # << >>
  BY <1>0, <1>2, <1>9, EmptySeq
<1>13. TypeOK'
  <2>1. total' \in Nat /\ phase' \in {"idle", "opening"}
    BY <1>1, <1>6, <1>7
  <2>2. QED
    BY <1>1, <1>9, <1>11, <2>1 DEF Inv, TypeOK, Span
<1>14. Discovery'
  <2>1. phase' = "opening" => k < found
    BY <1>0, <1>1, <1>2, <1>3
  <2>2. 1..found \subseteq present
    BY DEF Inv, Discovery
  <2>3. phase' # "finding"
    BY <1>1
  <2>4. QED
    BY <1>1, <1>3, <1>4, <1>9, <1>11, <2>1, <2>2, <2>3 DEF Discovery
<1>15. FilesAreWhole'
  BY <1>1 DEF Inv, FilesAreWhole, flag
\* Ends of spans, before and after.
<1>16. /\ \A i \in 1..Len(slices) : EndOf(i)' = EndOf(i)
       /\ EndOf(k)' = total + logical_len(k)
       /\ \A i \in 1..k : file_data_start(i)' = file_data_start(i)
  <2>1. \A i \in 1..Len(slices) : EndOf(i)' = EndOf(i)
    BY <1>9 DEF EndOf
  <2>2. EndOf(k)' = total + logical_len(k)
    BY <1>9, <1>10 DEF EndOf
  <2>3. \A i \in 1..k : file_data_start(i)' = file_data_start(i)
    BY <1>1 DEF file_data_start
  <2>4. QED
    BY <2>1, <2>2, <2>3
<1>17. total = IF k = 1 THEN 0 ELSE EndOf(k - 1)
  <2>1. slices = << >> <=> Len(slices) = 0
    BY <1>2, EmptySeq
  <2>2. k - 1 = Len(slices)
    BY <1>0, <1>2
  <2>3. QED
    BY <1>0, <1>2, <2>1, <2>2 DEF Inv, Chain
<1>18. Chain'
  <2>1. ASSUME NEW i \in 1..k
        PROVE  /\ slices'[i].logical_start = IF i = 1 THEN 0 ELSE EndOf(i - 1)'
               /\ slices'[i].file_data_start = file_data_start(i)'
    <3>1. i = 1 \/ (i - 1 \in 1..Len(slices))
      BY <1>0, <1>2
    <3>2. CASE i \in 1..Len(slices)
      BY <1>9, <1>16, <3>1, <3>2 DEF Inv, Chain
    <3>3. CASE i = k
      BY <1>9, <1>10, <1>16, <1>17, <3>1, <3>3
    <3>4. QED
      BY <1>12, <3>2, <3>3
  <2>2. total' = EndOf(k)'
    BY <1>1, <1>16
  <2>3. QED
    BY <1>9, <1>12, <2>1, <2>2 DEF Chain
<1>19. SpansAreData'
  <2>1. SUFFICES ASSUME intact
                 PROVE  \A i \in 1..k :
                          /\ slices'[i].logical_start = slicing[i].first
                          /\ slices'[i].logical_len = slicing[i].data + flag(i) - trailer(i)
    BY <1>1, <1>9 DEF SpansAreData, flag, trailer
  <2>2. \A i \in 1..Len(slices) :
            /\ slices[i].logical_start = slicing[i].first
            /\ slices[i].logical_len = slicing[i].data + flag(i) - trailer(i)
    BY <2>1 DEF Inv, SpansAreData
  <2>3. logical_len(k) = slicing[k].data + flag(k) - trailer(k)
    <3>1. len[k] = slicing[k].header + slicing[k].data + flag(k)
      BY <1>4, <2>1 DEF Inv, FilesAreWhole
    <3>2. file_data_start(k) = slicing[k].header
      BY <1>5 DEF file_data_start
    <3>3. logical_len(k) = (slicing[k].header + slicing[k].data + flag(k))
                             - slicing[k].header - trailer(k)
      BY <3>1, <3>2 DEF logical_len
    <3>4. /\ slicing[k].header \in Int /\ slicing[k].data \in Int /\ flag(k) \in Int
          /\ trailer(k) \in Int
      BY <1>5, <1>6
    <3>5. QED
      BY <3>3, <3>4
  <2>4. total = slicing[k].first
    <3>1. CASE k = 1
      BY <1>5, <1>17, <3>1
    <3>2. CASE k # 1
      <4>1. k - 1 \in 1..Len(slices) /\ k - 1 \in 1..(Len(slicing) - 1) /\ (k - 1) + 1 = k
        BY <1>0, <1>2, <1>4, <3>2
      <4>2. flag(k - 1) = 1 /\ trailer(k - 1) = 1
        BY <1>0, <1>2, <1>3, <4>1 DEF flag, trailer
      <4>3. /\ slices[k - 1].logical_start = slicing[k - 1].first
            /\ slices[k - 1].logical_len = slicing[k - 1].data + 1 - 1
        BY <2>2, <4>1, <4>2
      <4>4. slicing[k - 1].first \in Nat /\ slicing[k - 1].data \in Nat
        BY <4>1, SlicingFacts DEF Inv, TypeOK
      <4>5. EndOf(k - 1) = slicing[k - 1].first + slicing[k - 1].data
        BY <4>3, <4>4 DEF EndOf
      <4>6. slicing[k].first = slicing[k - 1].first + slicing[k - 1].data
        BY <1>5, <4>1
      <4>7. QED
        BY <1>17, <3>2, <4>5, <4>6
    <3>3. QED
      BY <3>1, <3>2
  <2>5. QED
    BY <1>9, <1>10, <1>12, <2>2, <2>3, <2>4
<1>20. QED
  BY <1>13, <1>14, <1>15, <1>18, <1>19 DEF Inv

\* Opening stops, for whatever reason.
LEMMA OpenFailsStep ==
    ASSUME Inv, OpenFails, phase = "opening"
    PROVE  Inv'
<1>1. /\ slicing' = slicing /\ present' = present /\ found' = found /\ len' = len
      /\ intact' = intact /\ garbled' = garbled /\ slices' = slices /\ total' = total
      /\ pos' = pos /\ need' = need /\ got' = got /\ buf' = buf /\ lost' = lost
      /\ phase' = "failed"
  BY DEF OpenFails, files
<1>2. findable' = findable
  BY <1>1 DEF findable
<1>3. TypeOK'
  BY <1>1, <1>2 DEF Inv, TypeOK
<1>4. QED
  BY <1>1, <1>3, SpansStay DEF Inv, spanVars

\* A cut changes a length, and nothing that is claimed of whole files remains.
LEMMA TruncateStep ==
    ASSUME Inv, Truncate
    PROVE  Inv'
<1>1. /\ slicing' = slicing /\ present' = present /\ found' = found /\ intact' = FALSE
      /\ slices' = slices /\ total' = total /\ phase' = phase
      /\ pos' = pos /\ need' = need /\ got' = got /\ buf' = buf /\ lost' = lost
      /\ garbled' \in BOOLEAN
  BY DEF Truncate, Inv, TypeOK
<1>2. findable' = findable
  BY <1>1 DEF findable
<1>3. len' \in [1..Len(slicing) -> Nat]
  <2>1. PICK i \in DOMAIN len : \E n \in 0..(len[i] - 1) : len' = [len EXCEPT ![i] = n]
    BY DEF Truncate
  <2>2. PICK n \in 0..(len[i] - 1) : len' = [len EXCEPT ![i] = n]
    BY <2>1
  <2>3. n \in Nat
    BY <2>2
  <2>4. QED
    BY <2>2, <2>3 DEF Inv, TypeOK
<1>4. TypeOK'
  BY <1>1, <1>2, <1>3 DEF Inv, TypeOK, room
<1>5. Discovery'
  BY <1>1, <1>2 DEF Inv, Discovery
<1>6. Chain'
  BY <1>1 DEF Inv, Chain, EndOf, file_data_start
<1>7. FilesAreWhole' /\ SpansAreData'
  BY <1>1 DEF FilesAreWhole, SpansAreData
<1>8. QED
  BY <1>4, <1>5, <1>6, <1>7 DEF Inv

LEMMA StepInv == Inv /\ [Next]_vars => Inv'
<1> SUFFICES ASSUME Inv, [Next]_vars
             PROVE  Inv'
  OBVIOUS
<1>1. CASE FindSlice \/ FindEnds
  BY <1>1, FindStep
<1>2. CASE OpenSlice
  BY <1>2, OpenSliceStep
<1>3. CASE OpenRejects \/ OpenErrors
  BY <1>3, OpenFailsStep DEF OpenRejects, OpenErrors
<1>4. CASE \/ \E s \in Seeks : Seek(s[1], s[2]) \/ SeekBefore(s[1], s[2])
           \/ \E n \in Asks : Ask(n)
           \/ ReadStep \/ ReadFails \/ Interrupted
  BY <1>4, UseStep
<1>5. CASE Truncate
  BY <1>5, TruncateStep
<1>6. CASE UNCHANGED vars
  <2>1. /\ slicing' = slicing /\ present' = present /\ found' = found /\ len' = len
        /\ intact' = intact /\ garbled' = garbled /\ slices' = slices /\ total' = total
        /\ pos' = pos /\ need' = need /\ got' = got /\ buf' = buf /\ lost' = lost
        /\ phase' = phase
    BY <1>6 DEF vars, files
  <2>2. findable' = findable
    BY <2>1 DEF findable
  <2>3. TypeOK' /\ Discovery'
    <3>1. TypeOK'
      BY <2>1, <2>2 DEF Inv, TypeOK, room
    <3>2. Discovery'
      BY <2>1, <2>2 DEF Inv, Discovery
    <3>3. QED
      BY <3>1, <3>2
  <2>4. FilesAreWhole'
    BY <2>1 DEF Inv, FilesAreWhole, flag
  <2>5. Chain' /\ SpansAreData'
    BY <2>1 DEF Inv, Chain, SpansAreData, EndOf, file_data_start, flag, trailer
  <2>6. QED
    BY <2>3, <2>4, <2>5 DEF Inv
<1>7. QED
  BY <1>1, <1>2, <1>3, <1>4, <1>5, <1>6 DEF Next

LEMMA SpecInv == Spec => []Inv
BY InitInv, StepInv, PTL DEF Spec

(***************************************************************************)
(* No length ever wraps, a read never has more than was asked for, and     *)
(* open_slices finds no slice behind one that is missing, for any number   *)
(* of slices of any size, cut at any time.                                 *)
(***************************************************************************)
THEOREM TypeCorrect == Spec => []TypeOK
<1>1. Inv => TypeOK
  BY DEF Inv
<1>2. QED
  BY SpecInv, <1>1, PTL

-----------------------------------------------------------------------------
SpansAreArchive ==
    \A i \in 1..Len(slices) :
        /\ slices[i].logical_start = slicing[i].first
        /\ slices[i].logical_len = slicing[i].data + flag(i) - trailer(i)

\* The bytes of a span are the archive's, from its first one on.
LEMMA SpanBytes ==
    ASSUME Inv, SpansAreArchive, phase # "finding", NEW i \in 1..Len(slices),
           NEW p \in slices[i].logical_start..(EndOf(i) - 1)
    PROVE  Byte(i, slices[i].file_data_start + p - slices[i].logical_start) = p
<1>1. /\ Len(slicing) \in Nat \ {0} /\ findable \in 0..Len(slicing)
      /\ found \in Nat /\ found <= findable /\ Len(slices) \in Nat
  BY Counts DEF Inv
<1>2. found = findable /\ Len(slices) <= found
  BY DEF Inv, Discovery
<1>3. i \in 1..Len(slicing) /\ i \in 1..found
  BY <1>1, <1>2
<1>4. /\ slicing[i].header \in Nat /\ slicing[i].first \in Nat /\ slicing[i].data \in Nat
      /\ flag(i) \in {0, 1} /\ slicing[1].header = 0
  BY <1>3, SlicingFacts DEF Inv, TypeOK
<1>5. slices[i].file_data_start = slicing[i].header
  BY <1>4 DEF Inv, Chain, file_data_start
<1>6. /\ slices[i].logical_start = slicing[i].first
      /\ slices[i].logical_len = slicing[i].data + flag(i) - trailer(i)
  BY DEF SpansAreArchive
<1>7. flag(i) - trailer(i) = IF i = findable THEN flag(i) ELSE 0
  BY <1>1, <1>2, <1>3, <1>4 DEF trailer, flag
<1> DEFINE shown == slicing[i].data + IF i = findable THEN flag(i) ELSE 0
           offset == slicing[i].header + p - slicing[i].first
<1>8. trailer(i) \in {0, 1}
  BY DEF trailer
<1>9. slices[i].logical_len = shown
  <2>1. slicing[i].data + flag(i) - trailer(i) = slicing[i].data + (flag(i) - trailer(i))
    BY <1>4, <1>8
  <2>2. QED
    BY <1>6, <1>7, <2>1
<1>10. shown \in Nat
  BY <1>4
<1> HIDE DEF shown
<1>11. p \in slicing[i].first..(slicing[i].first + shown - 1)
  <2>1. EndOf(i) = slicing[i].first + shown
    BY <1>6, <1>9 DEF EndOf
  <2>2. slices[i].logical_start = slicing[i].first
    BY <1>6
  <2>3. slicing[i].first \in Int /\ shown \in Int
    BY <1>4, <1>10
  <2>4. slices[i].logical_start \in Int /\ EndOf(i) \in Int
    BY <2>1, <2>2, <2>3
  <2>5. p \in Int /\ slices[i].logical_start <= p /\ p <= EndOf(i) - 1
    BY <2>4
  <2>6. QED
    BY <2>1, <2>2, <2>3, <2>5
<1>12. /\ slicing[i].header <= offset /\ offset < slicing[i].header + shown
       /\ slicing[i].first + offset - slicing[i].header = p
  <2>1. p \in Int /\ slicing[i].first <= p /\ p <= slicing[i].first + shown - 1
    BY <1>4, <1>10, <1>11
  <2>2. /\ slicing[i].header \in Int /\ slicing[i].first \in Int /\ shown \in Int
    BY <1>4, <1>10
  <2>3. slicing[i].header <= offset
    BY <2>1, <2>2
  <2>4. offset < slicing[i].header + shown
    BY <2>1, <2>2
  <2>5. slicing[i].first + offset - slicing[i].header = p
    BY <2>1, <2>2
  <2>6. QED
    BY <2>3, <2>4, <2>5
<1>13. slices[i].file_data_start + p - slices[i].logical_start = offset
  BY <1>5, <1>6
<1>14. Byte(i, offset) = p
  <2> HIDE DEF offset
  <2>1. QED
    BY <1>12 DEF Byte, shown
<1>15. QED
  BY <1>13, <1>14

(***************************************************************************)
(* The spans tile the archive (SliceReader::open): for any number of       *)
(* slices of any size, they have no gap and map no header and no flag.     *)
(***************************************************************************)
THEOREM SpansTile == Spec => []SpansTileArchive
<1>1. Inv => SpansTileArchive
  <2>1. SUFFICES ASSUME Inv, NEW i \in DOMAIN slices
                 PROVE  /\ slices[i].logical_start = IF i = 1 THEN 0 ELSE EndOf(i - 1)
                        /\ \A p \in slices[i].logical_start..(EndOf(i) - 1) :
                              intact =>
                                Byte(i, slices[i].file_data_start + p
                                          - slices[i].logical_start) = p
    BY DEF SpansTileArchive
  <2>2. i \in 1..Len(slices)
    BY <2>1, Counts DEF Inv
  <2>3. slices[i].logical_start = IF i = 1 THEN 0 ELSE EndOf(i - 1)
    BY <2>1, <2>2 DEF Inv, Chain
  <2>4. intact => SpansAreArchive /\ phase # "finding"
    <3>1. slices # << >>
      BY <2>2, EmptySeq
    <3>2. QED
      BY <2>1, <3>1 DEF Inv, Discovery, SpansAreData, SpansAreArchive
  <2>5. QED
    BY <2>1, <2>2, <2>3, <2>4, SpanBytes
<1>2. QED
  BY SpecInv, <1>1, PTL

-----------------------------------------------------------------------------
(***************************************************************************)
(* What the refinement needs besides: the stream that open() leaves, and   *)
(* what a read has, which are the bytes just before pos.                   *)
(***************************************************************************)
OpenedWhole ==
    /\ Opened => Len(slices) = found /\ found > 0
    /\ ~garbled /\ ~Opened => intact
    /\ ~garbled => SpansAreArchive

ReadSoFar ==
    phase = "reading" =>
        /\ ~lost
        /\ need \in Asks
        /\ ~garbled =>
              /\ Len(got) + Len(buf) <= pos
              /\ Len(got) + Len(buf) > 0 => pos <= total
              /\ \A k \in 1..Len(got) : got[k] = pos - Len(buf) - Len(got) + k - 1
              /\ \A k \in 1..Len(buf) : buf[k] = pos - Len(buf) + k - 1

Ready == Inv /\ OpenedWhole /\ ReadSoFar

LEMMA ReadyInit == Init => Ready
<1> SUFFICES ASSUME Init PROVE Ready
  OBVIOUS
<1>1. Inv
  BY InitInv
<1>2. slices = << >> /\ phase = "finding" /\ intact
  BY DEF Init
<1>3. Len(slices) = 0 /\ 1..Len(slices) = {}
  BY <1>2, EmptySeq
<1>4. QED
  BY <1>1, <1>2, <1>3 DEF Ready, OpenedWhole, ReadSoFar, Opened, SpansAreArchive

LEMMA TotalIsLength ==
    ASSUME Ready, Opened, ~garbled
    PROVE  total = ArchiveLength
<1>1. /\ Len(slices) = found /\ found > 0 /\ found = findable /\ found \in Nat
      /\ findable <= Len(slicing) /\ Len(slicing) \in Nat
  <2>1. Len(slices) = found /\ found > 0
    BY DEF Ready, OpenedWhole
  <2>2. found = findable
    BY DEF Ready, Inv, Discovery, Opened
  <2>3. found \in Nat /\ findable \in 0..Len(slicing) /\ Len(slicing) \in Nat
    BY Counts DEF Ready, Inv
  <2>4. QED
    BY <2>1, <2>2, <2>3
<1>2. /\ slices[found].logical_start = slicing[found].first
      /\ slices[found].logical_len = slicing[found].data + flag(found) - trailer(found)
  BY <1>1 DEF Ready, OpenedWhole, SpansAreArchive
<1>3. trailer(found) = 0
  BY <1>1 DEF trailer
<1>4. /\ slicing[found].first \in Nat /\ slicing[found].data \in Nat /\ flag(found) \in {0, 1}
  BY <1>1, SlicingFacts DEF Ready, Inv, TypeOK
<1>5. slices # << >>
  BY <1>1, EmptySeq
<1>6. total = EndOf(found)
  BY <1>1, <1>5 DEF Ready, Inv, Chain
<1>7. EndOf(found) = slicing[found].first + (slicing[found].data + flag(found) - 0)
  BY <1>2, <1>3 DEF EndOf
<1>8. ArchiveLength = slicing[found].first + slicing[found].data + flag(found)
  BY <1>1 DEF ArchiveLength
<1>9. QED
  BY <1>4, <1>6, <1>7, <1>8

\* No span reaches beyond the stream.
LEMMA EndsWithin ==
    ASSUME Inv, NEW i \in 1..Len(slices)
    PROVE  EndOf(i) <= total
<1>1. /\ Len(slices) \in Nat
      /\ \A j \in 1..Len(slices) : /\ slices[j].logical_start \in Nat
                                   /\ slices[j].logical_len \in Nat
  BY Counts DEF Inv
<1>2. \A j \in 1..Len(slices) : EndOf(j) \in Nat
  BY <1>1 DEF EndOf
<1>3. total = EndOf(Len(slices))
  BY <1>1, EmptySeq DEF Inv, Chain
<1>4. \A j \in 1..(Len(slices) - 1) : EndOf(j) <= EndOf(j + 1)
  <2>1. SUFFICES ASSUME NEW j \in 1..(Len(slices) - 1) PROVE EndOf(j) <= EndOf(j + 1)
    OBVIOUS
  <2>2. j + 1 \in 1..Len(slices) /\ j + 1 # 1 /\ (j + 1) - 1 = j /\ j \in 1..Len(slices)
    BY <1>1
  <2>3. slices[j + 1].logical_start = EndOf(j)
    BY <2>2 DEF Inv, Chain
  <2>4. EndOf(j + 1) = EndOf(j) + slices[j + 1].logical_len
    BY <2>3 DEF EndOf
  <2>5. QED
    BY <1>1, <1>2, <2>2, <2>4
<1> DEFINE Beyond == {d \in 0..(Len(slices) - i) : EndOf(Len(slices) - d) > total}
<1>5. SUFFICES ASSUME Beyond # {} PROVE FALSE
  <2>1. ASSUME Beyond = {} PROVE EndOf(i) <= total
    <3>1. Len(slices) - i \in 0..(Len(slices) - i) /\ Len(slices) - (Len(slices) - i) = i
      BY <1>1
    <3>2. ~(EndOf(i) > total)
      BY <2>1, <3>1
    <3>3. QED
      BY <1>2, <3>2 DEF Inv, TypeOK
  <2>2. QED
    BY <2>1
<1>6. PICK d \in Beyond : \A e \in Beyond : d <= e
  <2>1. Beyond \in SUBSET Nat
    BY <1>1
  <2>2. QED
    BY <1>5, <2>1, Smallest
<1>7. /\ d \in 0..(Len(slices) - i) /\ EndOf(Len(slices) - d) > total
      /\ \A e \in 0..(Len(slices) - i) : EndOf(Len(slices) - e) > total => d <= e
  BY <1>6
<1> HIDE DEF Beyond
<1>8. CASE d = 0
  <2>1. Len(slices) - d = Len(slices)
    BY <1>1, <1>8
  <2>2. EndOf(Len(slices)) > total
    BY <1>7, <2>1
  <2>3. QED
    <3>1. total \in Nat
      BY DEF Inv, TypeOK
    <3>2. QED
      BY <1>3, <2>2, <3>1
<1>9. CASE d # 0
  <2>1. d - 1 \in 0..(Len(slices) - i) /\ d - 1 < d
    BY <1>1, <1>7, <1>9
  <2>2. ~(EndOf(Len(slices) - (d - 1)) > total)
    <3>1. d \in Int /\ d - 1 \in Int /\ ~(d <= d - 1)
      BY <1>1, <1>7
    <3>2. QED
      BY <1>7, <2>1, <3>1
  <2>3. /\ Len(slices) - d \in 1..(Len(slices) - 1)
        /\ (Len(slices) - d) + 1 = Len(slices) - (d - 1)
    BY <1>1, <1>7, <1>9
  <2>4. EndOf(Len(slices) - d) <= EndOf(Len(slices) - (d - 1))
    BY <1>4, <2>3
  <2>5. /\ EndOf(Len(slices) - d) \in Nat /\ EndOf(Len(slices) - (d - 1)) \in Nat
        /\ total \in Nat
    <3>1. Len(slices) - d \in 1..Len(slices) /\ Len(slices) - (d - 1) \in 1..Len(slices)
      BY <1>1, <2>3
    <3>2. QED
      BY <1>2, <3>1 DEF Inv, TypeOK
  <2>6. QED
    BY <1>7, <2>2, <2>4, <2>5
<1>10. QED
  BY <1>8, <1>9

\* Before the end of the stream, some slice holds the position.
LEMMA SomeHolds ==
    ASSUME Inv, pos < total
    PROVE  \E i \in DOMAIN slices : Holds(i)
<1>1. /\ Len(slices) \in Nat /\ DOMAIN slices = 1..Len(slices)
      /\ \A j \in 1..Len(slices) : /\ slices[j].logical_start \in Nat
                                   /\ slices[j].logical_len \in Nat
  BY Counts DEF Inv
<1>2. pos \in Nat /\ \A j \in 1..Len(slices) : EndOf(j) \in Nat
  BY <1>1 DEF EndOf, Inv, TypeOK
<1>3. slices # << >> /\ slices \in Seq(Span)
  BY <1>2, Counts DEF Inv, Chain
<1>4. Len(slices) \in 1..Len(slices) /\ total = EndOf(Len(slices))
  BY <1>1, <1>3, EmptySeq DEF Inv, Chain
<1> DEFINE Past == {i \in 1..Len(slices) : pos < EndOf(i)}
<1>5. Len(slices) \in Past
  BY <1>4
<1>6. Past \in SUBSET Nat
  OBVIOUS
<1>7. PICK i \in Past : \A j \in Past : i <= j
  BY <1>5, <1>6, Smallest
<1>8. i \in 1..Len(slices) /\ pos < EndOf(i)
  BY <1>7
<1>9. ASSUME NEW j \in 1..(i - 1) PROVE pos >= EndOf(j)
  <2>1. j \in 1..Len(slices) /\ j < i
    BY <1>1, <1>8
  <2>2. j \notin Past
    BY <1>7, <1>8, <2>1
  <2>3. QED
    BY <1>2, <2>1, <2>2
<1>10. QED
  BY <1>1, <1>8, <1>9 DEF Holds

\* The slice that holds the position holds no earlier one.
LEMMA HoldsFacts ==
    ASSUME Inv, NEW i \in DOMAIN slices, Holds(i)
    PROVE  /\ i \in 1..Len(slices) /\ Len(slices) \in Nat
           /\ slices[i].file_data_start \in Nat
           /\ slices[i].logical_start \in Nat /\ slices[i].logical_len \in Nat
           /\ pos \in Nat
           /\ slices[i].logical_start <= pos /\ pos < EndOf(i) /\ EndOf(i) <= total
           /\ EndOf(i) = slices[i].logical_start + slices[i].logical_len
           /\ within(i) = pos - slices[i].logical_start
           /\ total \in Nat
<1>1. /\ i \in 1..Len(slices) /\ Len(slices) \in Nat
      /\ slices[i].file_data_start \in Nat
      /\ slices[i].logical_start \in Nat /\ slices[i].logical_len \in Nat
  BY Counts DEF Inv
<1>2. pos \in Nat /\ total \in Nat
  BY DEF Inv, TypeOK
<1>3. pos < EndOf(i) /\ \A j \in 1..(i - 1) : pos >= EndOf(j)
  BY DEF Holds
<1>4. slices[i].logical_start <= pos
  <2>1. slices[i].logical_start = IF i = 1 THEN 0 ELSE EndOf(i - 1)
    BY <1>1 DEF Inv, Chain
  <2>2. CASE i = 1
    BY <1>2, <2>1, <2>2
  <2>3. CASE i # 1
    <3>1. i - 1 \in 1..(i - 1)
      BY <1>1, <2>3
    <3>2. pos >= EndOf(i - 1)
      BY <1>3, <3>1
    <3>3. QED
      BY <1>1, <1>2, <2>1, <2>3, <3>2
  <2>4. QED
    BY <2>2, <2>3
<1>5. EndOf(i) <= total
  BY <1>1, EndsWithin
<1>6. QED
  BY <1>1, <1>2, <1>3, <1>4, <1>5 DEF EndOf, within

\* A file read adds the bytes at the position, and none from beyond the slice.
LEMMA FillReads ==
    ASSUME Ready, Fill, ~garbled
    PROVE  \E n \in Nat \ {0} :
              /\ pos' = pos + n /\ pos + n <= total
              /\ Len(buf') = Len(buf) + n
              /\ \A k \in 1..Len(buf) : buf'[k] = buf[k]
              /\ \A k \in (Len(buf) + 1)..(Len(buf) + n) : buf'[k] = pos + (k - Len(buf)) - 1
<1>0. PICK i \in DOMAIN slices :
          /\ Holds(i)
          /\ \E n \in 1..Lesser(want(i), available(i)) :
                /\ buf' = buf \o FileBytes(i, slices[i].file_data_start + within(i), n)
                /\ pos' = pos + n
  BY DEF Fill
<1>1. PICK n \in 1..Lesser(want(i), available(i)) :
          /\ buf' = buf \o FileBytes(i, slices[i].file_data_start + within(i), n)
          /\ pos' = pos + n
  BY <1>0
<1>2. Inv /\ SpansAreArchive /\ phase # "finding"
  BY DEF Ready, OpenedWhole, Fill
<1>3. /\ i \in 1..Len(slices) /\ Len(slices) \in Nat
      /\ slices[i].file_data_start \in Nat
      /\ slices[i].logical_start \in Nat /\ slices[i].logical_len \in Nat
      /\ pos \in Nat /\ total \in Nat
      /\ slices[i].logical_start <= pos /\ pos < EndOf(i) /\ EndOf(i) <= total
      /\ EndOf(i) = slices[i].logical_start + slices[i].logical_len
      /\ within(i) = pos - slices[i].logical_start
  BY <1>0, <1>2, HoldsFacts
<1>4. /\ got \in Seq(Int) /\ buf \in Seq(Int) /\ Len(got) \in Nat /\ Len(buf) \in Nat
      /\ need \in Nat /\ len \in [1..Len(slicing) -> Nat]
  BY <1>2, LenProperties DEF Inv, TypeOK
<1>5. i \in 1..Len(slicing) /\ len[i] \in Nat
  <2>1. Len(slices) <= Len(slicing) /\ Len(slicing) \in Nat
    BY <1>2, <1>3, Counts DEF Inv, Discovery
  <2>2. QED
    BY <1>3, <1>4, <2>1
<1>6. n \in Nat \ {0} /\ n <= slices[i].logical_len - within(i)
  <2>1. room \in Int /\ available(i) \in Int /\ slices[i].logical_len - within(i) \in Int
    <3>1. within(i) \in Int
      BY <1>3
    <3>2. available(i) \in Int
      BY <1>3, <1>5, <3>1 DEF available
    <3>3. room \in Int
      BY <1>4 DEF room
    <3>4. slices[i].logical_len - within(i) \in Int
      BY <1>3, <3>1
    <3>5. QED
      BY <3>2, <3>3, <3>4
  <2>2. want(i) \in Int /\ want(i) <= slices[i].logical_len - within(i)
    BY <2>1 DEF want, Lesser
  <2>3. n \in Int /\ 1 <= n /\ n <= want(i)
    BY <1>1, <2>1, <2>2 DEF Lesser
  <2>4. QED
    BY <2>1, <2>2, <2>3
<1>7. pos + n <= EndOf(i) /\ EndOf(i) \in Nat
  BY <1>3, <1>6
<1> DEFINE offset == slices[i].file_data_start + within(i)
<1>8. \A k \in 1..n : Byte(i, offset + k - 1) = pos + k - 1
  <2>1. SUFFICES ASSUME NEW k \in 1..n PROVE Byte(i, offset + k - 1) = pos + k - 1
    OBVIOUS
  <2>2. pos + k - 1 \in slices[i].logical_start..(EndOf(i) - 1)
    BY <1>3, <1>6, <1>7
  <2>3. Byte(i, slices[i].file_data_start + (pos + k - 1) - slices[i].logical_start)
          = pos + k - 1
    BY <1>2, <1>3, <2>2, SpanBytes
  <2>4. offset + k - 1
          = slices[i].file_data_start + (pos + k - 1) - slices[i].logical_start
    BY <1>3, <1>6
  <2>5. QED
    BY <2>3, <2>4
<1>9. offset \in Int
  BY <1>3
<1> HIDE DEF offset
<1> DEFINE bytes == FileBytes(i, offset, n)
<1>10. bytes \in Seq(Int) /\ Len(bytes) = n /\ \A k \in 1..n : bytes[k] = pos + k - 1
  <2>1. \A k \in 1..n : bytes[k] = pos + k - 1
    BY <1>8 DEF FileBytes
  <2>2. \A k \in 1..n : pos + k - 1 \in Int
    BY <1>3, <1>6
  <2>3. bytes \in [1..n -> Int]
    BY <1>8, <2>2 DEF FileBytes
  <2>4. QED
    BY <1>6, <2>1, <2>3 DEF FileBytes
<1>11. buf' = buf \o bytes
  BY <1>1 DEF offset
<1> HIDE DEF bytes
<1>12. /\ Len(buf') = Len(buf) + n
       /\ \A k \in 1..(Len(buf) + n) :
              buf'[k] = IF k <= Len(buf) THEN buf[k] ELSE bytes[k - Len(buf)]
  BY <1>4, <1>10, <1>11, ConcatProperties
<1>13. \A k \in 1..Len(buf) : buf'[k] = buf[k]
  BY <1>4, <1>6, <1>12
<1>14. \A k \in (Len(buf) + 1)..(Len(buf) + n) : buf'[k] = pos + (k - Len(buf)) - 1
  <2>1. SUFFICES ASSUME NEW k \in (Len(buf) + 1)..(Len(buf) + n)
                 PROVE  buf'[k] = pos + (k - Len(buf)) - 1
    OBVIOUS
  <2>2. k \in 1..(Len(buf) + n) /\ ~(k <= Len(buf)) /\ k - Len(buf) \in 1..n
    BY <1>4, <1>6
  <2>3. buf'[k] = bytes[k - Len(buf)]
    BY <1>12, <2>2
  <2>4. QED
    BY <1>10, <2>2, <2>3
<1>15. pos + n <= total
  BY <1>3, <1>6, <1>7
<1>16. QED
  BY <1>1, <1>6, <1>12, <1>13, <1>14, <1>15

-----------------------------------------------------------------------------
LEMMA OpenedWholeStep ==
    ASSUME Ready, [Next]_vars
    PROVE  OpenedWhole'
<1>1. /\ Inv /\ Inv' /\ OpenedWhole
      /\ slices \in Seq(Span) /\ Len(slices) \in Nat
  BY StepInv, Counts DEF Ready, Inv
<1>2. CASE \/ UNCHANGED vars
           \/ \E s \in Seeks : Seek(s[1], s[2]) \/ SeekBefore(s[1], s[2])
           \/ \E n \in Asks : Ask(n)
           \/ ReadStep \/ ReadFails \/ Interrupted
  <2>1. /\ slicing' = slicing /\ found' = found /\ intact' = intact /\ slices' = slices
    BY <1>2 DEF vars, files, Seek, SeekBefore, Ask, ReadStep, Fill, ReadReturns, ReadStops,
                ReadIsShort, ReadCompletes, ReadFails, Interrupted
  <2>2. Opened' = Opened
    <3>1. \/ phase' = phase
          \/ phase \in {"idle", "reading"} /\ phase' \in {"idle", "reading"}
      BY <1>2 DEF vars, Seek, SeekBefore, Ask, ReadStep, Fill, ReadReturns, ReadStops,
                  ReadIsShort, ReadCompletes, ReadFails, Interrupted
    <3>2. QED
      BY <3>1 DEF Opened
  <2>3. garbled => garbled'
    <3>1. CASE Interrupted
      BY <3>1, Zenon DEF Interrupted
    <3>2. CASE ~Interrupted
      BY <1>2, <3>2 DEF vars, files, Seek, SeekBefore, Ask, ReadStep, Fill, ReadReturns,
                        ReadStops, ReadIsShort, ReadCompletes, ReadFails
    <3>3. QED
      BY <3>1, <3>2
  <2>4. QED
    BY <1>1, <2>1, <2>2, <2>3 DEF OpenedWhole, SpansAreArchive, flag, trailer
<1>3. CASE FindSlice \/ FindEnds
  <2>1. /\ slices' = slices /\ phase = "finding" /\ ~Opened /\ ~Opened'
        /\ intact' = intact /\ garbled' = garbled
    BY <1>3 DEF FindSlice, FindEnds, files, Opened
  <2>2. 1..Len(slices') = {}
    BY <1>1, <2>1, EmptySeq DEF Inv, Discovery
  <2>3. QED
    BY <1>1, <2>1, <2>2 DEF OpenedWhole, SpansAreArchive
<1>4. CASE OpenSlice
  <2>1. /\ phase = "opening" /\ found' = found /\ intact' = intact /\ garbled' = garbled
        /\ slices' = Append(slices, [file_data_start |-> file_data_start(next_slice),
                                     logical_start |-> total,
                                     logical_len |-> logical_len(next_slice)])
        /\ phase' = IF next_slice = found THEN "idle" ELSE "opening"
    BY <1>4 DEF OpenSlice, files
  <2>2. ~Opened /\ next_slice = Len(slices) + 1 /\ (Opened' => next_slice = found)
    BY <2>1 DEF Opened, next_slice
  <2>3. Len(slices') = Len(slices) + 1
    BY <1>1, <2>1
  <2>4. Opened' => Len(slices') = found' /\ found' > 0
    BY <1>1, <2>1, <2>2, <2>3
  <2>5. ~garbled' => intact'
    BY <1>1, <2>1, <2>2 DEF OpenedWhole
  <2>6. ~garbled' => SpansAreArchive'
    BY <1>1, <2>5 DEF Inv, SpansAreData, SpansAreArchive
  <2>7. QED
    BY <2>4, <2>5, <2>6 DEF OpenedWhole
<1>5. CASE OpenRejects \/ OpenErrors
  <2>1. /\ slicing' = slicing /\ found' = found /\ intact' = intact /\ garbled' = garbled
        /\ slices' = slices /\ ~Opened /\ ~Opened'
    BY <1>5 DEF OpenRejects, OpenErrors, OpenFails, files, Opened
  <2>2. QED
    BY <1>1, <2>1 DEF OpenedWhole, SpansAreArchive, flag, trailer
<1>6. CASE Truncate
  <2>1. /\ slicing' = slicing /\ found' = found /\ slices' = slices /\ Opened' = Opened
        /\ garbled' = (garbled \/ ~Opened)
    BY <1>6 DEF Truncate, Opened
  <2>2. QED
    BY <1>1, <2>1 DEF OpenedWhole, SpansAreArchive, flag, trailer
<1>7. QED
  BY <1>2, <1>3, <1>4, <1>5, <1>6 DEF Next

LEMMA ReadSoFarStep ==
    ASSUME Ready, [Next]_vars
    PROVE  ReadSoFar'
<1> SUFFICES ASSUME phase' = "reading"
             PROVE  ReadSoFar'
  BY DEF ReadSoFar
<1>1. /\ got \in Seq(Int) /\ buf \in Seq(Int) /\ Len(got) \in Nat /\ Len(buf) \in Nat
      /\ pos \in Nat /\ total \in Nat
  BY LenProperties DEF Ready, Inv, TypeOK
<1>2. << >> \in Seq(Int) /\ Len(<< >>) = 0
  BY EmptySeq
<1>3. CASE \E n \in Asks : Ask(n)
  <2>1. PICK n \in Asks : Ask(n)
    BY <1>3
  <2>2. ~lost' /\ need' \in Asks /\ got' = << >> /\ buf' = << >> /\ pos' = pos
    BY <2>1 DEF Ask
  <2>3. QED
    BY <1>1, <1>2, <2>2 DEF ReadSoFar
<1>4. CASE Fill
  <2>1. /\ phase = "reading" /\ need' = need /\ lost' = lost /\ got' = got /\ total' = total
        /\ garbled' = garbled
    BY <1>4 DEF Fill, files
  <2>2. CASE garbled
    BY <2>1, <2>2 DEF Ready, ReadSoFar
  <2>3. CASE ~garbled
    <3>1. PICK n \in Nat \ {0} :
              /\ pos' = pos + n /\ pos + n <= total
              /\ Len(buf') = Len(buf) + n
              /\ \A k \in 1..Len(buf) : buf'[k] = buf[k]
              /\ \A k \in (Len(buf) + 1)..(Len(buf) + n) : buf'[k] = pos + (k - Len(buf)) - 1
      BY <1>4, <2>3, FillReads
    <3>2. /\ Len(got) + Len(buf) <= pos
          /\ \A k \in 1..Len(got) : got[k] = pos - Len(buf) - Len(got) + k - 1
          /\ \A k \in 1..Len(buf) : buf[k] = pos - Len(buf) + k - 1
          /\ ~lost /\ need \in Asks
      BY <2>1, <2>3 DEF Ready, ReadSoFar
    <3>3. /\ Len(got) + Len(buf') <= pos' /\ pos' <= total
          /\ pos' - Len(buf') = pos - Len(buf)
      BY <1>1, <3>1, <3>2
    <3>4. \A k \in 1..Len(got) : got'[k] = pos' - Len(buf') - Len(got') + k - 1
      BY <2>1, <3>2, <3>3
    <3>5. ASSUME NEW k \in 1..Len(buf') PROVE buf'[k] = pos' - Len(buf') + k - 1
      <4>1. CASE k \in 1..Len(buf)
        <5>1. buf'[k] = pos - Len(buf) + k - 1
          BY <3>1, <3>2, <4>1
        <5>2. QED
          BY <3>3, <5>1
      <4>2. CASE k \notin 1..Len(buf)
        <5>1. k \in (Len(buf) + 1)..(Len(buf) + n) /\ k \in Int
          BY <1>1, <3>1, <4>2
        <5>2. buf'[k] = pos + (k - Len(buf)) - 1
          BY <3>1, <5>1
        <5>3. buf'[k] = (pos - Len(buf)) + k - 1
          BY <1>1, <5>1, <5>2
        <5>4. QED
          BY <3>3, <5>3
      <4>3. QED
        BY <4>1, <4>2
    <3>6. QED
      BY <2>1, <3>2, <3>3, <3>4, <3>5 DEF ReadSoFar
  <2>4. QED
    BY <2>2, <2>3
<1>5. CASE ReadIsShort
  <2>1. /\ phase = "reading" /\ need' = need /\ lost' = lost /\ got' = got \o buf
        /\ buf' = << >> /\ pos' = pos /\ total' = total /\ garbled' = garbled
    BY <1>5 DEF ReadIsShort, ReadReturns, files
  <2>2. CASE garbled
    BY <2>1, <2>2 DEF Ready, ReadSoFar
  <2>3. CASE ~garbled
    <3>1. /\ Len(got) + Len(buf) <= pos
          /\ Len(got) + Len(buf) > 0 => pos <= total
          /\ \A k \in 1..Len(got) : got[k] = pos - Len(buf) - Len(got) + k - 1
          /\ \A k \in 1..Len(buf) : buf[k] = pos - Len(buf) + k - 1
          /\ ~lost /\ need \in Asks
      BY <2>1, <2>3 DEF Ready, ReadSoFar
    <3>2. /\ Len(got') = Len(got) + Len(buf) /\ Len(buf') = 0
          /\ \A k \in 1..(Len(got) + Len(buf)) :
                 got'[k] = IF k <= Len(got) THEN got[k] ELSE buf[k - Len(got)]
      BY <1>1, <1>2, <2>1, ConcatProperties
    <3>3. ASSUME NEW k \in 1..Len(got') PROVE got'[k] = pos' - Len(buf') - Len(got') + k - 1
      <4>1. k \in 1..(Len(got) + Len(buf)) /\ k \in Int
        BY <3>2
      <4>2. CASE k <= Len(got)
        <5>1. k \in 1..Len(got)
          BY <1>1, <4>1, <4>2
        <5>2. got'[k] = pos - Len(buf) - Len(got) + k - 1
          BY <3>1, <3>2, <4>1, <4>2, <5>1
        <5>3. QED
          BY <1>1, <2>1, <3>2, <4>1, <5>2
      <4>3. CASE ~(k <= Len(got))
        <5>1. k - Len(got) \in 1..Len(buf)
          BY <1>1, <4>1, <4>3
        <5>2. got'[k] = pos - Len(buf) + (k - Len(got)) - 1
          BY <3>1, <3>2, <4>1, <4>3, <5>1
        <5>3. QED
          BY <1>1, <2>1, <3>2, <4>1, <5>2
      <4>4. QED
        BY <4>2, <4>3
    <3>4. 1..Len(buf') = {}
      BY <3>2
    <3>5. /\ Len(got') + Len(buf') <= pos'
          /\ Len(got') + Len(buf') > 0 => pos' <= total'
      BY <1>1, <2>1, <3>1, <3>2
    <3>6. QED
      BY <2>1, <3>1, <3>3, <3>4, <3>5 DEF ReadSoFar
  <2>4. QED
    BY <2>2, <2>3
<1>6. CASE Interrupted
  <2>1. /\ phase = "reading" /\ need' = need /\ lost' = lost /\ got' = got
        /\ buf' = << >> /\ pos' = pos /\ total' = total
        /\ garbled' = (garbled \/ buf # << >>)
    BY <1>6 DEF Interrupted
  <2>2. ~garbled' => ~garbled /\ buf' = buf
    BY <2>1
  <2>3. QED
    BY <2>1, <2>2 DEF Ready, ReadSoFar
<1>7. CASE Truncate \/ UNCHANGED vars
  <2>1. /\ phase = "reading" /\ need' = need /\ lost' = lost /\ got' = got /\ buf' = buf
        /\ pos' = pos /\ total' = total /\ (garbled => garbled')
    <3>1. CASE Truncate
      <4>1. garbled => garbled'
        BY <3>1, Zenon DEF Truncate
      <4>2. QED
        BY <3>1, <4>1 DEF Truncate
    <3>2. CASE UNCHANGED vars
      BY <3>2 DEF vars, files
    <3>3. QED
      BY <1>7, <3>1, <3>2
  <2>2. QED
    BY <2>1 DEF Ready, ReadSoFar
<1>8. ASSUME \/ FindSlice \/ FindEnds \/ OpenSlice \/ OpenRejects \/ OpenErrors
             \/ \E s \in Seeks : Seek(s[1], s[2]) \/ SeekBefore(s[1], s[2])
             \/ ReadStops \/ ReadCompletes \/ ReadFails
      PROVE  FALSE
  BY <1>8 DEF FindSlice, FindEnds, OpenSlice, OpenRejects, OpenErrors, OpenFails, Seek,
              SeekBefore, ReadStops, ReadCompletes, ReadFails
<1>9. QED
  BY <1>3, <1>4, <1>5, <1>6, <1>7, <1>8 DEF Next, ReadStep

LEMMA ReadyStep == Ready /\ [Next]_vars => Ready'
BY StepInv, OpenedWholeStep, ReadSoFarStep DEF Ready

-----------------------------------------------------------------------------
(***************************************************************************)
(* The position in the unsliced archive: where the read in progress began. *)
(***************************************************************************)
At == IF lost THEN Lost ELSE IF phase = "reading" THEN pos - Len(got) - Len(buf) ELSE pos

LEMMA AtIs == Ready => at = At
<1> SUFFICES ASSUME Ready PROVE at = At
  OBVIOUS
<1>1. lost \in BOOLEAN /\ (phase = "reading" => ~lost)
  BY DEF Ready, Inv, TypeOK, ReadSoFar
<1>2. CASE lost
  BY <1>1, <1>2 DEF at, At
<1>3. CASE ~lost /\ phase = "reading"
  BY <1>1, <1>3 DEF at, At
<1>4. CASE ~lost /\ phase # "reading"
  BY <1>1, <1>4 DEF at, At
<1>5. QED
  BY <1>2, <1>3, <1>4

LEMMA AtNext == Ready' => (at = At)'
  BY AtIs, PTL

LEMMA LengthStays ==
    ASSUME [Next]_vars
    PROVE  ArchiveLength' = ArchiveLength
<1>1. slicing' = slicing /\ present' = present
  BY DEF Next, vars, files, FindSlice, FindEnds, OpenSlice, OpenRejects, OpenErrors, OpenFails,
         Seek, SeekBefore, Ask, ReadStep, Fill, ReadReturns, ReadStops, ReadIsShort,
         ReadCompletes, ReadFails, Interrupted, Truncate
<1>2. QED
  BY <1>1 DEF ArchiveLength, findable, flag

LEMMA GarbledStays ==
    ASSUME Ready, [Next]_vars, garbled
    PROVE  garbled'
<1>1. CASE Interrupted \/ Truncate
  BY <1>1, Zenon DEF Interrupted, Truncate
<1>2. CASE ~(Interrupted \/ Truncate)
  <2>1. garbled' = garbled
    BY <1>2 DEF Next, vars, files, FindSlice, FindEnds, OpenSlice, OpenRejects, OpenErrors,
           OpenFails, Seek, SeekBefore, Ask, ReadStep, Fill, ReadReturns, ReadStops,
           ReadIsShort, ReadCompletes, ReadFails
  <2>2. QED
    BY <2>1
<1>3. QED
  BY <1>1, <1>2

\* Once garbled, the unsliced archive promises nothing.
LEMMA GarbledRefines ==
    ASSUME Ready, [Next]_vars, garbled
    PROVE  Unsliced!Next
<1>1. ArchiveLength' = ArchiveLength
  BY LengthStays
<1>2. garbled' = garbled
  <2>1. garbled \in BOOLEAN /\ garbled' \in BOOLEAN
    BY StepInv DEF Ready, Inv, TypeOK
  <2>2. QED
    BY <2>1, GarbledStays
<1>3. Unsliced!Unspecified
  BY <1>1, <1>2 DEF Unsliced!Unspecified
<1>4. QED
  BY <1>3 DEF Unsliced!Next

LEMMA InitRefines == Init => Unsliced!Init
<1> SUFFICES ASSUME Init PROVE Unsliced!Init
  OBVIOUS
<1>1. slicing \in Slicings /\ present \subseteq DOMAIN slicing
  BY DEF Init
<1>2. findable \in 0..Len(slicing) /\ Len(slicing) \in Nat
  BY <1>1, FindableFacts, SlicingFacts
<1>3. ArchiveLength \in Nat
  <2>1. CASE findable = 0
    BY <2>1 DEF ArchiveLength
  <2>2. CASE findable # 0
    <3>1. findable \in 1..Len(slicing)
      BY <1>2, <2>2
    <3>2. /\ slicing[findable].first \in Nat /\ slicing[findable].data \in Nat
          /\ flag(findable) \in {0, 1}
      BY <1>1, <3>1, SlicingFacts
    <3>3. QED
      BY <2>2, <3>2 DEF ArchiveLength
  <2>3. QED
    BY <2>1, <2>2
<1>4. at = 0
  <2>1. At = 0
    BY DEF Init, At
  <2>2. QED
    BY <2>1, AtIs, ReadyInit
<1>5. answer = Unsliced!Answer("none", << >>) /\ intact \in BOOLEAN /\ garbled = FALSE
  BY DEF Init, Answer, Unsliced!Answer
<1>6. QED
  BY <1>3, <1>4, <1>5 DEF Unsliced!Init

(***************************************************************************)
(* Before the stream is garbled: a seek of the stream is a seek of the     *)
(* archive.                                                                *)
(***************************************************************************)
LEMMA SeekRefines ==
    ASSUME Ready, ~garbled, NEW s \in Seeks, Seek(s[1], s[2]) \/ SeekBefore(s[1], s[2])
    PROVE  Unsliced!Seek(s[1], s[2]) \/ Unsliced!SeekBefore(s[1], s[2])
<1>1. s[1] \in {"Start", "End", "Current"} /\ s[2] \in Int
  BY SlicerConstants DEF SlicerConstants
<1>2. phase = "idle" /\ phase' = "idle" /\ (s[1] = "Current" => ~lost)
      /\ UNCHANGED <<slicing, present, intact, garbled>>
  BY DEF Seek, SeekBefore, files
<1>3. total = ArchiveLength
  BY <1>2, TotalIsLength DEF Opened
<1>4. pos \in Nat /\ Lost \notin Nat
  BY SlicerConstants DEF SlicerConstants, Ready, Inv, TypeOK
<1>5. ArchiveLength' = ArchiveLength
  BY <1>2 DEF ArchiveLength, findable, flag
<1>6. /\ at = IF lost THEN Lost ELSE pos
      /\ at' = IF lost' THEN Lost ELSE pos'
  BY <1>2, AtIs, AtNext, ReadyStep DEF At, Next
<1>7. s[1] = "Current" => at = pos /\ at # Lost
  BY <1>2, <1>4, <1>6
<1>8. SeekTarget(s[1], s[2]) = Unsliced!Target(s[1], s[2])
  <2>1. CASE s[1] = "Start"
    BY <2>1 DEF SeekTarget, Unsliced!Target
  <2>2. CASE s[1] = "End"
    BY <1>3, <2>2 DEF SeekTarget, Unsliced!Target
  <2>3. CASE s[1] = "Current"
    BY <1>7, <2>3 DEF SeekTarget, Unsliced!Target
  <2>4. QED
    BY <1>1, <2>1, <2>2, <2>3
<1>9. CASE Seek(s[1], s[2])
  <2> DEFINE target == SeekTarget(s[1], s[2])
  <2>1. /\ target \in 0..MaxPos /\ pos' = target /\ lost' = FALSE
        /\ answer' = Answer(s[1], <<target>>)
    BY <1>9 DEF Seek
  <2> HIDE DEF target
  <2>2. target >= 0 /\ at' = target
    BY <1>6, <2>1 DEF SlicerConstants
  <2>3. answer' = Unsliced!Answer(s[1], <<at'>>)
    BY <2>1, <2>2 DEF Answer, Unsliced!Answer
  <2>4. target = Unsliced!Target(s[1], s[2])
    BY <1>8 DEF target
  <2>5. Unsliced!Seek(s[1], s[2])
    BY <1>2, <1>5, <1>7, <2>2, <2>3, <2>4 DEF Unsliced!Seek
  <2>6. QED
    BY <2>5
<1>10. CASE SeekBefore(s[1], s[2])
  <2>1. /\ SeekTarget(s[1], s[2]) < 0 /\ pos' = pos /\ lost' = lost
        /\ answer' = Unsliced!Answer("InvalidInput", << >>)
    BY <1>10 DEF SeekBefore, Answer, Unsliced!Answer
  <2>2. at' = at
    BY <1>6, <2>1
  <2>3. Unsliced!SeekBefore(s[1], s[2])
    BY <1>2, <1>5, <1>7, <1>8, <2>1, <2>2 DEF Unsliced!SeekBefore
  <2>4. QED
    BY <2>3
<1>11. QED
  BY <1>9, <1>10

(***************************************************************************)
(* A read_exact that has all it asked for has the bytes of the archive.    *)
(***************************************************************************)
LEMMA CompletesRefines ==
    ASSUME Ready, [Next]_vars, ~garbled, ReadCompletes
    PROVE  \E n \in Asks : Unsliced!ReadExact(n)
<1>1. /\ phase = "reading" /\ phase' = "idle" /\ room = 0 /\ pos' = pos /\ lost' = lost
      /\ answer' = Answer("bytes", got \o buf)
      /\ UNCHANGED <<intact, garbled>>
  BY DEF ReadCompletes, ReadReturns, files
<1>2. /\ ~lost /\ need \in Asks
      /\ Len(got) + Len(buf) <= pos
      /\ Len(got) + Len(buf) > 0 => pos <= total
      /\ \A k \in 1..Len(got) : got[k] = pos - Len(buf) - Len(got) + k - 1
      /\ \A k \in 1..Len(buf) : buf[k] = pos - Len(buf) + k - 1
  BY <1>1 DEF Ready, ReadSoFar
<1>3. /\ got \in Seq(Int) /\ buf \in Seq(Int) /\ Len(got) \in Nat /\ Len(buf) \in Nat
      /\ pos \in Nat /\ total \in Nat /\ need \in Nat \ {0} /\ Lost \notin Nat
  BY <1>2, LenProperties, SlicerConstants DEF SlicerConstants, Ready, Inv, TypeOK
<1>4. need = Len(got) + Len(buf)
  BY <1>1, <1>3 DEF room
<1>5. total = ArchiveLength
  BY <1>1, TotalIsLength DEF Opened
<1>6. at = pos - Len(got) - Len(buf) /\ at' = pos
  <2>1. at = At /\ at' = At'
    BY AtIs, AtNext, ReadyStep
  <2>2. QED
    BY <1>1, <1>2, <2>1 DEF At
<1>7. at \in Nat /\ at + need = pos /\ at + need <= total
  BY <1>2, <1>3, <1>4, <1>6
<1>8. got \o buf = Unsliced!Bytes(at, need)
  <2>1. /\ got \o buf \in Seq(Int) /\ Len(got \o buf) = need
        /\ \A k \in 1..need :
               (got \o buf)[k] = IF k <= Len(got) THEN got[k] ELSE buf[k - Len(got)]
    BY <1>3, <1>4, ConcatProperties
  <2>2. got \o buf \in [1..need -> Int]
    BY <2>1, LenProperties
  <2>3. ASSUME NEW k \in 1..need PROVE (got \o buf)[k] = at + k - 1
    <3>1. k \in Int
      BY <1>3
    <3>2. CASE k <= Len(got)
      <4>1. k \in 1..Len(got)
        BY <1>3, <3>2
      <4>2. (got \o buf)[k] = pos - Len(buf) - Len(got) + k - 1
        BY <1>2, <2>1, <3>2, <4>1
      <4>3. QED
        BY <1>3, <1>6, <3>1, <4>2
    <3>3. CASE ~(k <= Len(got))
      <4>1. k - Len(got) \in 1..Len(buf)
        BY <1>3, <1>4, <3>3
      <4>2. (got \o buf)[k] = pos - Len(buf) + (k - Len(got)) - 1
        BY <1>2, <2>1, <3>3, <4>1
      <4>3. QED
        BY <1>3, <1>6, <3>1, <4>2
    <3>4. QED
      BY <3>2, <3>3
  <2>4. QED
    BY <2>2, <2>3 DEF Unsliced!Bytes
<1>9. ArchiveLength' = ArchiveLength
  BY LengthStays
<1>10. at # Lost /\ at' = at + need
  BY <1>3, <1>6, <1>7
<1>11. answer' = Unsliced!Answer("bytes", Unsliced!Bytes(at, need))
  BY <1>1, <1>8 DEF Answer, Unsliced!Answer
<1>12. Unsliced!ReadExact(need)
  BY <1>1, <1>5, <1>7, <1>9, <1>10, <1>11 DEF Unsliced!ReadExact
<1>13. QED
  BY <1>2, <1>12

(***************************************************************************)
(* A read that stops short has met the end of the archive, unless a slice  *)
(* file has been cut.                                                      *)
(***************************************************************************)
LEMMA AvailableWhenWhole ==
    ASSUME Ready, intact, ~garbled, NEW i \in DOMAIN slices, Holds(i), phase = "reading"
    PROVE  available(i) > 0
<1>1. /\ i \in 1..Len(slices) /\ Len(slices) \in Nat
      /\ slices[i].file_data_start \in Nat
      /\ slices[i].logical_start \in Nat /\ slices[i].logical_len \in Nat
      /\ pos \in Nat
      /\ slices[i].logical_start <= pos /\ pos < EndOf(i)
      /\ EndOf(i) = slices[i].logical_start + slices[i].logical_len
      /\ within(i) = pos - slices[i].logical_start
  BY HoldsFacts DEF Ready
<1>2. i \in 1..Len(slicing)
  <2>1. Len(slices) <= Len(slicing) /\ Len(slicing) \in Nat
    BY <1>1, Counts DEF Ready, Inv, Discovery
  <2>2. QED
    BY <1>1, <2>1
<1>3. /\ slicing[i].header \in Nat /\ slicing[i].data \in Nat /\ slicing[i].first \in Nat
      /\ flag(i) \in {0, 1} /\ slicing[1].header = 0
  BY <1>2, SlicingFacts DEF Ready, Inv, TypeOK
<1>4. len[i] = slicing[i].header + slicing[i].data + flag(i)
  BY <1>2 DEF Ready, Inv, FilesAreWhole
<1>5. slices[i].file_data_start = slicing[i].header
  BY <1>1, <1>3 DEF Ready, Inv, Chain, file_data_start
<1>6. /\ slices[i].logical_len = slicing[i].data + flag(i) - trailer(i)
      /\ trailer(i) \in {0, 1}
  BY <1>1 DEF Ready, OpenedWhole, SpansAreArchive, trailer
<1>7. available(i) = slicing[i].data + flag(i) - (pos - slices[i].logical_start)
  <2>1. available(i) = (slicing[i].header + slicing[i].data + flag(i)) - slicing[i].header
                         - (pos - slices[i].logical_start)
    BY <1>1, <1>4, <1>5 DEF available
  <2>2. QED
    BY <1>1, <1>3, <2>1
<1>8. pos - slices[i].logical_start < slicing[i].data + flag(i) - trailer(i)
  BY <1>1, <1>6
<1>9. QED
  BY <1>1, <1>3, <1>6, <1>7, <1>8

LEMMA StopsRefines ==
    ASSUME Ready, [Next]_vars, ~garbled, ReadStops
    PROVE  \E n \in Asks : Unsliced!UnexpectedEof(n)
<1>1. /\ phase = "reading" /\ phase' = "idle" /\ room > 0 /\ lost' = TRUE
      /\ answer' = Answer("UnexpectedEof", << >>)
      /\ UNCHANGED <<intact, garbled>>
      /\ \/ room = 0
         \/ ~\E i \in DOMAIN slices : Holds(i)
         \/ \E i \in DOMAIN slices : Holds(i) /\ available(i) <= 0
  BY DEF ReadStops, ReadReturns, files
<1>2. /\ ~lost /\ need \in Asks /\ Len(got) + Len(buf) <= pos
  BY <1>1 DEF Ready, ReadSoFar
<1>3. /\ Len(got) \in Nat /\ Len(buf) \in Nat /\ pos \in Nat /\ total \in Nat
      /\ need \in Nat /\ Lost \notin Nat
  BY LenProperties, SlicerConstants DEF SlicerConstants, Ready, Inv, TypeOK
<1>4. at = pos - Len(got) - Len(buf) /\ at' = Lost
  <2>1. at = At /\ at' = At'
    BY AtIs, AtNext, ReadyStep
  <2>2. QED
    BY <1>1, <1>2, <2>1 DEF At
<1>5. total = ArchiveLength
  BY <1>1, TotalIsLength DEF Opened
<1>6. room \in Int /\ at + need = pos + room
  BY <1>3, <1>4 DEF room
<1>7. intact => at + need > ArchiveLength
  <2>1. SUFFICES ASSUME intact PROVE at + need > total
    BY <1>5
  <2>2. ASSUME NEW i \in DOMAIN slices, Holds(i) PROVE ~(available(i) <= 0)
    <3>1. available(i) > 0
      BY <1>1, <2>1, <2>2, AvailableWhenWhole
    <3>2. /\ slices[i].file_data_start \in Nat /\ within(i) \in Int /\ len[i] \in Int
      <4>1. /\ i \in 1..Len(slices) /\ slices[i].file_data_start \in Nat
            /\ within(i) = pos - slices[i].logical_start
            /\ slices[i].logical_start \in Nat /\ Len(slices) \in Nat
        BY <2>2, HoldsFacts DEF Ready
      <4>2. Len(slices) <= Len(slicing) /\ Len(slicing) \in Nat
        BY <4>1, Counts DEF Ready, Inv, Discovery
      <4>3. i \in 1..Len(slicing)
        BY <4>1, <4>2
      <4>4. len[i] \in Nat
        BY <4>3 DEF Ready, Inv, TypeOK
      <4>5. QED
        BY <1>3, <4>1, <4>4
    <3>3. available(i) \in Int
      BY <3>2 DEF available
    <3>4. QED
      BY <3>1, <3>3
  <2>3. ~\E i \in DOMAIN slices : Holds(i)
    BY <1>1, <1>6, <2>2
  <2>4. ~(pos < total)
    BY <2>3, SomeHolds DEF Ready
  <2>5. QED
    BY <1>1, <1>3, <1>6, <2>4
<1>8. at # Lost
  BY <1>2, <1>3, <1>4
<1>9. ArchiveLength' = ArchiveLength
  BY LengthStays
<1>10. answer' = Unsliced!Answer("UnexpectedEof", << >>)
  BY <1>1 DEF Answer, Unsliced!Answer
<1>11. Unsliced!UnexpectedEof(need)
  BY <1>1, <1>4, <1>7, <1>8, <1>9, <1>10 DEF Unsliced!UnexpectedEof
<1>12. QED
  BY <1>2, <1>11

LEMMA FailsRefines ==
    ASSUME Ready, [Next]_vars, ~garbled, ReadFails
    PROVE  Unsliced!ReadFails
<1>1. /\ phase = "reading" /\ lost' = TRUE /\ answer' = Answer("Io", << >>)
      /\ UNCHANGED <<intact, garbled>>
  BY DEF ReadFails, files
<1>2. ~lost /\ Len(got) + Len(buf) <= pos
  BY <1>1 DEF Ready, ReadSoFar
<1>3. Len(got) \in Nat /\ Len(buf) \in Nat /\ pos \in Nat /\ Lost \notin Nat
  BY LenProperties, SlicerConstants DEF SlicerConstants, Ready, Inv, TypeOK
<1>4. at = pos - Len(got) - Len(buf) /\ at' = Lost
  <2>1. at = At /\ at' = At'
    BY AtIs, AtNext, ReadyStep
  <2>2. QED
    BY <1>1, <1>2, <2>1 DEF At
<1>5. at # Lost
  BY <1>2, <1>3, <1>4
<1>6. ArchiveLength' = ArchiveLength
  BY LengthStays
<1>7. answer' = Unsliced!Answer("Io", << >>)
  BY <1>1 DEF Answer, Unsliced!Answer
<1>8. QED
  BY <1>1, <1>4, <1>5, <1>6, <1>7 DEF Unsliced!ReadFails

\* A cut is damage; before the slice is opened, what the stream is is lost.
LEMMA CutRefines ==
    ASSUME Ready, [Next]_vars, Truncate
    PROVE  Unsliced!Damage
<1>1. /\ intact /\ intact' = FALSE
      /\ UNCHANGED <<lost, phase, pos, got, buf, answer>>
  BY DEF Truncate
<1>2. garbled' \in BOOLEAN
  BY StepInv DEF Ready, Inv, TypeOK
<1>3. at' = at
  <2>1. at = At /\ at' = At'
    BY AtIs, AtNext, ReadyStep
  <2>2. QED
    BY <1>1, <2>1 DEF At
<1>4. ArchiveLength' = ArchiveLength
  BY LengthStays
<1>5. QED
  BY <1>1, <1>2, <1>3, <1>4 DEF Unsliced!Damage

\* The bytes that an interrupted read had are dropped: the stream is garbled.
LEMMA InterruptRefines ==
    ASSUME Ready, [Next]_vars, ~garbled, Interrupted, buf # << >>
    PROVE  Unsliced!Garble
<1>1. /\ phase = "reading" /\ phase' = "reading" /\ lost' = lost /\ got' = got
      /\ pos' = pos /\ buf' = << >> /\ answer' = answer /\ intact' = intact
      /\ garbled' = (garbled \/ buf # << >>)
  BY DEF Interrupted
<1>2. ~lost /\ Len(got) + Len(buf) <= pos
  BY <1>1 DEF Ready, ReadSoFar
<1>3. Len(got) \in Nat /\ Len(buf) \in Nat /\ pos \in Nat
  BY LenProperties DEF Ready, Inv, TypeOK
<1>4. at' = pos - Len(got) - 0
  <2>1. at' = At'
    BY AtNext, ReadyStep
  <2>2. Len(buf') = 0
    BY <1>1, EmptySeq
  <2>3. QED
    BY <1>1, <1>2, <2>1, <2>2 DEF At
<1>5. at' \in Nat
  BY <1>2, <1>3, <1>4
<1>6. ArchiveLength' = ArchiveLength
  BY LengthStays
<1>7. garbled' = TRUE
  BY <1>1
<1>8. QED
  BY <1>1, <1>5, <1>6, <1>7 DEF Unsliced!Garble

(***************************************************************************)
(* Finding and opening the slices, and the steps inside a read, are no     *)
(* step of the archive.                                                    *)
(***************************************************************************)
LEMMA SilentRefines ==
    ASSUME Ready, [Next]_vars,
           \/ FindSlice \/ FindEnds \/ OpenSlice \/ OpenRejects \/ OpenErrors
           \/ \E n \in Asks : Ask(n)
           \/ Fill \/ ReadIsShort
           \/ Interrupted /\ buf = << >>
           \/ UNCHANGED vars,
           ~garbled
    PROVE  UNCHANGED Unsliced!vars
<1>1. Len(got) \in Nat /\ Len(buf) \in Nat /\ pos \in Nat
      /\ got \in Seq(Int) /\ buf \in Seq(Int)
  BY LenProperties DEF Ready, Inv, TypeOK
<1>2. << >> \in Seq(Int) /\ Len(<< >>) = 0
  BY EmptySeq
<1>3. answer' = answer /\ intact' = intact /\ lost' = lost
  BY DEF vars, files, FindSlice, FindEnds, OpenSlice, OpenRejects, OpenErrors, OpenFails,
         Ask, Fill, ReadIsShort, ReadReturns, Interrupted
<1>4. garbled' = garbled
  <2>1. CASE Interrupted /\ buf = << >>
    <3>1. garbled' = (garbled \/ buf # << >>) /\ garbled' \in BOOLEAN /\ garbled \in BOOLEAN
      BY <2>1, StepInv DEF Interrupted, Ready, Inv, TypeOK
    <3>2. QED
      BY <2>1, <3>1
  <2>2. CASE ~(Interrupted /\ buf = << >>)
    BY <2>2 DEF vars, files, FindSlice, FindEnds, OpenSlice, OpenRejects, OpenErrors,
                OpenFails, Ask, Fill, ReadIsShort, ReadReturns
  <2>3. QED
    BY <2>1, <2>2
<1>5. at = At /\ at' = At'
  BY AtIs, AtNext, ReadyStep
<1>6. At' = At
  <2>1. CASE FindSlice \/ FindEnds \/ OpenSlice \/ OpenRejects \/ OpenErrors
    <3>1. phase # "reading" /\ phase' # "reading" /\ pos' = pos
      BY <2>1 DEF FindSlice, FindEnds, OpenSlice, OpenRejects, OpenErrors, OpenFails
    <3>2. QED
      BY <1>3, <3>1 DEF At
  <2>2. CASE \E n \in Asks : Ask(n)
    <3>1. /\ phase = "idle" /\ phase' = "reading" /\ ~lost /\ pos' = pos
          /\ got' = << >> /\ buf' = << >>
      BY <2>2 DEF Ask
    <3>2. QED
      BY <1>1, <1>2, <1>3, <3>1 DEF At
  <2>3. CASE Fill
    <3>1. PICK n \in Nat \ {0} : pos' = pos + n /\ Len(buf') = Len(buf) + n
      BY <2>3, FillReads
    <3>2. phase = "reading" /\ phase' = "reading" /\ got' = got
      BY <2>3 DEF Fill
    <3>3. pos' - Len(got') - Len(buf') = pos - Len(got) - Len(buf)
      BY <1>1, <3>1, <3>2
    <3>4. QED
      BY <1>3, <3>2, <3>3 DEF At
  <2>4. CASE ReadIsShort
    <3>1. /\ phase = "reading" /\ phase' = "reading" /\ pos' = pos
          /\ got' = got \o buf /\ buf' = << >>
      BY <2>4 DEF ReadIsShort, ReadReturns
    <3>2. Len(got') = Len(got) + Len(buf) /\ Len(buf') = 0
      BY <1>1, <1>2, <3>1, ConcatProperties
    <3>3. pos' - Len(got') - Len(buf') = pos - Len(got) - Len(buf)
      BY <1>1, <3>1, <3>2
    <3>4. QED
      BY <1>3, <3>1, <3>3 DEF At
  <2>5. CASE Interrupted /\ buf = << >>
    BY <1>3, <2>5 DEF Interrupted, At
  <2>6. CASE UNCHANGED vars
    BY <2>6 DEF vars, At
  <2>7. QED
    BY <2>1, <2>2, <2>3, <2>4, <2>5, <2>6
<1>7. ArchiveLength' = ArchiveLength
  BY LengthStays
<1>8. QED
  BY <1>3, <1>4, <1>5, <1>6, <1>7 DEF Unsliced!vars

-----------------------------------------------------------------------------
LEMMA StepRefines ==
    ASSUME Ready, [Next]_vars
    PROVE  [Unsliced!Next]_(Unsliced!vars)
<1>1. CASE garbled
  BY <1>1, GarbledRefines
<1>2. CASE ~garbled
  <2>1. ASSUME NEW s \in Seeks, Seek(s[1], s[2]) \/ SeekBefore(s[1], s[2])
        PROVE  Unsliced!Next
    BY <1>2, <2>1, SeekRefines DEF Unsliced!Next
  <2>2. CASE ReadCompletes \/ ReadStops
    BY <1>2, <2>2, CompletesRefines, StopsRefines DEF Unsliced!Next
  <2>3. CASE ReadFails \/ Truncate
    BY <1>2, <2>3, FailsRefines, CutRefines DEF Unsliced!Next
  <2>4. CASE Interrupted /\ buf # << >>
    BY <1>2, <2>4, InterruptRefines DEF Unsliced!Next
  <2>5. CASE \/ FindSlice \/ FindEnds \/ OpenSlice \/ OpenRejects \/ OpenErrors
             \/ \E n \in Asks : Ask(n)
             \/ Fill \/ ReadIsShort
             \/ Interrupted /\ buf = << >>
             \/ UNCHANGED vars
    BY <1>2, <2>5, SilentRefines
  <2>6. QED
    BY <2>1, <2>2, <2>3, <2>4, <2>5 DEF Next, ReadStep
<1>3. QED
  BY <1>1, <1>2

(***************************************************************************)
(* "one contiguous logical stream ... byte-identical to the equivalent     *)
(* unsliced archive" (SliceReader): for any cut into slices, with any of   *)
(* them missing, any seeks and reads, short, interrupted or failed, and a  *)
(* slice file cut at any time, until one of the two garblings.             *)
(***************************************************************************)
THEOREM SlicesRefine == Spec => ReadsAsUnsliced
BY ReadyInit, ReadyStep, InitRefines, StepRefines, PTL
   DEF Spec, ReadsAsUnsliced, Unsliced!Spec
=============================================================================
