--------------------------- MODULE Extract_proofs ---------------------------
(***************************************************************************)
(* The caps of extract_to, for archives of every size and with any cells,  *)
(* any number of calls, and all that the storage may do; and that what     *)
(* comes out of an archive as dar wrote it is what dar archived.           *)
(***************************************************************************)
EXTENDS Extract, SequenceTheorems, TLAPS

ArchiveRecord ==
    [disk : Seq(Cells), sliced : BOOLEAN, format : {1, 7, 8},
     codec : {"stored", "stream", "blocks", "raw"}, packed : BOOLEAN,
     start : Nat, size : Nat, storage_size : Nat, crc : Seq({0, 1}),
     plain : Seq(Cells), blocks : Seq([at : Nat, before : Nat]), genuine : BOOLEAN]

LEMMA ArchiveFacts ==
    ASSUME archive \in Archives
    PROVE  /\ disk \in Seq(Cells)
           /\ archive.start \in Nat
           /\ archive.size \in Nat
           /\ stored_size \in Nat
           /\ Len(disk) \in Nat
           /\ archive.sliced \in BOOLEAN
           /\ archive.genuine \in BOOLEAN
           /\ archive.plain \in Seq(Cells)
           /\ archive.crc \in Seq({0, 1})
           /\ archive.format \in {1, 7, 8} /\ archive.packed \in BOOLEAN
           /\ archive.codec \in {"stored", "stream", "blocks", "raw"}
           /\ archive.storage_size \in Nat
           /\ archive.blocks \in Seq([at : Nat, before : Nat])
<1>1. archive \in ArchiveRecord
  BY ExtractConstants DEF ExtractConstants, ArchiveRecord
<1>2. /\ archive.disk \in Seq(Cells) /\ archive.start \in Nat /\ archive.size \in Nat
      /\ archive.storage_size \in Nat
      /\ archive.sliced \in BOOLEAN /\ archive.genuine \in BOOLEAN
      /\ archive.plain \in Seq(Cells) /\ archive.crc \in Seq({0, 1})
      /\ archive.format \in {1, 7, 8} /\ archive.packed \in BOOLEAN
      /\ archive.codec \in {"stored", "stream", "blocks", "raw"}
      /\ archive.blocks \in Seq([at : Nat, before : Nat])
  BY <1>1 DEF ArchiveRecord
<1>3. Len(disk) \in Nat
  BY <1>2, LenProperties DEF disk
<1>4. QED
  BY <1>2, <1>3 DEF disk, stored_size

\* What SubSeq makes of a sequence of cells, also when the end is past it.
LEMMA Slice ==
    ASSUME NEW s \in Seq(Cells), NEW m \in Nat \ {0}, NEW n \in Nat, n <= Len(s)
    PROVE  /\ SubSeq(s, m, n) \in Seq(Cells)
           /\ Len(SubSeq(s, m, n)) = IF m <= n THEN n - m + 1 ELSE 0
           /\ \A i \in 1..Len(SubSeq(s, m, n)) : SubSeq(s, m, n)[i] = s[m - 1 + i]
<1>1. \A i \in m..n : s[i] \in Cells
  BY LenProperties
<1>2. SubSeq(s, m, n) = [i \in 1..(1 + n - m) |-> s[i + m - 1]]
  BY DEF SubSeq
<1>3. /\ SubSeq(s, m, n) \in Seq(Cells)
      /\ Len(SubSeq(s, m, n)) = IF m <= n THEN n - m + 1 ELSE 0
  <2>1. CASE m <= n
    <3>1. 1 + n - m \in Nat
      BY <2>1
    <3>2. \A i \in 1..(1 + n - m) : s[i + m - 1] \in Cells
      BY <1>1, <2>1
    <3>3. [i \in 1..(1 + n - m) |-> s[i + m - 1]] \in [1..(1 + n - m) -> Cells]
      BY <3>2
    <3>4. QED
      BY <1>2, <2>1, <3>1, <3>3
  <2>2. CASE m > n
    <3>1. 1..(1 + n - m) = {}
      BY <2>2
    <3>2. SubSeq(s, m, n) = << >>
      BY <1>2, <3>1
    <3>3. QED
      BY <2>2, <3>2
  <2>3. QED
    BY <2>1, <2>2
<1>4. ASSUME NEW i \in 1..Len(SubSeq(s, m, n))
      PROVE  SubSeq(s, m, n)[i] = s[m - 1 + i]
  <2>1. i \in 1..(1 + n - m) /\ i + m - 1 = m - 1 + i
    BY <1>3
  <2>2. QED
    BY <1>2, <2>1
<1>5. QED
  BY <1>3, <1>4

LEMMA InflateIsCells ==
    ASSUME NEW cells \in Seq(Cells)
    PROVE  Inflate(cells) \in Seq(Cells)
<1>1. \A i \in 1..(2 * Len(cells)) : (i + 1) \div 2 \in 1..Len(cells)
  BY LenProperties
<1>2. \A i \in 1..(2 * Len(cells)) : cells[(i + 1) \div 2] \in Cells
  BY <1>1, ElementOfSeq
<1>3. 2 * Len(cells) \in Nat
  BY LenProperties
<1>4. Inflate(cells) \in [1..(2 * Len(cells)) -> Cells]
  BY <1>2 DEF Inflate
<1>5. QED
  BY <1>3, <1>4

-----------------------------------------------------------------------------
(***************************************************************************)
(* The cap that holds is the one of the branch taken, so the invariant     *)
(* says which phases belong to which branch.                               *)
(***************************************************************************)
Branches ==
    /\ phase = "copy" => compression = "stored"
    /\ phase \in {"span", "blocks", "decode", "compare"} => compression # "stored"

DeclaredLength ==
    answer.status \in {"ok", "Match", "Mismatch"} /\ compression # "stored" =>
        Len(answer.bytes) = archive.size

Inv ==
    /\ archive \in Archives
    /\ TypeOK
    /\ Branches
    /\ OutputIsCapped
    /\ DeclaredLength

LEMMA RestFacts ==
    ASSUME archive \in Archives, TypeOK
    PROVE  /\ rest \in Seq(Cells)
           /\ FromDisk => Len(rest) = IF position < end THEN end - position ELSE 0
           /\ ~FromDisk => rest = block
<1>1. disk \in Seq(Cells) /\ position + 1 \in Nat \ {0} /\ end \in Nat /\ end <= Len(disk)
  BY ArchiveFacts DEF TypeOK
<1>2. /\ SubSeq(disk, position + 1, end) \in Seq(Cells)
      /\ Len(SubSeq(disk, position + 1, end)) =
            IF position + 1 <= end THEN end - (position + 1) + 1 ELSE 0
  BY <1>1, Slice
<1>3. position + 1 <= end <=> position < end
  BY <1>1 DEF TypeOK
<1>4. end - (position + 1) + 1 = end - position
  BY <1>1 DEF TypeOK
<1>5. QED
  BY <1>2, <1>3, <1>4 DEF rest, TypeOK

LEMMA InitInv == Init => Inv
<1> SUFFICES ASSUME Init PROVE Inv
  OBVIOUS
<1>1. archive \in Archives
  BY DEF Init
<1>2. Len(disk) \in Nat /\ stored_size \in Nat /\ archive.size \in Nat
      /\ archive.genuine \in BOOLEAN
  BY <1>1, ArchiveFacts
<1>3. << >> \in Seq(Cells) /\ Len(<< >>) = 0
  BY EmptySeq
<1>4. answer.status = "none" /\ answer.bytes = << >>
  BY DEF Init, Answer
<1>5. TypeOK
  <2>1. end = Len(disk) /\ sound = archive.genuine /\ calls = 0 /\ phase = "idle"
        /\ verifying = FALSE /\ position = 0 /\ input = << >> /\ block = << >> /\ out = << >>
    BY DEF Init
  <2>2. calls \in 0..MaxCalls
    BY <2>1, ExtractConstants DEF ExtractConstants
  <2>3. end \in 0..Len(disk) /\ position \in 0..Len(disk)
    BY <2>1, <1>2
  <2>4. QED
    BY <2>1, <2>2, <2>3, <1>2, <1>3, <1>4 DEF TypeOK
<1>6. Branches /\ OutputIsCapped /\ DeclaredLength
  BY <1>2, <1>3, <1>4 DEF Init, Branches, OutputIsCapped, DeclaredLength
<1>7. QED
  BY <1>1, <1>5, <1>6 DEF Inv

-----------------------------------------------------------------------------
\* What a step leaves of the archive's facts.
LEMMA SameArchive ==
    ASSUME archive' = archive
    PROVE  /\ disk' = disk /\ compression' = compression /\ stored_size' = stored_size
           /\ archive.size' = archive.size
BY DEF disk, compression, stored_size

LEMMA CallStep ==
    ASSUME Inv, CallExtract \/ CallVerify \/ NotStored \/ EntryNotFound
    PROVE  Inv'
<1>1. /\ archive' = archive /\ end' = end /\ sound' = sound /\ position' = position
      /\ input' = input /\ block' = block /\ out' = << >>
      /\ phase = "idle" /\ phase' \in {"idle", "locate"}
      /\ verifying' \in BOOLEAN /\ calls' = calls + 1 /\ calls < MaxCalls
  BY DEF CallExtract, CallVerify, NotStored, EntryNotFound, Call
<1>2. answer' = answer \/ answer' = Answer("NotStored", << >>)
      \/ answer' = Answer("EntryNotFound", << >>)
  BY DEF CallExtract, CallVerify, NotStored, EntryNotFound
<1>3. << >> \in Seq(Cells) /\ Len(<< >>) = 0
  BY EmptySeq
<1>4. \/ answer' = answer
      \/ /\ answer'.status \in {"NotStored", "EntryNotFound"}
         /\ answer'.bytes = << >>
  BY <1>2 DEF Answer
<1>5. calls' \in 0..MaxCalls
  BY <1>1, ExtractConstants DEF Inv, TypeOK, ExtractConstants
<1>6. TypeOK'
  BY <1>1, <1>3, <1>4, <1>5, SameArchive DEF Inv, TypeOK
<1>7. Branches'
  BY <1>1 DEF Branches
<1>8. OutputIsCapped'
  BY <1>1, <1>3, SameArchive, ArchiveFacts DEF Inv, OutputIsCapped
<1>9. DeclaredLength'
  BY <1>1, <1>4, SameArchive DEF Inv, DeclaredLength
<1>10. QED
  BY <1>1, <1>6, <1>7, <1>8, <1>9 DEF Inv

\* A call ends with an answer: that it failed, or a whole output.
LEMMA ReturnStep ==
    ASSUME Inv,
           NEW status \in {"ok", "Match", "Mismatch", "failed"}, Return(status),
           position' \in 0..Len(disk),
           status # "failed" /\ compression # "stored" => Len(out) = archive.size
    PROVE  Inv'
<1>1. /\ archive' = archive /\ end' = end /\ sound' = sound /\ calls' = calls
      /\ verifying' = verifying /\ input' = input /\ block' = block /\ out' = out
      /\ phase' = "idle"
  BY DEF Return, medium
<1>2. answer'.status = status /\ answer'.bytes = out
  BY DEF Return, Answer
<1>3. TypeOK'
  BY <1>1, <1>2, SameArchive DEF Inv, TypeOK
<1>4. Branches' /\ OutputIsCapped' /\ DeclaredLength'
  BY <1>1, <1>2, SameArchive DEF Inv, Branches, OutputIsCapped, DeclaredLength
<1>5. QED
  BY <1>1, <1>3, <1>4 DEF Inv

LEMMA FailStep ==
    ASSUME Inv, Fail
    PROVE  Inv'
<1>1. position' \in 0..Len(disk)
  BY DEF Fail, Inv, TypeOK
<1>2. QED
  BY <1>1, ReturnStep DEF Fail

LEMMA SucceedStep ==
    ASSUME Inv, Succeed, compression # "stored" => Len(out) = archive.size
    PROVE  Inv'
<1>1. position' \in 0..Len(disk)
  BY DEF Succeed, Inv, TypeOK
<1>2. \E status \in {"ok", "Match", "Mismatch"} : Return(status)
  BY DEF Succeed
<1>3. QED
  BY <1>1, <1>2, ReturnStep

\* A decoded piece is within the cap.
LEMMA PieceStep ==
    ASSUME Inv, NEW cells \in Seq(Cells), WithinCap(Inflate(cells)),
           out' = out \o Inflate(cells)
    PROVE  /\ out' \in Seq(Cells)
           /\ Len(out') <= archive.size
<1>1. out \in Seq(Cells) /\ Inflate(cells) \in Seq(Cells)
  BY InflateIsCells DEF Inv, TypeOK
<1>2. QED
  BY <1>1, ConcatProperties DEF WithinCap

\* The steps of a call that neither begin nor end it.
Working == Locate \/ Copy \/ ReadSpan \/ OpenBlock \/ EndOfBlocks \/ DecodeRaw \/ DecodeStream
             \/ StreamEnds

\* What the types and the cap need of such a step.
LEMMA WorkingStep ==
    ASSUME Inv, medium' = medium, answer' = answer,
           phase' \in {"copy", "span", "blocks", "decode", "compare"},
           phase' = "copy" <=> compression = "stored",
           position' \in 0..Len(disk), input' \in Seq(Cells), block' \in Seq(Cells),
           out' = out \/ (/\ out' \in Seq(Cells)
                         /\ Len(out') <= IF compression = "stored" THEN stored_size
                                                                  ELSE archive.size)
    PROVE  Inv'
<1>1. archive' = archive /\ end' = end /\ sound' = sound /\ calls' = calls
      /\ verifying' = verifying
  BY DEF medium
<1>2. TypeOK'
  BY <1>1, SameArchive DEF Inv, TypeOK
<1>3. Branches' /\ OutputIsCapped' /\ DeclaredLength'
  BY <1>1, SameArchive DEF Inv, Branches, OutputIsCapped, DeclaredLength
<1>4. QED
  BY <1>1, <1>2, <1>3 DEF Inv

LEMMA WorkStep ==
    ASSUME Inv, Working
    PROVE  Inv'
<1>1. /\ disk \in Seq(Cells) /\ Len(disk) \in Nat /\ stored_size \in Nat
      /\ archive.start \in Nat /\ archive.size \in Nat
  BY ArchiveFacts DEF Inv
<1>2. /\ position \in 0..Len(disk) /\ input \in Seq(Cells) /\ block \in Seq(Cells)
      /\ out \in Seq(Cells) /\ end \in 0..Len(disk)
  BY DEF Inv, TypeOK
<1>3. Len(out) \in Nat /\ Len(input) \in Nat /\ Len(block) \in Nat
  BY <1>2, LenProperties
<1>4. CASE Locate
  <2>1. reported_end <= Len(disk)
    BY <1>1, <1>2 DEF reported_end
  <2>2. archive.start \in 0..Len(disk)
    BY <1>1, <1>2, <1>4, <2>1 DEF Locate, InArchive, reported_end
  <2>3. /\ medium' = medium /\ answer' = answer /\ out' = out /\ position' = archive.start
        /\ input' = input /\ block' = block /\ phase' \in {"copy", "span", "decode"}
        /\ phase' = "copy" <=> compression = "stored"
    BY <1>4 DEF Locate, SeekTo
  <2>4. QED
    BY <1>2, <2>2, <2>3, WorkingStep
<1>5. CASE Copy
  <2>1. PICK n \in 1..Lesser(stored_size - Len(out), end - position) :
            /\ out' = out \o SubSeq(disk, position + 1, position + n)
            /\ position' = position + n
    BY <1>5 DEF Copy
  <2>2. n \in Nat \ {0} /\ n <= stored_size - Len(out) /\ n <= end - position
    BY <1>1, <1>2, <1>3 DEF Lesser
  <2>3. position + n \in Nat /\ position + n <= Len(disk)
    BY <1>1, <1>2, <2>2
  <2>4. position + 1 \in Nat \ {0} /\ (position + n) - (position + 1) + 1 = n
        /\ position + 1 <= position + n
    BY <1>1, <1>2, <2>2
  <2>5. /\ SubSeq(disk, position + 1, position + n) \in Seq(Cells)
        /\ Len(SubSeq(disk, position + 1, position + n)) = n
    BY <1>1, <2>3, <2>4, Slice
  <2>6. out' \in Seq(Cells) /\ Len(out') = Len(out) + n
    BY <1>2, <2>1, <2>5, ConcatProperties
  <2>7. Len(out') <= stored_size
    BY <1>1, <1>3, <2>2, <2>6
  <2>8. compression = "stored" /\ phase' = "copy" /\ medium' = medium /\ answer' = answer
        /\ input' = input /\ block' = block
    BY <1>5 DEF Copy, Inv, Branches
  <2>9. position' \in 0..Len(disk)
    BY <2>1, <2>3, <1>1
  <2>10. QED
    BY <1>2, <2>6, <2>7, <2>8, <2>9, WorkingStep
<1>6. CASE ReadSpan
  <2> DEFINE data == SubSeq(disk, position + 1, position + stored_size)
  <2>1. position + 1 \in Nat \ {0} /\ position + stored_size \in Nat
        /\ position + stored_size <= Len(disk)
    BY <1>1, <1>2, <1>6 DEF ReadSpan
  <2>2. data \in Seq(Cells)
    BY <1>1, <2>1, Slice
  <2>3. /\ medium' = medium /\ out' = out /\ answer' = answer
        /\ position' = position + stored_size
        /\ phase' \in {"blocks", "decode"}
        /\ input' \in {data, << >>} /\ block' \in {data, << >>}
        /\ compression # "stored"
    BY <1>6 DEF ReadSpan, Inv, Branches
  <2>4. << >> \in Seq(Cells)
    BY EmptySeq
  <2>5. position' \in 0..Len(disk)
    BY <2>1, <2>3, <1>1
  <2> HIDE DEF data
  <2>6. QED
    BY <2>2, <2>3, <2>4, <2>5, WorkingStep
<1>7. CASE OpenBlock
  <2>1. PICK size \in 1..Len(input) :
            /\ Header(DATA(size))
            /\ Fits(size)
            /\ block' = SubSeq(input, 2, size + 1)
            /\ input' = SubSeq(input, size + 2, Len(input))
    BY <1>7 DEF OpenBlock
  <2>2. Len(Tail(input)) = Len(input) - 1
    BY <1>2, <2>1, HeadTailProperties DEF Header
  <2>3. size + 1 \in Nat /\ size + 1 <= Len(input) /\ size + 2 \in Nat \ {0}
    BY <1>3, <2>1, <2>2 DEF Fits
  <2>4. block' \in Seq(Cells)
    <3>1. 2 \in Nat \ {0}
      OBVIOUS
    <3>2. QED
      BY <1>2, <2>1, <2>3, <3>1, Slice
  <2>5. input' \in Seq(Cells)
    BY <1>2, <1>3, <2>1, <2>3, Slice
  <2>6. /\ medium' = medium /\ position' = position /\ out' = out /\ answer' = answer
        /\ phase' = "decode" /\ compression # "stored"
    BY <1>7 DEF OpenBlock, Inv, Branches
  <2>7. QED
    BY <1>2, <2>4, <2>5, <2>6, WorkingStep
<1>8. CASE EndOfBlocks
  <2>1. /\ medium' = medium /\ position' = position /\ out' = out /\ answer' = answer
        /\ input' = input /\ block' = block
        /\ phase' = "compare" /\ compression # "stored"
    BY <1>8 DEF EndOfBlocks, Inv, Branches
  <2>2. QED
    BY <1>2, <2>1, WorkingStep
<1>9. CASE DecodeRaw
  <2>1. /\ medium' = medium /\ position' = position /\ answer' = answer
        /\ input' = input /\ block' = << >> /\ phase' = "blocks" /\ compression = "raw"
    BY <1>9 DEF DecodeRaw
  <2>2. out' \in Seq(Cells) /\ Len(out') <= archive.size
    BY <1>2, <1>9, PieceStep DEF DecodeRaw
  <2>3. block' \in Seq(Cells)
    BY <2>1, EmptySeq
  <2>4. QED
    BY <1>2, <2>1, <2>2, <2>3, WorkingStep
<1>10. CASE DecodeStream
  <2>1. PICK n \in 1..Len(rest) :
            /\ WithinCap(Inflate(SubSeq(rest, 1, n)))
            /\ out' = out \o Inflate(SubSeq(rest, 1, n))
            /\ Advance(n)
    BY <1>10 DEF DecodeStream
  <2>2. /\ rest \in Seq(Cells)
        /\ FromDisk => Len(rest) = IF position < end THEN end - position ELSE 0
        /\ ~FromDisk => rest = block
    BY RestFacts DEF Inv
  <2>3. n \in Nat \ {0} /\ n <= Len(rest) /\ Len(rest) \in Nat
    BY <2>2, LenProperties
  <2>4. SubSeq(rest, 1, n) \in Seq(Cells)
    <3>1. 1 \in Nat \ {0}
      OBVIOUS
    <3>2. QED
      BY <2>2, <2>3, <3>1, Slice
  <2>5. out' \in Seq(Cells) /\ Len(out') <= archive.size
    BY <2>1, <2>4, PieceStep
  <2>6. position' \in 0..Len(disk)
    <3>1. CASE FromDisk
      BY <1>1, <1>2, <2>1, <2>2, <2>3, <3>1 DEF Advance
    <3>2. CASE ~FromDisk
      BY <1>2, <2>1, <3>2 DEF Advance
    <3>3. QED
      BY <3>1, <3>2
  <2>7. block' \in Seq(Cells)
    <3>1. CASE FromDisk
      BY <1>2, <2>1, <3>1 DEF Advance
    <3>2. CASE ~FromDisk
      <4>1. block' = SubSeq(block, n + 1, Len(block))
        BY <2>1, <3>2 DEF Advance
      <4>2. n + 1 \in Nat \ {0}
        BY <2>3
      <4>3. QED
        BY <1>2, <1>3, <4>1, <4>2, Slice
    <3>3. QED
      BY <3>1, <3>2
  <2>8. /\ medium' = medium /\ answer' = answer /\ input' = input /\ phase' = "decode"
        /\ compression # "stored"
    BY <1>10 DEF DecodeStream, Inv, Branches
  <2>9. QED
    BY <1>2, <2>5, <2>6, <2>7, <2>8, WorkingStep
<1>11. CASE StreamEnds
  <2>1. /\ medium' = medium /\ position' = position /\ out' = out /\ answer' = answer
        /\ input' = input /\ block' = block
        /\ phase' \in {"blocks", "compare"} /\ compression # "stored"
    BY <1>11 DEF StreamEnds, Inv, Branches
  <2>2. QED
    BY <1>2, <2>1, WorkingStep
<1>12. QED
  BY <1>4, <1>5, <1>6, <1>7, <1>8, <1>9, <1>10, <1>11 DEF Working

-----------------------------------------------------------------------------
LEMMA StepInv == Inv /\ [Next]_vars => Inv'
<1> SUFFICES ASSUME Inv, [Next]_vars
             PROVE  Inv'
  OBVIOUS
<1>1. CASE CallExtract \/ CallVerify \/ NotStored \/ EntryNotFound
  BY <1>1, CallStep
<1>2. CASE Working
  BY <1>2, WorkStep
<1>3. CASE RejectStart \/ SpanIsShort \/ BadBlock \/ RawFails \/ StreamFails
  BY <1>3, FailStep DEF RejectStart, SpanIsShort, BadBlock, RawFails, StreamFails
<1>4. CASE RejectClaim
  <2>1. archive.start \in 0..Len(disk)
    <3>1. /\ archive.start \in Nat /\ archive.start <= reported_end
          /\ Len(disk) \in Nat /\ end \in 0..Len(disk)
      BY <1>4, ArchiveFacts DEF RejectClaim, InArchive, Inv, TypeOK
    <3>2. QED
      BY <3>1 DEF reported_end
  <2>2. position' = archive.start /\ Return("failed")
    BY <1>4 DEF RejectClaim
  <2>3. position' \in 0..Len(disk)
    BY <2>1, <2>2
  <2>4. QED
    BY <2>2, <2>3, ReturnStep
<1>5. CASE CopyEnds
  BY <1>5, SucceedStep DEF CopyEnds, Inv, Branches
<1>6. CASE Compare
  <2>1. CASE RightSize
    BY <1>6, <2>1, SucceedStep DEF Compare, RightSize
  <2>2. CASE ~RightSize
    BY <1>6, <2>2, FailStep DEF Compare
  <2>3. QED
    BY <2>1, <2>2
<1>7. CASE IoFails
  <2>1. /\ archive' = archive /\ end' = end /\ calls' = calls /\ verifying' = verifying
        /\ position' = position /\ input' = input /\ block' = block /\ out' = out
        /\ phase' = "idle" /\ sound' = FALSE
        /\ answer'.status = "failed" /\ answer'.bytes = out
    BY <1>7 DEF IoFails, Answer
  <2>2. TypeOK'
    BY <2>1, SameArchive DEF Inv, TypeOK
  <2>3. Branches' /\ OutputIsCapped' /\ DeclaredLength'
    BY <2>1, SameArchive DEF Inv, Branches, OutputIsCapped, DeclaredLength
  <2>4. QED
    BY <2>1, <2>2, <2>3 DEF Inv
<1>8. CASE Shrink
  <2>1. /\ archive' = archive /\ calls' = calls /\ verifying' = verifying /\ phase' = phase
        /\ position' = position /\ input' = input /\ block' = block /\ out' = out
        /\ answer' = answer /\ sound' = FALSE
    BY <1>8 DEF Shrink
  <2>2. end' \in 0..Len(disk)
    BY <1>8, ArchiveFacts DEF Shrink, Inv, TypeOK
  <2>3. TypeOK'
    BY <2>1, <2>2, SameArchive DEF Inv, TypeOK
  <2>4. Branches' /\ OutputIsCapped' /\ DeclaredLength'
    BY <2>1, SameArchive DEF Inv, Branches, OutputIsCapped, DeclaredLength
  <2>5. QED
    BY <2>1, <2>3, <2>4 DEF Inv
<1>9. CASE UNCHANGED vars
  <2>1. TypeOK'
    BY <1>9, SameArchive DEF Inv, TypeOK, vars
  <2>2. Branches' /\ OutputIsCapped' /\ DeclaredLength'
    BY <1>9, SameArchive DEF Inv, Branches, OutputIsCapped, DeclaredLength, vars
  <2>3. QED
    BY <1>9, <2>1, <2>2 DEF Inv, vars
<1>10. QED
  BY <1>1, <1>2, <1>3, <1>4, <1>5, <1>6, <1>7, <1>8, <1>9 DEF Next, Step, Working

LEMMA SpecInv == Spec => []Inv
BY InitInv, StepInv, PTL DEF Spec

(***************************************************************************)
(* The reader stays inside the archive, also when its file shrinks and     *)
(* when an entry's offset and sizes are forged (extract_to).               *)
(***************************************************************************)
THEOREM TypeCorrect == Spec => []TypeOK
<1>1. Inv => TypeOK
  BY DEF Inv
<1>2. QED
  BY SpecInv, <1>1, PTL

(***************************************************************************)
(* No writer is ever given more than the catalogue declares, whatever the  *)
(* archive holds (CapWriter and the bounds of extract_to).                 *)
(***************************************************************************)
THEOREM NeverOverInflates == Spec => []OutputIsCapped
<1>1. Inv => OutputIsCapped
  BY DEF Inv
<1>2. QED
  BY SpecInv, <1>1, PTL

(***************************************************************************)
(* "never returns partial bytes as if whole": what a call on a compressed  *)
(* entry returns with Ok has the declared length, however its blocks and   *)
(* its stream end (extract_to's last check).                               *)
(***************************************************************************)
THEOREM OkHasDeclaredLength == Spec => []DeclaredLength
<1>1. Inv => DeclaredLength
  BY DEF Inv
<1>2. QED
  BY SpecInv, <1>1, PTL

-----------------------------------------------------------------------------
(***************************************************************************)
(* Before format 8 an entry that dar left unpacked is taken for a packed   *)
(* one (run extract_legacy), so that what follows is about archives        *)
(* without.                                                                *)
(***************************************************************************)
NoneLeftUnpacked ==
    \A a \in Archives : a.genuine /\ a.format < 8 => a.packed \/ a.codec = "stored"

(***************************************************************************)
(* What a call has done so far with a genuine archive.                     *)
(***************************************************************************)
StartsWith(whole, bytes) ==
    /\ Len(bytes) <= Len(whole)
    /\ \A i \in 1..Len(bytes) : bytes[i] = whole[i]

blocks == archive.blocks

\* Behind cell "from" are n cells with the data behind its first 2 * before
\* bytes, and m of them are decoded.
Decoding(from, n, before, m) ==
    /\ m <= n
    /\ Len(out) = 2 * (before + m)
    /\ compression = "raw" => m = 0
    /\ FromDisk => position = from + m
    /\ ~FromDisk => /\ Len(block) = (IF compression = "raw" THEN n ELSE n + 1) - m
                    /\ \A i \in 1..Len(block) : block[i] = disk[from + m + i]

\* What is left begins with header k.
AtHeader(k) ==
    /\ Len(input) = blocks[Len(blocks)].at + 1 - blocks[k].at
    /\ \A i \in 1..Len(input) : input[i] = disk[blocks[k].at + i]

InBlock(k, m) ==
    /\ Decoding(blocks[k].at + 1, blocks[k + 1].before - blocks[k].before, blocks[k].before, m)
    /\ AtHeader(k + 1)

InStream(n, m) ==
    /\ 2 * n = archive.size
    /\ Decoding(archive.start, n, 0, m)

Progress ==
    /\ phase = "locate" => out = << >>
    /\ phase = "copy" => position = archive.start + Len(out)
    /\ phase = "span" => ~FromDisk /\ position = archive.start /\ out = << >>
    /\ phase = "blocks" =>
          /\ Blockwise
          /\ \E k \in 1..Len(blocks) : AtHeader(k) /\ Len(out) = 2 * blocks[k].before
    /\ phase = "decode" /\ Blockwise => \E k \in 1..(Len(blocks) - 1) : \E m \in Nat : InBlock(k, m)
    /\ phase = "decode" /\ ~Blockwise => \E n, m \in Nat : InStream(n, m)

AsArchived ==
    /\ StartsWith(archive.plain, out)
    /\ StartsWith(archive.plain, answer.bytes)
    /\ Progress

Whole ==
    /\ archive.genuine
    /\ end = Len(disk)
    /\ phase = "compare" => Len(out) = archive.size
    /\ answer.status \notin {"failed", "Mismatch"}
    /\ answer.status \in {"ok", "Match"} => answer.bytes = archive.plain

Faithful ==
    /\ archive.genuine => AsArchived
    /\ sound => Whole
    /\ phase # "idle" /\ verifying => archive.crc # << >>

\* The reader takes a genuine entry for what dar made of it.
LEMMA SameFraming ==
    ASSUME archive \in Archives, archive.genuine, NoneLeftUnpacked
    PROVE  /\ AsWritten(archive)
           /\ compression = Framing(archive)
           /\ archive.size = Len(archive.plain)
<1>1. AsWritten(archive)
  BY GenuineArchives DEF GenuineArchives
<1>2. archive.format < 8 => archive.packed \/ archive.codec = "stored"
  BY DEF NoneLeftUnpacked
<1>3. archive.format \in {1, 7, 8} /\ archive.packed \in BOOLEAN
  BY ArchiveFacts
<1>4. compression = Framing(archive)
  BY <1>2, <1>3 DEF compression, Framing
<1>5. QED
  BY <1>1, <1>4 DEF AsWritten

\* The stored size is the number of cells taken.
LEMMA StoredSize ==
    ASSUME archive \in Archives, NEW n \in Nat, Takes(archive, n),
           compression = Framing(archive),
           n = 0 \/ compression = "stored" => n = archive.size,
           archive.format # 1 \/ compression = "stored"
    PROVE  stored_size = n
BY ArchiveFacts DEF Takes, stored_size, Framing

LEMMA StoredEntry ==
    ASSUME archive \in Archives, archive.genuine, NoneLeftUnpacked,
           compression = "stored"
    PROVE  /\ stored_size = Len(archive.plain)
           /\ archive.start + stored_size <= Len(disk)
           /\ \A i \in 1..stored_size : disk[archive.start + i] = archive.plain[i]
<1>1. AsCopied(archive) /\ archive.size = Len(archive.plain)
  BY SameFraming DEF AsWritten, AsStream, AsBlocks
<1>2. stored_size = archive.size
  BY <1>1, SameFraming, StoredSize, ArchiveFacts DEF AsCopied
<1>3. QED
  BY <1>1, <1>2 DEF AsCopied, Takes, disk

LEMMA StreamEntry ==
    ASSUME archive \in Archives, archive.genuine, NoneLeftUnpacked,
           compression = "stream"
    PROVE  \E n \in Nat :
              /\ 2 * n = archive.size
              /\ archive.start + n + 1 <= Len(disk)
              /\ ~FromDisk => stored_size = n + 1
              /\ Packs(archive, archive.start, n, 0)
              /\ disk[archive.start + n + 1] = END
<1>1. AsStream(archive)
  BY SameFraming DEF AsWritten, AsCopied, AsBlocks
<1>2. PICK n \in 0..Len(archive.disk) :
          /\ 2 * n = archive.size
          /\ Takes(archive, n + 1)
          /\ Packs(archive, archive.start, n, 0)
          /\ archive.disk[archive.start + n + 1] = END
  BY <1>1 DEF AsStream
<1>3. n \in Nat /\ n + 1 \in Nat /\ n + 1 # 0
  BY <1>2, ArchiveFacts DEF disk
<1>4. ~FromDisk => stored_size = n + 1
  BY <1>2, <1>3, SameFraming, StoredSize DEF FromDisk
<1>5. archive.start + n + 1 <= Len(disk)
  BY <1>2, <1>3, ArchiveFacts DEF Takes, disk
<1>6. QED
  BY <1>2, <1>3, <1>4, <1>5 DEF disk

LEMMA BlocksEntry ==
    ASSUME archive \in Archives, archive.genuine, NoneLeftUnpacked, Blockwise
    PROVE  /\ AsBlocks(archive)
           /\ ~FromDisk
           /\ Len(blocks) \in Nat \ {0}
           /\ \A k \in 1..Len(blocks) :
                 blocks[k].at \in Nat /\ blocks[k].before \in Nat
           /\ blocks[Len(blocks)].at + 1 <= Len(disk)
           /\ stored_size = blocks[Len(blocks)].at + 1 - archive.start
<1>1. AsBlocks(archive)
  BY SameFraming DEF AsWritten, AsCopied, AsStream, Blockwise
<1>2. Len(blocks) \in Nat \ {0}
  BY <1>1, ArchiveFacts, LenProperties DEF AsBlocks, blocks
<1>3. \A k \in 1..Len(blocks) : blocks[k] \in [at : Nat, before : Nat]
  BY ArchiveFacts, ElementOfSeq DEF blocks
<1>4. \A k \in 1..Len(blocks) : blocks[k].at \in Nat /\ blocks[k].before \in Nat
  BY <1>3
<1>5. Len(blocks) \in 1..Len(blocks) /\ 1 \in 1..Len(blocks)
  BY <1>2
<1> DEFINE n == blocks[Len(blocks)].at + 1 - archive.start
<1>6. Takes(archive, n) /\ archive.start <= blocks[Len(blocks)].at /\ archive.format # 1
  BY <1>1, <1>5 DEF AsBlocks, blocks
<1> DEFINE final == blocks[Len(blocks)].at
<1>7. final \in Nat /\ archive.start \in Nat /\ Len(disk) \in Nat
  BY <1>4, <1>5, ArchiveFacts
<1>8. n \in Nat /\ n # 0
  <2>1. n = final + 1 - archive.start /\ archive.start <= final
    BY <1>6
  <2> HIDE DEF n, final
  <2>2. QED
    BY <2>1, <1>7
<1>9. compression # "stored"
  BY DEF Blockwise
<1>10. stored_size = n
  <2> HIDE DEF n
  <2>1. QED
    BY <1>6, <1>8, <1>9, SameFraming, StoredSize
<1>11. final + 1 <= Len(disk)
  <2>1. n = final + 1 - archive.start /\ archive.start + n <= Len(disk)
    BY <1>6 DEF Takes, disk
  <2> HIDE DEF n, final
  <2>2. QED
    BY <2>1, <1>8, <1>7
<1>12. QED
  BY <1>1, <1>2, <1>4, <1>6, <1>10, <1>11 DEF FromDisk

-----------------------------------------------------------------------------
LEMMA StartsWithNothing ==
    ASSUME NEW whole \in Seq(Cells)
    PROVE  StartsWith(whole, << >>)
<1>1. Len(<< >>) = 0 /\ Len(whole) \in Nat
  BY LenProperties
<1>2. QED
  BY <1>1 DEF StartsWith

LEMMA StartsWithMore ==
    ASSUME NEW whole \in Seq(Cells), NEW bytes \in Seq(Cells), NEW piece \in Seq(Cells),
           StartsWith(whole, bytes),
           Len(bytes) + Len(piece) <= Len(whole),
           \A i \in 1..Len(piece) : piece[i] = whole[Len(bytes) + i]
    PROVE  StartsWith(whole, bytes \o piece)
<1>1. Len(whole) \in Nat /\ Len(bytes) \in Nat /\ Len(piece) \in Nat
  BY LenProperties
<1>2. Len(bytes \o piece) = Len(bytes) + Len(piece)
  BY ConcatProperties
<1>3. ASSUME NEW i \in 1..Len(bytes \o piece)
      PROVE  (bytes \o piece)[i] = whole[i]
  <2>1. CASE i <= Len(bytes)
    <3>1. i \in 1..Len(bytes)
      BY <1>1, <1>2, <2>1
    <3>2. (bytes \o piece)[i] = bytes[i]
      BY <1>2, <2>1, ConcatProperties
    <3>3. QED
      BY <3>1, <3>2 DEF StartsWith
  <2>2. CASE i > Len(bytes)
    <3>1. i - Len(bytes) \in 1..Len(piece) /\ Len(bytes) + (i - Len(bytes)) = i
      BY <1>1, <1>2, <2>2
    <3>2. (bytes \o piece)[i] = piece[i - Len(bytes)]
      BY <1>1, <1>2, <2>2, ConcatProperties
    <3>3. QED
      BY <3>1, <3>2
  <2>3. QED
    BY <1>1, <1>2, <2>1, <2>2
<1>4. QED
  BY <1>2, <1>3 DEF StartsWith

LEMMA WholePrefix ==
    ASSUME NEW whole \in Seq(Cells), NEW bytes \in Seq(Cells),
           StartsWith(whole, bytes), Len(bytes) >= Len(whole)
    PROVE  bytes = whole
<1>1. Len(bytes) = Len(whole)
  BY LenProperties DEF StartsWith
<1>2. QED
  BY <1>1, SeqEqual DEF StartsWith

\* One byte of each pair.
LEMMA InflateProperties ==
    ASSUME NEW cells \in Seq(Cells)
    PROVE  /\ Inflate(cells) \in Seq(Cells)
           /\ Len(Inflate(cells)) = 2 * Len(cells)
           /\ \A i \in 1..(2 * Len(cells)) :
                 Inflate(cells)[i] = cells[(i + 1) \div 2]
<1>1. 2 * Len(cells) \in Nat
  BY LenProperties
<1>2. QED
  BY <1>1, InflateIsCells DEF Inflate

\* These cells are the next ones of a run of which m are decoded.
NextOfRun(cells, from, n, before, m) ==
    /\ Packs(archive, from, n, before)
    /\ Len(out) = 2 * (before + m)
    /\ m + Len(cells) <= n
    /\ \A i \in 1..Len(cells) : cells[i] = disk[from + m + i]

\* Decoded, they go on where the output is.
LEMMA DecodedRun ==
    ASSUME archive \in Archives, archive.genuine, NoneLeftUnpacked, TypeOK,
           StartsWith(archive.plain, out),
           NEW from \in Nat, NEW n \in Nat, NEW before \in Nat, NEW m \in Nat,
           NEW cells \in Seq(Cells), NextOfRun(cells, from, n, before, m)
    PROVE  /\ StartsWith(archive.plain, out \o Inflate(cells))
           /\ out \o Inflate(cells) \in Seq(Cells)
           /\ Len(out \o Inflate(cells)) = 2 * (before + (m + Len(cells)))
           /\ WithinCap(Inflate(cells))
<1> DEFINE piece == Inflate(cells)
<1>1. /\ Packs(archive, from, n, before) /\ Len(out) = 2 * (before + m) /\ m + Len(cells) <= n
      /\ \A i \in 1..Len(cells) : cells[i] = disk[from + m + i]
  BY DEF NextOfRun
<1>2. /\ piece \in Seq(Cells) /\ Len(piece) = 2 * Len(cells)
      /\ \A i \in 1..(2 * Len(cells)) : piece[i] = cells[(i + 1) \div 2]
  BY InflateProperties
<1>3. Len(cells) \in Nat /\ archive.plain \in Seq(Cells) /\ out \in Seq(Cells)
      /\ archive.size = Len(archive.plain) /\ Len(archive.plain) \in Nat
  BY ArchiveFacts, SameFraming, LenProperties DEF TypeOK
<1>4. 2 * (before + n) <= Len(archive.plain)
      /\ \A j \in 1..n : /\ archive.plain[2 * (before + j) - 1] = disk[from + j]
                         /\ archive.plain[2 * (before + j)] = disk[from + j]
  BY <1>1 DEF Packs, disk
<1>5. Len(out) + Len(piece) = 2 * (before + (m + Len(cells)))
  BY <1>2, <1>3, <1>1
<1>6. Len(out) + Len(piece) <= Len(archive.plain)
  BY <1>3, <1>4, <1>5, <1>1
<1>7. ASSUME NEW i \in 1..Len(piece)
      PROVE  piece[i] = archive.plain[Len(out) + i]
  <2> DEFINE c == (i + 1) \div 2
  <2>1. i \in 1..(2 * Len(cells)) /\ i \in Int
    BY <1>2
  <2>2. c \in 1..Len(cells) /\ (i = 2 * c \/ i = 2 * c - 1)
    BY <1>3, <2>1
  <2>3. piece[i] = cells[c]
    BY <1>2, <2>1
  <2> HIDE DEF c
  <2>4. m + c \in 1..n /\ from + m + c = from + (m + c)
    BY <1>3, <1>1, <2>2
  <2>5. cells[c] = disk[from + (m + c)]
    BY <1>1, <2>2, <2>4
  <2>6. Len(out) + i = 2 * (before + (m + c)) \/ Len(out) + i = 2 * (before + (m + c)) - 1
    BY <1>3, <1>1, <2>2
  <2>7. QED
    BY <1>4, <2>3, <2>4, <2>5, <2>6
<1> HIDE DEF piece
<1>8. StartsWith(archive.plain, out \o piece)
  BY <1>2, <1>3, <1>6, <1>7, StartsWithMore
<1>9. out \o piece \in Seq(Cells) /\ Len(out \o piece) = Len(out) + Len(piece)
  <2>1. piece \in Seq(Cells) /\ out \in Seq(Cells)
    BY <1>2, <1>3
  <2>2. QED
    BY <2>1, ConcatProperties
<1>10. QED
  BY <1>3, <1>5, <1>6, <1>8, <1>9 DEF WithinCap, piece

\* What is left of the run, and where it ends.
LEMMA RestOfRun ==
    ASSUME archive \in Archives, TypeOK, NEW from \in Nat, NEW n \in Nat, NEW before \in Nat,
           NEW m \in Nat, Decoding(from, n, before, m)
    PROVE  /\ rest \in Seq(Cells)
           /\ \A i \in 1..Len(rest) : rest[i] = disk[from + m + i]
           /\ ~FromDisk => Len(rest) = (IF compression = "raw" THEN n ELSE n + 1) - m
           /\ FromDisk => Len(rest) = IF position < end THEN end - position ELSE 0
<1>1. /\ rest \in Seq(Cells)
      /\ FromDisk => Len(rest) = IF position < end THEN end - position ELSE 0
      /\ ~FromDisk => rest = block
  BY RestFacts
<1>2. CASE ~FromDisk
  BY <1>1, <1>2 DEF Decoding
<1>3. CASE FromDisk
  <2>1. position = from + m /\ position \in Nat /\ end \in Nat
    BY <1>3, ArchiveFacts DEF Decoding, TypeOK
  <2>2. rest = SubSeq(disk, position + 1, end)
    BY <1>3 DEF rest
  <2>3. disk \in Seq(Cells) /\ position + 1 \in Nat \ {0} /\ end <= Len(disk)
    BY <2>1, ArchiveFacts DEF TypeOK
  <2>4. \A i \in 1..Len(rest) : rest[i] = disk[(position + 1) - 1 + i]
    BY <2>1, <2>2, <2>3, Slice
  <2>5. (position + 1) - 1 = from + m
    BY <2>1
  <2>6. QED
    BY <1>1, <1>3, <2>4, <2>5
<1>4. QED
  BY <1>2, <1>3

\* A row of data cells does not go past the end of the run.
LEMMA RowInRun ==
    ASSUME archive \in Archives, TypeOK, NEW from \in Nat, NEW n \in Nat, NEW before \in Nat,
           NEW m \in Nat, Decoding(from, n, before, m), disk[from + n + 1] = END,
           NEW k \in 1..Len(rest), IsRun(k)
    PROVE  m + k <= n
<1>1. k \in Nat /\ Len(rest) \in Nat
  BY RestOfRun, LenProperties
<1>2. SUFFICES ASSUME m + k > n PROVE FALSE
  BY <1>1
<1> DEFINE last == n + 1 - m
<1>3. last \in 1..k /\ last \in 1..Len(rest) /\ from + m + last = from + n + 1
  BY <1>1, <1>2 DEF Decoding
<1> HIDE DEF last
<1>4. rest[last] = disk[from + n + 1]
  <2>1. rest[last] = disk[from + m + last]
    BY <1>3, RestOfRun
  <2>2. QED
    BY <1>3, <2>1
<1>5. rest[last] = -1 /\ rest[last] >= 0
  BY <1>3, <1>4 DEF IsRun, IsData, END
<1>6. QED
  BY <1>5

-----------------------------------------------------------------------------
\* The cells of block k behind its header.
SizeOf(k) == blocks[k + 1].at - blocks[k].at - 1
CellsOf(k) == blocks[k + 1].before - blocks[k].before

LEMMA BlockFacts ==
    ASSUME archive \in Archives, archive.genuine, NoneLeftUnpacked, Blockwise,
           NEW k \in 1..(Len(blocks) - 1)
    PROVE  /\ CellsOf(k) \in Nat \ {0}
           /\ SizeOf(k) = IF compression = "raw" THEN CellsOf(k) ELSE CellsOf(k) + 1
           /\ blocks[k + 1].at = (blocks[k].at + 1) + SizeOf(k)
           /\ blocks[k + 1].at <= blocks[Len(blocks)].at
           /\ disk[blocks[k].at + 1] = DATA(SizeOf(k))
           /\ Packs(archive, blocks[k].at + 1, CellsOf(k), blocks[k].before)
           /\ compression = "raw" => 2 * CellsOf(k) <= BlockSize
           /\ compression # "raw" => disk[(blocks[k].at + 1) + CellsOf(k) + 1] = END
<1>1. AsBlocks(archive) /\ Len(blocks) \in Nat \ {0}
      /\ \A j \in 1..Len(blocks) : blocks[j].at \in Nat /\ blocks[j].before \in Nat
  BY BlocksEntry
<1>2. k \in 1..Len(blocks) /\ k + 1 \in 1..Len(blocks)
  BY <1>1
<1>3. /\ blocks[k].at \in Nat /\ blocks[k].before \in Nat
      /\ blocks[k + 1].at \in Nat /\ blocks[k + 1].before \in Nat
      /\ blocks[k + 1].at <= blocks[Len(blocks)].at
      /\ IsBlock(archive, blocks[k], blocks[k + 1])
  BY <1>1, <1>2 DEF AsBlocks, blocks
<1>4. compression = archive.codec
  BY SameFraming DEF compression, Blockwise
<1> DEFINE size == IF compression = "raw" THEN CellsOf(k) ELSE CellsOf(k) + 1
<1>5. /\ CellsOf(k) >= 1
      /\ blocks[k + 1].at = blocks[k].at + 1 + size
      /\ disk[blocks[k].at + 1] = DATA(size)
      /\ Packs(archive, blocks[k].at + 1, CellsOf(k), blocks[k].before)
      /\ compression = "raw" => 2 * CellsOf(k) <= BlockSize
      /\ compression # "raw" => disk[blocks[k + 1].at] = END
  BY <1>3, <1>4 DEF IsBlock, CellsOf, disk
<1>6. CellsOf(k) \in Nat \ {0}
  <2>1. \A a, b \in Nat : b - a >= 1 => b - a \in Nat \ {0}
    OBVIOUS
  <2>2. QED
    BY <1>3, <1>5, <2>1, Zenon DEF CellsOf
<1>7. SizeOf(k) = size
  <2>1. size \in Nat
    BY <1>6
  <2> HIDE DEF size
  <2>2. QED
    BY <1>3, <1>5, <2>1 DEF SizeOf
<1>8. blocks[k + 1].at = (blocks[k].at + 1) + SizeOf(k)
  <2>1. \A a, b \in Nat : b = (a + 1) + (b - a - 1)
    OBVIOUS
  <2>2. QED
    BY <1>3, <2>1, Zenon DEF SizeOf
<1>9. compression # "raw" => blocks[k + 1].at = (blocks[k].at + 1) + CellsOf(k) + 1
  <2>1. \A a, n \in Nat : (a + 1) + (n + 1) = (a + 1) + n + 1
    OBVIOUS
  <2>2. (blocks[k].at + 1) + (CellsOf(k) + 1) = (blocks[k].at + 1) + CellsOf(k) + 1
    BY <1>3, <1>6, <2>1
  <2>3. compression # "raw" => SizeOf(k) = CellsOf(k) + 1
    BY <1>7
  <2> HIDE DEF size
  <2>4. QED
    BY <1>8, <2>2, <2>3, Zenon
<1>10. QED
  BY <1>3, <1>5, <1>6, <1>7, <1>8, <1>9

\* A header is one cell, which says what it is.
LEMMA Headers ==
    ASSUME NEW s \in Int, NEW t \in Int
    PROVE  /\ DATA(s) # EOF(t)
           /\ DATA(s) = DATA(t) => s = t
BY DEF DATA, EOF

LEMMA HeaderIs ==
    ASSUME archive \in Archives, archive.genuine, NoneLeftUnpacked, Blockwise, TypeOK,
           NEW k \in 1..Len(blocks), AtHeader(k)
    PROVE  /\ Len(input) \in Nat \ {0}
           /\ Len(Tail(input)) = Len(input) - 1
           /\ \A cell : Header(cell) <=> cell = disk[blocks[k].at + 1]
<1>1. /\ Len(blocks) \in Nat \ {0}
      /\ \A j \in 1..Len(blocks) : blocks[j].at \in Nat
  BY BlocksEntry
<1>2. blocks[k].at <= blocks[Len(blocks)].at
  BY BlocksEntry DEF AsBlocks, blocks
<1>3. Len(blocks) \in 1..Len(blocks)
  BY <1>1
<1> DEFINE final == blocks[Len(blocks)].at
<1>4. final \in Nat /\ blocks[k].at \in Nat /\ blocks[k].at <= final
      /\ Len(input) = final + 1 - blocks[k].at
  BY <1>1, <1>2, <1>3 DEF AtHeader
<1> HIDE DEF final
<1>5. Len(input) \in Nat \ {0}
  BY <1>4
<1>6. 1 \in 1..Len(input)
  BY <1>5
<1>7. input[1] = disk[blocks[k].at + 1]
  BY <1>6 DEF AtHeader
<1>8. input \in Seq(Cells)
  BY DEF TypeOK
<1>9. input # << >> /\ Head(input) = input[1] /\ Len(Tail(input)) = Len(input) - 1
  BY <1>5, <1>8, EmptySeq, HeadTailProperties
<1>10. QED
  BY <1>5, <1>7, <1>9 DEF Header

LEMMA LastHeader ==
    ASSUME archive \in Archives, archive.genuine, NoneLeftUnpacked, Blockwise, TypeOK,
           AtHeader(Len(blocks))
    PROVE  Header(EOF(0))
<1>1. Len(blocks) \in 1..Len(blocks)
  BY BlocksEntry
<1>2. disk[blocks[Len(blocks)].at + 1] = EOF(0)
  BY BlocksEntry DEF AsBlocks, blocks, disk
<1>3. QED
  BY <1>1, <1>2, HeaderIs

LEMMA NextHeader ==
    ASSUME archive \in Archives, archive.genuine, NoneLeftUnpacked, Blockwise, TypeOK,
           NEW k \in 1..(Len(blocks) - 1), AtHeader(k)
    PROVE  /\ SizeOf(k) \in 1..Len(input)
           /\ Header(DATA(SizeOf(k)))
           /\ Fits(SizeOf(k))
           /\ \A size \in Int : Header(DATA(size)) => size = SizeOf(k)
           /\ ~Header(EOF(0))
<1>1. /\ Len(blocks) \in Nat \ {0}
      /\ \A j \in 1..Len(blocks) : blocks[j].at \in Nat
  BY BlocksEntry
<1>2. k \in 1..Len(blocks) /\ Len(blocks) \in 1..Len(blocks)
  BY <1>1
<1>3. /\ CellsOf(k) \in Nat \ {0}
      /\ SizeOf(k) = IF compression = "raw" THEN CellsOf(k) ELSE CellsOf(k) + 1
      /\ blocks[k + 1].at = (blocks[k].at + 1) + SizeOf(k)
      /\ blocks[k + 1].at <= blocks[Len(blocks)].at
      /\ disk[blocks[k].at + 1] = DATA(SizeOf(k))
  BY BlockFacts
<1>4. SizeOf(k) \in Nat \ {0}
  BY <1>3
<1>5. /\ Len(input) \in Nat \ {0}
      /\ Len(Tail(input)) = Len(input) - 1
      /\ \A cell : Header(cell) <=> cell = DATA(SizeOf(k))
  BY <1>2, <1>3, HeaderIs
<1>6. SizeOf(k) <= Len(input) - 1
  <2> DEFINE final == blocks[Len(blocks)].at
             size == SizeOf(k)
  <2>1. /\ final \in Nat /\ blocks[k].at \in Nat /\ size \in Nat
        /\ (blocks[k].at + 1) + size <= final
        /\ Len(input) = final + 1 - blocks[k].at
    BY <1>1, <1>2, <1>3, <1>4 DEF AtHeader
  <2> HIDE DEF final, size
  <2>2. size <= Len(input) - 1
    BY <2>1
  <2>3. QED
    BY <2>2 DEF size
<1>7. SizeOf(k) \in 1..Len(input) /\ Fits(SizeOf(k))
  BY <1>4, <1>5, <1>6 DEF Fits
<1>8. \A size \in Int : Header(DATA(size)) => size = SizeOf(k)
  BY <1>4, <1>5, Headers
<1>9. ~Header(EOF(0))
  BY <1>4, <1>5, Headers
<1>10. QED
  BY <1>5, <1>7, <1>8, <1>9

-----------------------------------------------------------------------------
LEMMA Framings ==
    ASSUME archive \in Archives
    PROVE  /\ compression \in {"stored", "stream", "blocks", "raw"}
           /\ compression = "stream" <=> compression # "stored" /\ ~Blockwise
BY ArchiveFacts DEF compression, Blockwise

LEMMA EntryInArchive ==
    ASSUME archive \in Archives, archive.genuine, NoneLeftUnpacked
    PROVE  /\ archive.start <= Len(disk)
           /\ compression = "stored" \/ ~FromDisk => archive.start + stored_size <= Len(disk)
<1>1. archive.start \in Nat /\ stored_size \in Nat /\ Len(disk) \in Nat
  BY ArchiveFacts
<1>2. CASE compression = "stored"
  BY <1>1, <1>2, StoredEntry
<1>3. CASE compression = "stream"
  <2>1. PICK n \in Nat : /\ archive.start + n + 1 <= Len(disk)
                         /\ ~FromDisk => stored_size = n + 1
    BY <1>3, StreamEntry
  <2>2. QED
    BY <1>1, <1>3, <2>1
<1>4. CASE Blockwise
  <2> DEFINE final == blocks[Len(blocks)].at
  <2>1. final \in Nat /\ final + 1 <= Len(disk) /\ stored_size = final + 1 - archive.start
    BY <1>4, BlocksEntry
  <2> HIDE DEF final
  <2>2. QED
    BY <1>1, <2>1
<1>5. QED
  BY <1>2, <1>3, <1>4, Framings

\* What a step may rely on while a run is decoded, in a block or a stream.
Run(from, n, before, m) ==
    /\ Packs(archive, from, n, before)
    /\ compression # "raw" => disk[from + n + 1] = END
    /\ compression = "raw" => 2 * n <= BlockSize
    /\ from + n + (IF compression = "raw" THEN 0 ELSE 1) <= Len(disk)
    /\ Decoding(from, n, before, m)

LEMMA RunOfBlock ==
    ASSUME archive \in Archives, archive.genuine, NoneLeftUnpacked, Blockwise,
           NEW k \in 1..(Len(blocks) - 1), NEW m \in Nat, InBlock(k, m)
    PROVE  /\ blocks[k].at + 1 \in Nat /\ CellsOf(k) \in Nat /\ blocks[k].before \in Nat
           /\ Run(blocks[k].at + 1, CellsOf(k), blocks[k].before, m)
<1>1. /\ Len(blocks) \in Nat \ {0}
      /\ \A j \in 1..Len(blocks) : blocks[j].at \in Nat /\ blocks[j].before \in Nat
      /\ blocks[Len(blocks)].at + 1 <= Len(disk)
  BY BlocksEntry
<1>2. k \in 1..Len(blocks) /\ Len(blocks) \in 1..Len(blocks)
  BY <1>1
<1>3. blocks[k].at \in Nat /\ blocks[k].before \in Nat /\ blocks[Len(blocks)].at \in Nat
  BY <1>1, <1>2
<1>4. /\ CellsOf(k) \in Nat \ {0}
      /\ SizeOf(k) = IF compression = "raw" THEN CellsOf(k) ELSE CellsOf(k) + 1
      /\ blocks[k + 1].at = (blocks[k].at + 1) + SizeOf(k)
      /\ blocks[k + 1].at <= blocks[Len(blocks)].at
      /\ Packs(archive, blocks[k].at + 1, CellsOf(k), blocks[k].before)
      /\ compression = "raw" => 2 * CellsOf(k) <= BlockSize
      /\ compression # "raw" => disk[(blocks[k].at + 1) + CellsOf(k) + 1] = END
  BY BlockFacts
<1>5. (blocks[k].at + 1) + CellsOf(k) + (IF compression = "raw" THEN 0 ELSE 1) <= Len(disk)
  <2> DEFINE final == blocks[Len(blocks)].at
             from == blocks[k].at + 1
             n == CellsOf(k)
             size == SizeOf(k)
  <2>1. /\ final \in Nat /\ final + 1 <= Len(disk) /\ from \in Nat /\ n \in Nat
        /\ from + size <= final /\ size = IF compression = "raw" THEN n ELSE n + 1
        /\ Len(disk) \in Nat
    <3>1. final \in Nat /\ from \in Nat
      BY <1>3
    <3>2. n \in Nat
      BY <1>4
    <3>3. from + size <= final
      BY <1>4, Zenon
    <3>4. Len(disk) \in Nat
      BY ArchiveFacts
    <3> HIDE DEF from, n, size
    <3>5. size = IF compression = "raw" THEN n ELSE n + 1
      BY <1>4 DEF n, size
    <3>6. final + 1 <= Len(disk)
      BY <1>1
    <3>7. QED
      BY <3>1, <3>2, <3>3, <3>4, <3>5, <3>6
  <2> HIDE DEF final, from, n, size
  <2>2. from + n + (IF compression = "raw" THEN 0 ELSE 1) <= Len(disk)
    BY <2>1
  <2>3. QED
    BY <2>2 DEF from, n
<1>6. Decoding(blocks[k].at + 1, CellsOf(k), blocks[k].before, m)
  BY DEF InBlock, CellsOf
<1>7. blocks[k].at + 1 \in Nat /\ CellsOf(k) \in Nat
  BY <1>3, <1>4
<1>8. Run(blocks[k].at + 1, CellsOf(k), blocks[k].before, m)
  BY <1>4, <1>5, <1>6, Zenon DEF Run
<1>9. QED
  BY <1>3, <1>7, <1>8

LEMMA RunOfStream ==
    ASSUME archive \in Archives, archive.genuine, NoneLeftUnpacked, compression = "stream",
           NEW n \in Nat, NEW m \in Nat, InStream(n, m)
    PROVE  archive.start \in Nat /\ Run(archive.start, n, 0, m)
<1>1. PICK p \in Nat :
          /\ 2 * p = archive.size
          /\ archive.start + p + 1 <= Len(disk)
          /\ Packs(archive, archive.start, p, 0)
          /\ disk[archive.start + p + 1] = END
  BY StreamEntry
<1>2. p = n
  BY <1>1 DEF InStream
<1>3. QED
  BY <1>1, <1>2, ArchiveFacts DEF Run, InStream

\* Decoding a run never fails while the storage does not.
LEMMA RunIsSound ==
    ASSUME archive \in Archives, archive.genuine, NoneLeftUnpacked, TypeOK,
           StartsWith(archive.plain, out), end = Len(disk),
           NEW from \in Nat, NEW n \in Nat, NEW before \in Nat, NEW m \in Nat,
           Run(from, n, before, m)
    PROVE  ~RawFails /\ ~StreamFails
<1>1. /\ rest \in Seq(Cells)
      /\ \A i \in 1..Len(rest) : rest[i] = disk[from + m + i]
      /\ ~FromDisk => Len(rest) = (IF compression = "raw" THEN n ELSE n + 1) - m
      /\ FromDisk => Len(rest) = IF position < end THEN end - position ELSE 0
  BY RestOfRun DEF Run
<1>2. m <= n /\ (compression = "raw" => m = 0) /\ (FromDisk => position = from + m)
  BY DEF Run, Decoding
<1>3. \A j \in 1..n : IsData(disk[from + j])
  BY DEF Run, Packs, disk
<1>4. ~RawFails
  <2> SUFFICES ASSUME compression = "raw" PROVE ~RawFails
    BY DEF RawFails
  <2>1. ~FromDisk /\ rest = block
    <3>1. Blockwise
      BY DEF Blockwise
    <3>2. QED
      BY <3>1, BlocksEntry DEF rest
  <2>2. Len(block) = n /\ block \in Seq(Cells)
    BY <1>1, <1>2, <2>1
  <2>3. IsRun(Len(block))
    <3>1. ASSUME NEW i \in 1..n PROVE IsData(rest[i])
      <4>1. from + m + i = from + i
        BY <1>2
      <4>2. QED
        BY <1>1, <1>3, <2>1, <2>2, <4>1
    <3>2. QED
      BY <2>2, <3>1 DEF IsRun
  <2>4. 2 * Len(block) <= BlockSize
    BY <2>2 DEF Run
  <2>5. WithinCap(Inflate(block))
    <3>1. \A i \in 1..Len(block) : block[i] = disk[from + m + i]
      BY <1>1, <2>1
    <3>2. m + Len(block) <= n
      BY <1>2, <2>2
    <3>3. Len(out) = 2 * (before + m) /\ Packs(archive, from, n, before)
      BY DEF Run, Decoding
    <3>4. NextOfRun(block, from, n, before, m)
      BY <3>1, <3>2, <3>3 DEF NextOfRun
    <3>5. QED
      BY <2>2, <3>4, DecodedRun
  <2>6. QED
    BY <2>3, <2>4, <2>5 DEF RawFails
<1>5. ~StreamFails
  <2> SUFFICES ASSUME compression # "raw" PROVE ~StreamFails
    BY DEF StreamFails
  <2>1. disk[from + n + 1] = END /\ from + n + 1 <= Len(disk)
    BY DEF Run
  <2>2. Len(rest) \in Nat \ {0} /\ Len(rest) >= n + 1 - m
    <3>1. Len(disk) \in Nat
      BY ArchiveFacts
    <3>2. CASE FromDisk
      BY <1>1, <1>2, <2>1, <3>1, <3>2
    <3>3. CASE ~FromDisk
      BY <1>1, <1>2, <3>3
    <3>4. QED
      BY <3>2, <3>3
  <2>3. 1 \in 1..Len(rest) /\ Head(rest) = rest[1] /\ rest # << >>
    BY <1>1, <2>2, EmptySeq, HeadTailProperties
  <2>4. IsData(Head(rest)) \/ Head(rest) = END
    <3>1. rest[1] = disk[from + m + 1]
      BY <1>1, <2>3
    <3>2. CASE m = n
      BY <2>1, <2>3, <3>1, <3>2
    <3>3. CASE m # n
      <4>1. m + 1 \in 1..n /\ from + m + 1 = from + (m + 1)
        BY <1>2, <3>3
      <4>2. QED
        BY <1>3, <2>3, <3>1, <4>1
    <3>4. QED
      BY <3>2, <3>3
  <2>5. ASSUME NEW i \in 1..Len(rest), IsRun(i)
        PROVE  WithinCap(Inflate(SubSeq(rest, 1, i)))
    <3> DEFINE cells == SubSeq(rest, 1, i)
    <3>1. m + i <= n
      BY <2>1, <2>5, RowInRun DEF Run
    <3>2. i \in Nat /\ 1 <= i /\ i <= Len(rest) /\ 1 \in Nat \ {0} /\ i - 1 + 1 = i
      BY <2>2
    <3>3. cells \in Seq(Cells) /\ Len(cells) = i
          /\ \A j \in 1..Len(cells) : cells[j] = rest[1 - 1 + j]
      BY <1>1, <3>2, Slice
    <3>4. \A j \in 1..Len(cells) : cells[j] = disk[from + m + j]
      <4>1. \A j \in 1..i : j \in 1..Len(rest) /\ 1 - 1 + j = j
        BY <3>2
      <4> HIDE DEF cells
      <4>2. QED
        BY <1>1, <3>3, <4>1
    <3>5. Len(out) = 2 * (before + m) /\ Packs(archive, from, n, before)
      BY DEF Run, Decoding
    <3> HIDE DEF cells
    <3>6. NextOfRun(cells, from, n, before, m)
      BY <3>1, <3>3, <3>4, <3>5 DEF NextOfRun
    <3>7. WithinCap(Inflate(cells))
      BY <3>3, <3>6, DecodedRun
    <3>8. QED
      BY <3>7 DEF cells
  <2>6. QED
    BY <2>3, <2>4, <2>5 DEF StreamFails
<1>6. QED
  BY <1>4, <1>5

-----------------------------------------------------------------------------
\* Nothing is refused and nothing breaks off while an archive is sound.
LEMMA NeverRefused ==
    ASSUME Inv, Faithful, NoneLeftUnpacked, sound
    PROVE  /\ ~RejectStart /\ ~RejectClaim /\ ~SpanIsShort
           /\ ~BadBlock /\ ~RawFails /\ ~StreamFails
<1>1. /\ archive \in Archives /\ TypeOK /\ archive.genuine /\ end = Len(disk) /\ Branches
      /\ AsArchived
  BY DEF Inv, Faithful, Whole
<1>2. archive.start \in Nat /\ stored_size \in Nat /\ Len(disk) \in Nat
  BY <1>1, ArchiveFacts
<1>3. reported_end = Len(disk)
  BY <1>1 DEF reported_end
<1>4. /\ archive.start <= Len(disk)
      /\ compression = "stored" \/ ~FromDisk => archive.start + stored_size <= Len(disk)
  BY <1>1, EntryInArchive
<1>5. ~RejectStart
  BY <1>3, <1>4 DEF RejectStart, InArchive
<1>6. ~RejectClaim
  BY <1>2, <1>3, <1>4 DEF RejectClaim, Claimed
<1>7. ~SpanIsShort
  <2> SUFFICES ASSUME SpanIsShort PROVE FALSE
    OBVIOUS
  <2>1. phase = "span" /\ position + stored_size > end
    BY DEF SpanIsShort
  <2>2. position = archive.start /\ ~FromDisk
    BY <1>1, <2>1 DEF AsArchived, Progress
  <2>3. QED
    BY <1>1, <1>2, <1>4, <2>1, <2>2
<1>8. ~BadBlock
  <2> SUFFICES ASSUME BadBlock PROVE FALSE
    OBVIOUS
  <2>1. phase = "blocks"
    BY DEF BadBlock
  <2>2. Blockwise
    BY <1>1, <2>1 DEF AsArchived, Progress
  <2>3. PICK k \in 1..Len(blocks) : AtHeader(k)
    BY <1>1, <2>1 DEF AsArchived, Progress
  <2>4. Len(blocks) \in Nat \ {0}
    BY <1>1, <2>2, BlocksEntry
  <2>5. CASE k = Len(blocks)
    BY <1>1, <2>2, <2>3, <2>5, LastHeader DEF BadBlock
  <2>6. CASE k # Len(blocks)
    <3>1. k \in 1..(Len(blocks) - 1)
      BY <2>4, <2>6
    <3>2. SizeOf(k) \in 1..Len(input) /\ Header(DATA(SizeOf(k))) /\ Fits(SizeOf(k))
      BY <1>1, <2>2, <2>3, <3>1, NextHeader
    <3>3. QED
      BY <3>2 DEF BadBlock
  <2>7. QED
    BY <2>5, <2>6
<1>9. ~RawFails /\ ~StreamFails
  <2> SUFFICES ASSUME phase = "decode" PROVE ~RawFails /\ ~StreamFails
    BY DEF RawFails, StreamFails
  <2>1. StartsWith(archive.plain, out)
    BY <1>1 DEF AsArchived
  <2>2. CASE Blockwise
    <3>1. PICK k \in 1..(Len(blocks) - 1), m \in Nat : InBlock(k, m)
      BY <1>1, <2>2 DEF AsArchived, Progress
    <3>2. /\ blocks[k].at + 1 \in Nat /\ CellsOf(k) \in Nat /\ blocks[k].before \in Nat
          /\ Run(blocks[k].at + 1, CellsOf(k), blocks[k].before, m)
      BY <1>1, <2>2, <3>1, RunOfBlock
    <3>3. QED
      BY <1>1, <2>1, <3>2, RunIsSound
  <2>3. CASE ~Blockwise
    <3>1. PICK n, m \in Nat : InStream(n, m)
      BY <1>1, <2>3 DEF AsArchived, Progress
    <3>2. compression = "stream"
      BY <1>1, <2>3, Framings DEF Branches
    <3>3. archive.start \in Nat /\ Run(archive.start, n, 0, m)
      BY <1>1, <3>1, <3>2, RunOfStream
    <3>4. 0 \in Nat
      OBVIOUS
    <3>5. QED
      BY <1>1, <2>1, <3>3, <3>4, RunIsSound
  <2>4. QED
    BY <2>2, <2>3
<1>10. QED
  BY <1>5, <1>6, <1>7, <1>8, <1>9

\* Steps of a call that neither begin nor end it keep the invariant, if what
\* they put out is what was archived.
LEMMA GoesOn ==
    ASSUME Faithful, medium' = medium, answer' = answer, phase # "idle",
           archive.genuine => StartsWith(archive.plain, out') /\ Progress',
           sound /\ phase' = "compare" => Len(out') = archive.size
    PROVE  Faithful'
<1>1. archive' = archive /\ end' = end /\ sound' = sound /\ verifying' = verifying
  BY DEF medium
<1>2. (archive.genuine => AsArchived)'
  BY <1>1 DEF Faithful, AsArchived, StartsWith
<1>3. (sound => Whole)'
  BY <1>1 DEF Faithful, Whole, disk
<1>4. (phase # "idle" /\ verifying => archive.crc # << >>)'
  BY <1>1 DEF Faithful
<1>5. QED
  BY <1>2, <1>3, <1>4 DEF Faithful

\* Also a call that ends: with the whole entry, or not while the archive is sound.
LEMMA Ends ==
    ASSUME Faithful, NEW status \in {"ok", "Match", "Mismatch", "failed"}, Return(status),
           sound => status \in {"ok", "Match"} /\ out = archive.plain
    PROVE  Faithful'
<1>1. /\ archive' = archive /\ end' = end /\ sound' = sound /\ verifying' = verifying
      /\ out' = out /\ phase' = "idle"
  BY DEF Return, medium
<1>2. answer'.status = status /\ answer'.bytes = out
  BY DEF Return, Answer
<1>3. (archive.genuine => AsArchived)'
  <2>1. Progress'
    BY <1>1 DEF Progress
  <2>2. QED
    BY <1>1, <1>2, <2>1 DEF Faithful, AsArchived, StartsWith
<1>4. (sound => Whole)'
  BY <1>1, <1>2 DEF Faithful, Whole, disk
<1>5. (phase # "idle" /\ verifying => archive.crc # << >>)'
  BY <1>1
<1>6. QED
  BY <1>3, <1>4, <1>5 DEF Faithful

LEMMA EndsInFailure ==
    ASSUME Inv, Faithful, NoneLeftUnpacked,
           RejectStart \/ RejectClaim \/ SpanIsShort \/ BadBlock \/ RawFails \/ StreamFails
    PROVE  Faithful'
<1>1. ~sound
  BY NeverRefused
<1>2. Return("failed")
  BY DEF RejectStart, RejectClaim, SpanIsShort, BadBlock, RawFails, StreamFails, Fail
<1>3. QED
  BY <1>1, <1>2, Ends

LEMMA EndsWhole ==
    ASSUME Inv, Faithful, NoneLeftUnpacked, phase # "idle", Succeed,
           sound => Len(out) >= archive.size
    PROVE  Faithful'
<1>1. ASSUME sound
      PROVE  out = archive.plain
  <2>1. archive.genuine /\ archive \in Archives /\ out \in Seq(Cells)
        /\ StartsWith(archive.plain, out)
    BY <1>1 DEF Faithful, Whole, AsArchived, Inv, TypeOK
  <2>2. archive.size = Len(archive.plain) /\ archive.plain \in Seq(Cells)
    BY <2>1, SameFraming, ArchiveFacts
  <2>3. QED
    BY <1>1, <2>1, <2>2, WholePrefix
<1>2. ASSUME sound, verifying
      PROVE  dar_crc(out, Len(archive.crc)) = archive.crc
  <2>1. archive.genuine /\ archive \in Archives /\ archive.crc # << >>
    BY <1>2 DEF Faithful, Whole, Inv
  <2>2. QED
    BY <1>1, <1>2, <2>1, SameFraming DEF AsWritten
<1>3. \E status \in {"ok", "Match", "Mismatch"} :
          Return(status) /\ (sound => status \in {"ok", "Match"})
  BY <1>2 DEF Succeed
<1>4. QED
  BY <1>1, <1>3, Ends

-----------------------------------------------------------------------------
LEMMA LocateKeeps ==
    ASSUME Inv, Faithful, NoneLeftUnpacked, Locate
    PROVE  Faithful'
<1>1. /\ medium' = medium /\ answer' = answer /\ out' = out /\ position' = archive.start
      /\ input' = input /\ block' = block /\ phase = "locate"
      /\ \/ compression = "stored" /\ phase' = "copy"
         \/ compression # "stored" /\ ~FromDisk /\ phase' = "span"
         \/ compression # "stored" /\ FromDisk /\ phase' = "decode"
  BY DEF Locate, SeekTo
<1>2. archive' = archive
  BY <1>1 DEF medium
<1>3. ASSUME archive.genuine
      PROVE  StartsWith(archive.plain, out') /\ Progress'
  <2>1. archive \in Archives /\ StartsWith(archive.plain, out) /\ out = << >>
    BY <1>1, <1>3 DEF Inv, Faithful, AsArchived, Progress
  <2>2. Len(out') = 0 /\ out' = << >>
    BY <1>1, <2>1
  <2>3. CASE compression = "stored"
    <3>1. position' = archive'.start + Len(out') /\ phase' = "copy"
      BY <1>1, <1>2, <2>1, <2>2, <2>3, ArchiveFacts
    <3>2. QED
      BY <1>1, <2>1, <3>1 DEF Progress
  <2>4. CASE compression # "stored" /\ ~FromDisk
    BY <1>1, <1>2, <2>1, <2>2, <2>4 DEF Progress, FromDisk
  <2>5. CASE compression # "stored" /\ FromDisk
    <3>1. ~Blockwise /\ compression = "stream"
      BY <1>3, <2>1, <2>5, BlocksEntry, Framings
    <3>2. PICK n \in Nat : 2 * n = archive.size
      BY <1>3, <2>1, <3>1, StreamEntry
    <3>3. 0 \in Nat /\ 0 <= n /\ Len(out') = 2 * (0 + 0) /\ position' = archive.start + 0
      BY <1>1, <2>1, <2>2, <3>2, ArchiveFacts
    <3>4. InStream(n, 0)'
      BY <1>2, <2>5, <3>1, <3>2, <3>3 DEF InStream, Decoding, FromDisk, compression
    <3>5. ~Blockwise' /\ phase' = "decode"
      BY <1>1, <1>2, <2>5, <3>1 DEF Blockwise, compression
    <3>6. QED
      BY <1>1, <2>1, <3>2, <3>3, <3>4, <3>5 DEF Progress
  <2>6. QED
    BY <2>3, <2>4, <2>5
<1>4. phase # "idle" /\ phase' # "compare"
  BY <1>1
<1>5. QED
  BY <1>1, <1>3, <1>4, GoesOn

LEMMA CopyKeeps ==
    ASSUME Inv, Faithful, NoneLeftUnpacked, Copy
    PROVE  Faithful'
<1>1. PICK n \in 1..Lesser(stored_size - Len(out), end - position) :
          /\ out' = out \o SubSeq(disk, position + 1, position + n)
          /\ position' = position + n
  BY DEF Copy
<1>2. medium' = medium /\ answer' = answer /\ phase = "copy" /\ phase' = "copy"
      /\ archive' = archive
  BY DEF Copy, medium
<1>3. /\ archive \in Archives /\ compression = "stored" /\ out \in Seq(Cells)
      /\ end \in 0..Len(disk) /\ position \in 0..Len(disk)
  BY <1>2 DEF Inv, TypeOK, Branches
<1>4. /\ disk \in Seq(Cells) /\ Len(disk) \in Nat /\ stored_size \in Nat /\ archive.start \in Nat
      /\ Len(out) \in Nat /\ archive.plain \in Seq(Cells)
  BY <1>3, ArchiveFacts, LenProperties
<1>5. n \in Nat \ {0} /\ n <= stored_size - Len(out) /\ n <= end - position
  BY <1>3, <1>4 DEF Lesser
<1> DEFINE piece == SubSeq(disk, position + 1, position + n)
<1>6. /\ piece \in Seq(Cells) /\ Len(piece) = n
      /\ \A i \in 1..Len(piece) : piece[i] = disk[(position + 1) - 1 + i]
  <2>1. position + 1 \in Nat \ {0} /\ position + n \in Nat /\ position + n <= Len(disk)
        /\ position + 1 <= position + n /\ (position + n) - (position + 1) + 1 = n
    BY <1>3, <1>4, <1>5
  <2>2. QED
    BY <1>4, <2>1, Slice
<1>7. ASSUME archive.genuine
      PROVE  StartsWith(archive.plain, out') /\ Progress'
  <2>1. /\ StartsWith(archive.plain, out) /\ position = archive.start + Len(out)
        /\ stored_size = Len(archive.plain)
        /\ \A i \in 1..stored_size : disk[archive.start + i] = archive.plain[i]
    BY <1>2, <1>3, <1>7, StoredEntry DEF Faithful, AsArchived, Progress
  <2>2. ASSUME NEW i \in 1..Len(piece)
        PROVE  piece[i] = archive.plain[Len(out) + i]
    <3>1. i \in 1..n
      BY <1>6
    <3>2. Len(out) + i \in 1..stored_size
      <4>1. Len(out) \in Nat /\ stored_size \in Nat
        BY <1>4
      <4>2. QED
        BY <1>5, <3>1, <4>1
    <3>3. (position + 1) - 1 + i = archive.start + (Len(out) + i)
      <4>1. position = archive.start + Len(out)
        BY <2>1
      <4>2. archive.start \in Nat /\ Len(out) \in Nat
        BY <1>4
      <4>3. QED
        BY <3>1, <1>5, <4>1, <4>2
    <3> HIDE DEF piece
    <3>4. QED
      BY <1>6, <2>1, <3>2, <3>3
  <2>3. Len(out) + Len(piece) <= Len(archive.plain)
    BY <1>4, <1>5, <1>6, <2>1
  <2> HIDE DEF piece
  <2>4. StartsWith(archive.plain, out \o piece)
    BY <1>3, <1>4, <1>6, <2>1, <2>2, <2>3, StartsWithMore
  <2>5. Len(out \o piece) = Len(out) + n
    BY <1>3, <1>6, ConcatProperties
  <2>6. out' = out \o piece
    BY <1>1 DEF piece
  <2>7. position' = archive'.start + Len(out')
    <3>1. position' = position + n /\ position = archive.start + Len(out)
          /\ archive' = archive /\ Len(out') = Len(out) + n
      BY <1>1, <1>2, <2>1, <2>5, <2>6
    <3>2. archive.start \in Nat /\ Len(out) \in Nat /\ n \in Nat
      BY <1>4, <1>5
    <3>3. QED
      BY <3>1, <3>2
  <2>8. QED
    BY <1>2, <2>4, <2>6, <2>7 DEF Progress
<1>8. QED
  BY <1>2, <1>7, GoesOn

LEMMA ReadSpanKeeps ==
    ASSUME Inv, Faithful, NoneLeftUnpacked, ReadSpan
    PROVE  Faithful'
<1> DEFINE data == SubSeq(disk, position + 1, position + stored_size)
<1>1. /\ medium' = medium /\ answer' = answer /\ out' = out /\ phase = "span"
      /\ position' = position + stored_size /\ position + stored_size <= end
      /\ Blockwise => phase' = "blocks" /\ input' = data
      /\ ~Blockwise => phase' = "decode" /\ block' = data
  BY DEF ReadSpan
<1>2. archive' = archive
  BY <1>1 DEF medium
<1>3. phase' # "compare" /\ phase # "idle"
  BY <1>1
<1>4. ASSUME archive.genuine
      PROVE  StartsWith(archive.plain, out') /\ Progress'
  <2>1. /\ archive \in Archives /\ compression # "stored" /\ end \in 0..Len(disk)
        /\ StartsWith(archive.plain, out) /\ out = << >>
        /\ position = archive.start /\ ~FromDisk
    BY <1>1, <1>4 DEF Inv, TypeOK, Branches, Faithful, AsArchived, Progress
  <2>2. disk \in Seq(Cells) /\ Len(disk) \in Nat /\ stored_size \in Nat /\ archive.start \in Nat
    BY <2>1, ArchiveFacts
  <2>3. /\ Len(data) = stored_size
        /\ \A i \in 1..Len(data) : data[i] = disk[archive.start + i]
    <3>1. position + 1 \in Nat \ {0} /\ position + stored_size \in Nat
          /\ position + stored_size <= Len(disk) /\ (position + 1) - 1 = archive.start
          /\ stored_size = IF position + 1 <= position + stored_size
                           THEN (position + stored_size) - (position + 1) + 1 ELSE 0
      BY <1>1, <2>1, <2>2
    <3>2. QED
      BY <2>2, <3>1, Slice
  <2> HIDE DEF data
  <2>4. Len(out') = 0
    BY <1>1, <2>1
  <2>5. CASE Blockwise
    <3>1. /\ Len(blocks) \in Nat \ {0} /\ blocks[1].at = archive.start /\ blocks[1].before = 0
          /\ stored_size = blocks[Len(blocks)].at + 1 - archive.start
      BY <1>4, <2>1, <2>5, BlocksEntry DEF AsBlocks, blocks
    <3>2. AtHeader(1)'
      BY <1>1, <1>2, <2>3, <2>5, <3>1 DEF AtHeader, blocks, disk
    <3>3. 1 \in 1..Len(blocks) /\ Len(out') = 2 * blocks[1].before
      BY <2>4, <3>1
    <3>4. Blockwise' /\ phase' = "blocks" /\ blocks' = blocks
      BY <1>1, <1>2, <2>5 DEF Blockwise, compression, blocks
    <3>5. Progress'
      BY <3>2, <3>3, <3>4 DEF Progress
    <3>6. QED
      BY <1>1, <2>1, <3>5
  <2>6. CASE ~Blockwise
    <3>1. compression = "stream"
      BY <2>1, <2>6, Framings
    <3>2. PICK n \in Nat : 2 * n = archive.size /\ stored_size = n + 1
      BY <1>4, <2>1, <3>1, StreamEntry
    <3>3. 0 \in Nat /\ 0 <= n /\ Len(out') = 2 * (0 + 0) /\ Len(data) = (n + 1) - 0
          /\ archive.start + 0 = archive.start
      BY <2>2, <2>3, <2>4, <3>2
    <3>4. block' = data /\ phase' = "decode"
      BY <1>1, <2>6
    <3>5. InStream(n, 0)'
      <4>1. 2 * n = archive'.size /\ compression' = "stream" /\ ~FromDisk' /\ disk' = disk
        BY <1>2, <2>1, <3>1, <3>2 DEF FromDisk, compression, disk
      <4>2. \A i \in 1..Len(block') : block'[i] = disk'[archive'.start + 0 + i]
        BY <1>2, <2>3, <3>3, <3>4, <4>1
      <4>3. QED
        BY <1>2, <3>3, <3>4, <4>1, <4>2 DEF InStream, Decoding
    <3>6. ~Blockwise'
      BY <1>2, <2>6 DEF Blockwise, compression
    <3>7. Progress'
      BY <3>2, <3>3, <3>4, <3>5, <3>6 DEF Progress
    <3>8. QED
      BY <1>1, <2>1, <3>7
  <2>7. QED
    BY <2>5, <2>6
<1>5. QED
  BY <1>1, <1>3, <1>4, GoesOn

LEMMA OpenBlockKeeps ==
    ASSUME Inv, Faithful, NoneLeftUnpacked, OpenBlock
    PROVE  Faithful'
<1>1. PICK size \in 1..Len(input) :
          /\ Header(DATA(size))
          /\ block' = SubSeq(input, 2, size + 1)
          /\ input' = SubSeq(input, size + 2, Len(input))
  BY DEF OpenBlock
<1>2. /\ medium' = medium /\ answer' = answer /\ out' = out
      /\ phase = "blocks" /\ phase' = "decode" /\ phase # "idle"
  BY DEF OpenBlock
<1>3. archive' = archive
  BY <1>2 DEF medium
<1>4. ASSUME archive.genuine
      PROVE  StartsWith(archive.plain, out') /\ Progress'
  <2>1. /\ archive \in Archives /\ TypeOK /\ Blockwise /\ StartsWith(archive.plain, out)
    BY <1>2, <1>4 DEF Inv, Faithful, AsArchived, Progress
  <2>2. PICK k \in 1..Len(blocks) : AtHeader(k) /\ Len(out) = 2 * blocks[k].before
    BY <1>2, <1>4 DEF Faithful, AsArchived, Progress
  <2>3. /\ Len(blocks) \in Nat \ {0} /\ ~FromDisk
        /\ \A j \in 1..Len(blocks) : blocks[j].at \in Nat /\ blocks[j].before \in Nat
    BY <1>4, <2>1, BlocksEntry
  <2>4. k # Len(blocks)
    <3>1. SUFFICES ASSUME k = Len(blocks) PROVE FALSE
      OBVIOUS
    <3>2. Header(EOF(0))
      BY <1>4, <2>1, <2>2, <3>1, LastHeader
    <3>3. DATA(size) # EOF(0)
      BY Headers
    <3>4. QED
      BY <1>1, <3>2, <3>3 DEF Header
  <2>5. k \in 1..(Len(blocks) - 1) /\ k + 1 \in 1..Len(blocks)
    BY <2>3, <2>4
  <2>6. size = SizeOf(k) /\ size + 1 <= Len(input)
    <3>1. Fits(SizeOf(k)) /\ size = SizeOf(k)
      BY <1>1, <1>4, <2>1, <2>2, <2>5, NextHeader
    <3>2. Len(Tail(input)) = Len(input) - 1 /\ Len(input) \in Nat
      BY <1>4, <2>1, <2>2, HeaderIs
    <3>3. QED
      BY <3>1, <3>2 DEF Fits
  <2>7. /\ CellsOf(k) \in Nat \ {0}
        /\ size = IF compression = "raw" THEN CellsOf(k) ELSE CellsOf(k) + 1
        /\ blocks[k + 1].at = (blocks[k].at + 1) + size
    BY <1>4, <2>1, <2>5, <2>6, BlockFacts
  <2>8. input \in Seq(Cells) /\ Len(input) \in Nat /\ size \in Nat \ {0}
    BY <2>1, LenProperties DEF TypeOK
  <2>9. /\ Len(block') = size
        /\ \A i \in 1..Len(block') : block'[i] = disk[(blocks[k].at + 1) + 0 + i]
    <3>1. 2 \in Nat \ {0} /\ size + 1 \in Nat /\ 2 <= size + 1 /\ (size + 1) - 2 + 1 = size
          /\ 2 - 1 = 1
      BY <2>8
    <3>2. Len(block') = size /\ \A i \in 1..Len(block') : block'[i] = input[1 + i]
      BY <1>1, <2>6, <2>8, <3>1, Slice
    <3>3. ASSUME NEW i \in 1..Len(block')
          PROVE  block'[i] = disk[(blocks[k].at + 1) + 0 + i]
      <4>1. 1 + i \in 1..Len(input)
        BY <2>6, <2>8, <3>2
      <4>2. input[1 + i] = disk[blocks[k].at + (1 + i)]
        BY <2>2, <4>1 DEF AtHeader
      <4>3. blocks[k].at \in Nat /\ i \in Nat
        BY <2>3, <3>2, <2>8
      <4>4. blocks[k].at + (1 + i) = (blocks[k].at + 1) + 0 + i
        BY <4>3
      <4>5. QED
        BY <3>2, <4>2, <4>4
    <3>4. QED
      BY <3>2, <3>3
  <2>10. /\ Len(input') = blocks[Len(blocks)].at + 1 - blocks[k + 1].at
         /\ \A i \in 1..Len(input') : input'[i] = disk[blocks[k + 1].at + i]
    <3>1. size + 2 \in Nat \ {0} /\ (size + 2) - 1 = size + 1
      BY <2>8
    <3>2. /\ Len(input') = IF size + 2 <= Len(input) THEN Len(input) - (size + 2) + 1 ELSE 0
          /\ \A i \in 1..Len(input') : input'[i] = input[size + 1 + i]
      BY <1>1, <2>8, <3>1, Slice
    <3>3. Len(input') = Len(input) - size - 1
      BY <2>6, <2>8, <3>2
    <3>4. Len(input') = blocks[Len(blocks)].at + 1 - blocks[k + 1].at
      <4> DEFINE final == blocks[Len(blocks)].at
                 here == blocks[k].at
                 next == blocks[k + 1].at
      <4>1. Len(input) = final + 1 - here
        BY <2>2 DEF AtHeader
      <4>2. final \in Nat /\ here \in Nat
        BY <2>3
      <4>3. next = (here + 1) + size
        BY <2>7
      <4> HIDE DEF final, here, next
      <4>4. Len(input') = final + 1 - next
        BY <2>8, <3>3, <4>1, <4>2, <4>3
      <4>5. QED
        BY <4>4 DEF final, next
    <3>5. ASSUME NEW i \in 1..Len(input')
          PROVE  input'[i] = disk[blocks[k + 1].at + i]
      <4>1. size + 1 + i \in 1..Len(input) /\ i \in Nat
        BY <2>6, <2>8, <3>3
      <4>2. input[size + 1 + i] = disk[blocks[k].at + (size + 1 + i)]
        BY <2>2, <4>1 DEF AtHeader
      <4>3. blocks[k].at \in Nat
        BY <2>3
      <4>4. blocks[k].at + (size + 1 + i) = blocks[k + 1].at + i
        <5>1. \A here, n, j \in Nat : here + (n + 1 + j) = ((here + 1) + n) + j
          OBVIOUS
        <5>2. blocks[k].at + (size + 1 + i) = ((blocks[k].at + 1) + size) + i
          BY <2>8, <4>1, <4>3, <5>1
        <5>3. QED
          BY <2>7, <5>2, Zenon
      <4>5. QED
        BY <3>2, <4>2, <4>4
    <3>6. QED
      BY <3>4, <3>5
  <2>11. Len(out') = 2 * (blocks[k].before + 0)
    BY <1>2, <2>2, <2>3
  <2>12. InBlock(k, 0)'
    <3>1. blocks' = blocks /\ disk' = disk /\ compression' = compression /\ ~FromDisk'
      BY <1>3, <2>3 DEF blocks, disk, compression, FromDisk
    <3>2. AtHeader(k + 1)'
      BY <2>10, <3>1 DEF AtHeader
    <3>3. Decoding(blocks[k].at + 1, CellsOf(k), blocks[k].before, 0)'
      <4>1. 0 <= CellsOf(k) /\ size = (IF compression = "raw" THEN CellsOf(k) ELSE CellsOf(k) + 1) - 0
        BY <2>7
      <4>2. CellsOf(k)' = CellsOf(k)
        BY <3>1 DEF CellsOf
      <4>3. QED
        BY <2>9, <2>11, <3>1, <4>1, <4>2 DEF Decoding
    <3>4. QED
      BY <3>2, <3>3 DEF InBlock, CellsOf
  <2>13. Blockwise' /\ blocks' = blocks
    BY <1>3, <2>1 DEF Blockwise, compression, blocks
  <2>14. Progress'
    <3>1. 0 \in Nat
      OBVIOUS
    <3>2. QED
      BY <1>2, <2>5, <2>12, <2>13, <3>1 DEF Progress
  <2>15. QED
    BY <1>2, <2>1, <2>14
<1>5. QED
  BY <1>2, <1>4, GoesOn

LEMMA EndOfBlocksKeeps ==
    ASSUME Inv, Faithful, NoneLeftUnpacked, EndOfBlocks
    PROVE  Faithful'
<1>1. /\ medium' = medium /\ answer' = answer /\ out' = out /\ Header(EOF(0))
      /\ phase = "blocks" /\ phase' = "compare" /\ phase # "idle"
  BY DEF EndOfBlocks
<1>2. archive.genuine => StartsWith(archive.plain, out')
  BY <1>1 DEF Faithful, AsArchived
<1>3. Progress'
  BY <1>1 DEF Progress
<1>4. ASSUME archive.genuine
      PROVE  Len(out') = archive.size
  <2>1. archive \in Archives /\ TypeOK /\ Blockwise
    BY <1>1, <1>4 DEF Inv, Faithful, AsArchived, Progress
  <2>2. PICK k \in 1..Len(blocks) : AtHeader(k) /\ Len(out) = 2 * blocks[k].before
    BY <1>1, <1>4 DEF Faithful, AsArchived, Progress
  <2>3. k = Len(blocks)
    <3>1. SUFFICES ASSUME k # Len(blocks) PROVE FALSE
      OBVIOUS
    <3>2. k \in 1..(Len(blocks) - 1)
      BY <1>4, <2>1, <3>1, BlocksEntry
    <3>3. QED
      BY <1>1, <1>4, <2>1, <2>2, <3>2, NextHeader
  <2>4. 2 * blocks[Len(blocks)].before = archive.size
    BY <1>4, <2>1, BlocksEntry DEF AsBlocks, blocks
  <2>5. QED
    BY <1>1, <2>2, <2>3, <2>4
<1>5. sound => archive.genuine
  BY DEF Faithful, Whole
<1>6. QED
  BY <1>1, <1>2, <1>3, <1>4, <1>5, GoesOn

LEMMA DecodeRawKeeps ==
    ASSUME Inv, Faithful, NoneLeftUnpacked, DecodeRaw
    PROVE  Faithful'
<1>1. /\ medium' = medium /\ answer' = answer /\ input' = input
      /\ out' = out \o Inflate(block) /\ compression = "raw"
      /\ phase = "decode" /\ phase' = "blocks" /\ phase # "idle" /\ phase' # "compare"
  BY DEF DecodeRaw
<1>2. archive' = archive /\ Blockwise
  BY <1>1 DEF medium, Blockwise
<1>3. ASSUME archive.genuine
      PROVE  StartsWith(archive.plain, out') /\ Progress'
  <2>1. archive \in Archives /\ TypeOK /\ StartsWith(archive.plain, out)
        /\ block \in Seq(Cells)
    BY <1>3 DEF Inv, TypeOK, Faithful, AsArchived
  <2>2. PICK k \in 1..(Len(blocks) - 1), m \in Nat : InBlock(k, m)
    BY <1>1, <1>2, <1>3 DEF Faithful, AsArchived, Progress
  <2> DEFINE from == blocks[k].at + 1
             before == blocks[k].before
             n == CellsOf(k)
  <2>3. from \in Nat /\ n \in Nat /\ before \in Nat /\ Run(from, n, before, m)
    BY <1>2, <1>3, <2>1, <2>2, RunOfBlock
  <2>4. ~FromDisk /\ Len(blocks) \in Nat \ {0}
        /\ \A j \in 1..Len(blocks) : blocks[j].before \in Nat
    BY <1>2, <1>3, <2>1, BlocksEntry
  <2>5. k + 1 \in 1..Len(blocks)
    BY <2>4
  <2>6. before + n = blocks[k + 1].before
    <3>1. blocks[k + 1].before \in Nat
      BY <2>4, <2>5
    <3>2. QED
      BY <2>3, <3>1 DEF CellsOf
  <2> HIDE DEF from, before, n
  <2>7. /\ Packs(archive, from, n, before) /\ Len(out) = 2 * (before + m) /\ m = 0
        /\ Len(block) = n - m
        /\ \A i \in 1..Len(block) : block[i] = disk[from + m + i]
    BY <1>1, <2>3, <2>4 DEF Run, Decoding
  <2>8. m + Len(block) <= n /\ m + Len(block) = n
    BY <2>3, <2>7
  <2>9. StartsWith(archive.plain, out') /\ Len(out') = 2 * (before + n)
    <3>1. /\ StartsWith(archive.plain, out \o Inflate(block))
          /\ Len(out \o Inflate(block)) = 2 * (before + (m + Len(block)))
      <4>1. m + Len(block) <= n
        BY <2>8
      <4>2. Packs(archive, from, n, before) /\ Len(out) = 2 * (before + m)
            /\ \A i \in 1..Len(block) : block[i] = disk[from + m + i]
        BY <2>7
      <4>3. NextOfRun(block, from, n, before, m)
        BY <4>1, <4>2 DEF NextOfRun
      <4>4. QED
        BY <1>3, <2>1, <2>3, <4>3, DecodedRun
    <3>2. QED
      BY <1>1, <2>8, <3>1
  <2>10. AtHeader(k + 1)
    BY <2>2 DEF InBlock
  <2>11. Progress'
    <3>1. blocks' = blocks /\ Blockwise' /\ AtHeader(k + 1)'
      BY <1>1, <1>2, <2>10 DEF blocks, Blockwise, compression, AtHeader, disk
    <3>2. Len(out') = 2 * blocks[k + 1].before
      BY <2>6, <2>9
    <3>3. QED
      BY <1>1, <2>5, <3>1, <3>2 DEF Progress
  <2>12. QED
    BY <2>9, <2>11
<1>4. QED
  BY <1>1, <1>3, GoesOn

\* A piece of a codec stream, decoded.
LEMMA DecodedPiece ==
    ASSUME archive \in Archives, archive.genuine, NoneLeftUnpacked, TypeOK,
           StartsWith(archive.plain, out), compression # "raw",
           NEW from \in Nat, NEW n \in Nat, NEW before \in Nat, NEW m \in Nat,
           Run(from, n, before, m),
           NEW c \in 1..Len(rest), IsRun(c), Advance(c), archive' = archive,
           out' = out \o Inflate(SubSeq(rest, 1, c))
    PROVE  /\ StartsWith(archive.plain, out')
           /\ m + c \in Nat
           /\ Decoding(from, n, before, m + c)'
<1>1. /\ rest \in Seq(Cells)
      /\ \A i \in 1..Len(rest) : rest[i] = disk[from + m + i]
  BY RestOfRun DEF Run
<1>2. c \in Nat \ {0} /\ c <= Len(rest) /\ Len(rest) \in Nat
  BY <1>1, LenProperties
<1>3. m + c <= n
  BY RowInRun DEF Run
<1> DEFINE cells == SubSeq(rest, 1, c)
<1>4. /\ cells \in Seq(Cells) /\ Len(cells) = c
      /\ \A i \in 1..Len(cells) : cells[i] = disk[from + m + i]
  <2>1. 1 \in Nat \ {0} /\ c \in Nat /\ 1 <= c /\ c - 1 + 1 = c
        /\ \A i \in 1..c : 1 - 1 + i = i /\ i \in 1..Len(rest)
    BY <1>2
  <2>2. cells \in Seq(Cells) /\ Len(cells) = c
        /\ \A i \in 1..Len(cells) : cells[i] = rest[1 - 1 + i]
    BY <1>1, <1>2, <2>1, Slice
  <2> HIDE DEF cells
  <2>3. QED
    BY <1>1, <2>1, <2>2
<1> HIDE DEF cells
<1>5. Len(out) = 2 * (before + m) /\ Packs(archive, from, n, before)
  BY DEF Run, Decoding
<1>6. m + Len(cells) <= n
  BY <1>3, <1>4
<1>7. /\ StartsWith(archive.plain, out \o Inflate(cells))
      /\ Len(out \o Inflate(cells)) = 2 * (before + (m + Len(cells)))
  <2>1. NextOfRun(cells, from, n, before, m)
    BY <1>4, <1>5, <1>6 DEF NextOfRun
  <2>2. cells \in Seq(Cells)
    BY <1>4
  <2>3. QED
    BY <2>1, <2>2, DecodedRun
<1>8. out' = out \o Inflate(cells)
  BY DEF cells
<1>9. disk' = disk /\ compression' = compression /\ (FromDisk' <=> FromDisk)
  BY DEF disk, compression, FromDisk
<1>10. FromDisk => position' = from + (m + c)
  BY <1>2 DEF Advance, Run, Decoding
<1>11. ASSUME ~FromDisk
       PROVE  /\ Len(block') = (n + 1) - (m + c)
              /\ \A i \in 1..Len(block') : block'[i] = disk[from + (m + c) + i]
  <2>1. block' = SubSeq(rest, c + 1, Len(rest)) /\ rest = block
    BY <1>11 DEF Advance, rest
  <2>2. Len(rest) = (n + 1) - m
    BY <1>11, <2>1 DEF Run, Decoding
  <2>3. /\ Len(block') = IF c + 1 <= Len(rest) THEN Len(rest) - (c + 1) + 1 ELSE 0
        /\ \A i \in 1..Len(block') : block'[i] = rest[(c + 1) - 1 + i]
    <3>1. c + 1 \in Nat \ {0}
      BY <1>2
    <3>2. QED
      BY <1>1, <1>2, <2>1, <3>1, Slice
  <2>4. Len(block') = Len(rest) - c
    BY <1>2, <2>3
  <2>5. ASSUME NEW i \in 1..Len(block')
        PROVE  block'[i] = disk[from + (m + c) + i]
    <3>1. c + i \in 1..Len(rest) /\ (c + 1) - 1 + i = c + i
          /\ from + m + (c + i) = from + (m + c) + i
      BY <1>2, <2>4
    <3>2. rest[c + i] = disk[from + m + (c + i)]
      BY <1>1, <3>1
    <3>3. QED
      BY <2>3, <3>1, <3>2
  <2>6. Len(block') = (n + 1) - (m + c)
    BY <1>2, <2>2, <2>4
  <2>7. QED
    BY <2>5, <2>6
<1>12. Len(out') = 2 * (before + (m + c)) /\ StartsWith(archive.plain, out')
  BY <1>4, <1>7, <1>8
<1>13. Decoding(from, n, before, m + c)'
  BY <1>3, <1>9, <1>10, <1>11, <1>12, Zenon DEF Decoding
<1>14. QED
  BY <1>2, <1>12, <1>13

LEMMA DecodeStreamKeeps ==
    ASSUME Inv, Faithful, NoneLeftUnpacked, DecodeStream
    PROVE  Faithful'
<1>1. PICK c \in 1..Len(rest) :
          /\ IsRun(c)
          /\ out' = out \o Inflate(SubSeq(rest, 1, c))
          /\ Advance(c)
  BY DEF DecodeStream
<1>2. /\ medium' = medium /\ answer' = answer /\ input' = input /\ compression # "raw"
      /\ phase = "decode" /\ phase' = "decode" /\ phase # "idle" /\ phase' # "compare"
  BY DEF DecodeStream
<1>3. archive' = archive
  BY <1>2 DEF medium
<1>4. blocks' = blocks /\ (Blockwise' <=> Blockwise) /\ disk' = disk
  BY <1>3 DEF blocks, Blockwise, compression, disk
<1>5. ASSUME archive.genuine
      PROVE  StartsWith(archive.plain, out') /\ Progress'
  <2>1. archive \in Archives /\ TypeOK /\ StartsWith(archive.plain, out)
        /\ compression # "stored"
    BY <1>2, <1>5 DEF Inv, Branches, Faithful, AsArchived
  <2>2. CASE Blockwise
    <3>1. PICK k \in 1..(Len(blocks) - 1), m \in Nat : InBlock(k, m)
      BY <1>2, <1>5, <2>2 DEF Faithful, AsArchived, Progress
    <3>2. /\ blocks[k].at + 1 \in Nat /\ CellsOf(k) \in Nat /\ blocks[k].before \in Nat
          /\ Run(blocks[k].at + 1, CellsOf(k), blocks[k].before, m)
      BY <1>5, <2>1, <2>2, <3>1, RunOfBlock
    <3> DEFINE from == blocks[k].at + 1
               n == CellsOf(k)
               before == blocks[k].before
    <3>3. from' = from /\ n' = n /\ before' = before
      BY <1>4 DEF CellsOf
    <3>4. from \in Nat /\ n \in Nat /\ before \in Nat /\ Run(from, n, before, m)
      BY <3>2
    <3>5. /\ StartsWith(archive.plain, out') /\ m + c \in Nat
          /\ Decoding(blocks[k].at + 1, CellsOf(k), blocks[k].before, m + c)'
      <4> SUFFICES /\ StartsWith(archive.plain, out') /\ m + c \in Nat
                   /\ Decoding(from, n, before, m + c)'
        OBVIOUS
      <4>1. \E a, b, d \in Nat : a = from /\ b = n /\ d = before
        BY <3>4
      <4>2. PICK a, b, d \in Nat : a = from /\ b = n /\ d = before
        BY <4>1
      <4> HIDE DEF from, n, before
      <4>3. Run(a, b, d, m)
        BY <3>4, <4>2
      <4>4. /\ StartsWith(archive.plain, out') /\ m + c \in Nat
            /\ Decoding(a, b, d, m + c)'
        BY <1>1, <1>2, <1>3, <1>5, <2>1, <4>3, DecodedPiece
      <4>5. from' = a /\ n' = b /\ before' = d
        BY <3>3, <4>2
      <4>6. QED
        BY <4>4, <4>5 DEF Decoding
    <3>6. AtHeader(k + 1)'
      BY <1>2, <1>4, <3>1 DEF InBlock, AtHeader
    <3>7. InBlock(k, m + c)'
      BY <3>5, <3>6 DEF InBlock, CellsOf
    <3>8. Progress'
      BY <1>2, <1>4, <2>2, <3>5, <3>7 DEF Progress
    <3>9. QED
      BY <3>5, <3>8
  <2>3. CASE ~Blockwise
    <3>1. PICK n, m \in Nat : InStream(n, m)
      BY <1>2, <1>5, <2>3 DEF Faithful, AsArchived, Progress
    <3>2. compression = "stream"
      BY <2>1, <2>3, Framings
    <3>3. archive.start \in Nat /\ Run(archive.start, n, 0, m) /\ 0 \in Nat
      BY <1>5, <2>1, <3>1, <3>2, RunOfStream
    <3>4. PICK start \in Nat : start = archive.start
      BY <3>3
    <3>5. /\ StartsWith(archive.plain, out') /\ m + c \in Nat
          /\ Decoding(start, n, 0, m + c)'
      <4>1. Run(start, n, 0, m)
        BY <3>3, <3>4
      <4>2. QED
        BY <1>1, <1>2, <1>3, <1>5, <2>1, <3>3, <4>1, DecodedPiece
    <3>6. InStream(n, m + c)'
      BY <1>3, <3>1, <3>4, <3>5 DEF InStream, Decoding
    <3>7. Progress'
      BY <1>2, <1>4, <2>3, <3>5, <3>6 DEF Progress
    <3>8. QED
      BY <3>5, <3>7
  <2>4. QED
    BY <2>2, <2>3
<1>6. QED
  BY <1>2, <1>5, GoesOn

\* A codec stream ends only behind its run.
LEMMA RunIsOver ==
    ASSUME archive \in Archives, TypeOK, compression # "raw",
           NEW from \in Nat, NEW n \in Nat, NEW before \in Nat, NEW m \in Nat,
           Run(from, n, before, m), rest # << >>, Head(rest) = END
    PROVE  m = n
<1>1. SUFFICES ASSUME m # n PROVE FALSE
  OBVIOUS
<1>2. /\ rest \in Seq(Cells)
      /\ \A i \in 1..Len(rest) : rest[i] = disk[from + m + i]
  BY RestOfRun DEF Run
<1>3. 1 \in 1..Len(rest) /\ Head(rest) = rest[1]
  BY <1>2, EmptySeq, HeadTailProperties
<1>4. m + 1 \in 1..n /\ from + m + 1 = from + (m + 1)
  BY <1>1 DEF Run, Decoding
<1>5. IsData(disk[from + (m + 1)])
  BY <1>4 DEF Run, Packs, disk
<1>6. rest[1] = disk[from + (m + 1)]
  BY <1>2, <1>3, <1>4
<1>7. QED
  BY <1>3, <1>5, <1>6 DEF IsData, END

\* Cells are left as long as the file has not lost its end.
LEMMA RunHasRest ==
    ASSUME archive \in Archives, TypeOK, compression # "raw",
           NEW from \in Nat, NEW n \in Nat, NEW before \in Nat, NEW m \in Nat,
           Run(from, n, before, m), FromDisk => end = Len(disk)
    PROVE  rest # << >>
<1>1. /\ rest \in Seq(Cells)
      /\ ~FromDisk => Len(rest) = n + 1 - m
      /\ FromDisk => Len(rest) = IF position < end THEN end - position ELSE 0
  BY RestOfRun DEF Run
<1>2. m <= n /\ (FromDisk => position = from + m) /\ from + n + 1 <= Len(disk)
  BY DEF Run, Decoding
<1>3. Len(rest) # 0
  <2>1. Len(disk) \in Nat
    BY ArchiveFacts
  <2>2. CASE FromDisk
    BY <1>1, <1>2, <2>1, <2>2
  <2>3. CASE ~FromDisk
    BY <1>1, <1>2, <2>3
  <2>4. QED
    BY <2>2, <2>3
<1>4. QED
  BY <1>3, EmptySeq

LEMMA StreamEndsKeeps ==
    ASSUME Inv, Faithful, NoneLeftUnpacked, StreamEnds
    PROVE  Faithful'
<1>1. /\ medium' = medium /\ answer' = answer /\ out' = out /\ input' = input
      /\ compression # "raw" /\ phase = "decode" /\ phase # "idle"
      /\ rest # << >> => Head(rest) = END
      /\ Blockwise => phase' = "blocks"
      /\ ~Blockwise => phase' = "compare"
  BY DEF StreamEnds
<1>2. archive' = archive
  BY <1>1 DEF medium
<1>3. blocks' = blocks /\ (Blockwise' <=> Blockwise) /\ disk' = disk
  BY <1>2 DEF blocks, Blockwise, compression, disk
<1>4. archive.genuine => StartsWith(archive.plain, out')
  BY <1>1 DEF Faithful, AsArchived
<1>5. ASSUME archive.genuine
      PROVE  Progress'
  <2>1. archive \in Archives /\ TypeOK
    BY DEF Inv
  <2>2. CASE Blockwise
    <3>1. PICK k \in 1..(Len(blocks) - 1), m \in Nat : InBlock(k, m)
      BY <1>1, <1>5, <2>2 DEF Faithful, AsArchived, Progress
    <3>2. /\ blocks[k].at + 1 \in Nat /\ CellsOf(k) \in Nat /\ blocks[k].before \in Nat
          /\ Run(blocks[k].at + 1, CellsOf(k), blocks[k].before, m)
      BY <1>5, <2>1, <2>2, <3>1, RunOfBlock
    <3>3. /\ ~FromDisk /\ Len(blocks) \in Nat \ {0}
          /\ \A j \in 1..Len(blocks) : blocks[j].before \in Nat
      BY <1>5, <2>1, <2>2, BlocksEntry
    <3>4. m = CellsOf(k)
      <4>1. rest # << >>
        BY <1>1, <2>1, <3>2, <3>3, RunHasRest
      <4>2. QED
        BY <1>1, <2>1, <3>2, <4>1, RunIsOver
    <3>5. k + 1 \in 1..Len(blocks)
      BY <3>3
    <3>6. Len(out') = 2 * blocks[k + 1].before
      <4>1. Len(out) = 2 * (blocks[k].before + CellsOf(k))
        BY <3>1, <3>4 DEF InBlock, Decoding
      <4>2. blocks[k].before + CellsOf(k) = blocks[k + 1].before
        BY <3>2, <3>3, <3>5 DEF CellsOf
      <4>3. QED
        BY <1>1, <4>1, <4>2
    <3>7. AtHeader(k + 1)'
      BY <1>1, <1>3, <3>1 DEF InBlock, AtHeader
    <3>8. QED
      BY <1>1, <1>3, <2>2, <3>5, <3>6, <3>7 DEF Progress
  <2>3. CASE ~Blockwise
    BY <1>1, <2>3 DEF Progress
  <2>4. QED
    BY <2>2, <2>3
<1>6. ASSUME sound, phase' = "compare"
      PROVE  Len(out') = archive.size
  <2>1. /\ archive \in Archives /\ TypeOK /\ archive.genuine /\ end = Len(disk)
        /\ ~Blockwise /\ compression # "stored"
    BY <1>1, <1>6 DEF Inv, Branches, Faithful, Whole
  <2>2. PICK n, m \in Nat : InStream(n, m)
    BY <1>1, <2>1 DEF Faithful, AsArchived, Progress
  <2>3. compression = "stream"
    BY <2>1, Framings
  <2>4. archive.start \in Nat /\ Run(archive.start, n, 0, m) /\ 0 \in Nat
    BY <2>1, <2>2, <2>3, RunOfStream
  <2>5. rest # << >>
    BY <1>1, <2>1, <2>4, RunHasRest
  <2>6. m = n
    BY <1>1, <2>1, <2>4, <2>5, RunIsOver
  <2>7. Len(out) = 2 * (0 + n) /\ 2 * n = archive.size
    BY <2>2, <2>6 DEF InStream, Decoding
  <2>8. QED
    BY <1>1, <2>7
<1>7. QED
  BY <1>1, <1>4, <1>5, <1>6, GoesOn

LEMMA CopyEndsKeeps ==
    ASSUME Inv, Faithful, NoneLeftUnpacked, CopyEnds
    PROVE  Faithful'
<1>1. Succeed /\ phase = "copy" /\ (Len(out) = stored_size \/ position >= end)
  BY DEF CopyEnds
<1>2. ASSUME sound
      PROVE  Len(out) >= archive.size
  <2>1. /\ archive \in Archives /\ archive.genuine /\ end = Len(disk)
        /\ compression = "stored" /\ position = archive.start + Len(out)
        /\ out \in Seq(Cells)
    BY <1>1, <1>2 DEF Inv, TypeOK, Branches, Faithful, Whole, AsArchived, Progress
  <2>2. /\ stored_size = archive.size /\ archive.start + stored_size <= Len(disk)
    BY <2>1, StoredEntry, SameFraming
  <2>3. archive.size \in Nat /\ archive.start \in Nat /\ Len(disk) \in Nat /\ Len(out) \in Nat
    BY <2>1, ArchiveFacts, LenProperties
  <2>4. QED
    BY <1>1, <2>1, <2>2, <2>3
<1>3. QED
  BY <1>1, <1>2, EndsWhole

LEMMA CompareKeeps ==
    ASSUME Inv, Faithful, NoneLeftUnpacked, Compare
    PROVE  Faithful'
<1>1. phase = "compare" /\ IF RightSize THEN Succeed ELSE Fail
  BY DEF Compare
<1>2. sound => RightSize
  BY <1>1 DEF Faithful, Whole, RightSize
<1>3. archive.size \in Nat
  BY ArchiveFacts DEF Inv
<1>4. CASE RightSize
  <2>1. Len(out) >= archive.size
    BY <1>3, <1>4 DEF RightSize
  <2>2. QED
    BY <1>1, <1>4, <2>1, EndsWhole
<1>5. CASE ~RightSize
  <2>1. Return("failed") /\ ~sound
    BY <1>1, <1>2, <1>5 DEF Fail
  <2>2. QED
    BY <2>1, Ends
<1>6. QED
  BY <1>4, <1>5

LEMMA CallKeeps ==
    ASSUME Inv, Faithful, NoneLeftUnpacked, CallExtract \/ CallVerify \/ NotStored \/ EntryNotFound
    PROVE  Faithful'
<1>1. /\ archive' = archive /\ end' = end /\ sound' = sound /\ out' = << >>
      /\ phase' \in {"idle", "locate"}
  BY DEF CallExtract, CallVerify, NotStored, EntryNotFound, Call
<1>2. \/ answer' = answer
      \/ /\ answer'.status \in {"NotStored", "EntryNotFound"}
         /\ answer'.bytes = << >>
  <2>1. \/ answer' = answer
        \/ answer' = Answer("NotStored", << >>) \/ answer' = Answer("EntryNotFound", << >>)
    BY DEF CallExtract, CallVerify, NotStored, EntryNotFound
  <2>2. QED
    BY <2>1 DEF Answer
<1>3. phase' = "locate" /\ verifying' => archive.crc # << >>
  BY <1>1 DEF CallExtract, CallVerify, NotStored, EntryNotFound, Call
<1>4. archive.plain \in Seq(Cells)
  BY ArchiveFacts DEF Inv
<1>5. StartsWith(archive.plain, << >>)
  BY <1>4, StartsWithNothing
<1>6. (archive.genuine => AsArchived)'
  <2>1. Progress'
    BY <1>1 DEF Progress
  <2>2. archive.genuine => StartsWith(archive.plain, answer.bytes)
    BY DEF Faithful, AsArchived
  <2>3. archive.genuine => StartsWith(archive.plain, answer'.bytes)
    BY <1>2, <1>5, <2>2
  <2>4. QED
    BY <1>1, <1>5, <2>1, <2>3 DEF AsArchived
<1>7. (sound => Whole)'
  BY <1>1, <1>2 DEF Faithful, Whole, disk
<1>8. (phase # "idle" /\ verifying => archive.crc # << >>)'
  BY <1>1, <1>3
<1>9. QED
  BY <1>6, <1>7, <1>8 DEF Faithful

LEMMA FaultKeeps ==
    ASSUME Inv, Faithful, NoneLeftUnpacked, IoFails \/ Shrink \/ UNCHANGED vars
    PROVE  Faithful'
<1>1. CASE IoFails
  <2>1. /\ archive' = archive /\ out' = out /\ phase' = "idle" /\ ~sound'
        /\ answer'.bytes = out
    BY <1>1 DEF IoFails, Answer
  <2>2. Progress'
    BY <2>1 DEF Progress
  <2>3. QED
    BY <2>1, <2>2 DEF Faithful, AsArchived
<1>2. CASE Shrink \/ UNCHANGED vars
  <2>1. /\ archive' = archive /\ verifying' = verifying /\ phase' = phase
        /\ position' = position /\ input' = input /\ block' = block /\ out' = out
        /\ answer' = answer
        /\ \/ ~sound'
           \/ end' = end /\ sound' = sound
    BY <1>2 DEF Shrink, vars
  <2>2. /\ blocks' = blocks /\ disk' = disk /\ compression' = compression
        /\ (FromDisk' <=> FromDisk) /\ (Blockwise' <=> Blockwise)
    BY <2>1 DEF blocks, disk, compression, FromDisk, Blockwise
  <2>3. \A k : AtHeader(k)' <=> AtHeader(k)
    BY <2>1, <2>2 DEF AtHeader
  <2>4. \A k, m : InBlock(k, m)' <=> InBlock(k, m)
    BY <2>1, <2>2, <2>3 DEF InBlock, Decoding
  <2>5. \A n, m : InStream(n, m)' <=> InStream(n, m)
    BY <2>1, <2>2 DEF InStream, Decoding
  <2>6. Progress => Progress'
    BY <2>1, <2>2, <2>3, <2>4, <2>5 DEF Progress
  <2>7. (archive.genuine => AsArchived)'
    BY <2>1, <2>6 DEF Faithful, AsArchived
  <2>8. (sound => Whole)'
    BY <2>1, <2>2 DEF Faithful, Whole
  <2>9. QED
    BY <2>1, <2>7, <2>8 DEF Faithful
<1>3. QED
  BY <1>1, <1>2

-----------------------------------------------------------------------------
LEMMA FaithfulInit == Init => Faithful
<1> SUFFICES ASSUME Init PROVE Faithful
  OBVIOUS
<1>1. archive \in Archives
  BY DEF Init
<1>2. StartsWith(archive.plain, << >>)
  BY <1>1, ArchiveFacts, StartsWithNothing
<1>3. answer.status = "none" /\ answer.bytes = << >>
  BY DEF Init, Answer
<1>4. Progress
  BY DEF Init, Progress
<1>5. QED
  BY <1>2, <1>3, <1>4 DEF Init, Faithful, AsArchived, Whole

LEMMA FaithfulStep ==
    ASSUME NoneLeftUnpacked
    PROVE  Inv /\ Faithful /\ [Next]_vars => Faithful'
<1> SUFFICES ASSUME Inv, Faithful, [Next]_vars
             PROVE  Faithful'
  OBVIOUS
<1>1. CASE CallExtract \/ CallVerify \/ NotStored \/ EntryNotFound
  BY <1>1, CallKeeps
<1>2. CASE Working
  BY <1>2, LocateKeeps, CopyKeeps, ReadSpanKeeps, OpenBlockKeeps, EndOfBlocksKeeps,
     DecodeRawKeeps, DecodeStreamKeeps, StreamEndsKeeps DEF Working
<1>3. CASE RejectStart \/ RejectClaim \/ SpanIsShort \/ BadBlock \/ RawFails \/ StreamFails
  BY <1>3, EndsInFailure
<1>4. CASE CopyEnds \/ Compare
  BY <1>4, CopyEndsKeeps, CompareKeeps
<1>5. CASE IoFails \/ Shrink \/ UNCHANGED vars
  BY <1>5, FaultKeeps
<1>6. QED
  BY <1>1, <1>2, <1>3, <1>4, <1>5 DEF Next, Step, Working

LEMMA AlwaysFaithful ==
    ASSUME NoneLeftUnpacked
    PROVE  Spec => [](Inv /\ Faithful)
BY InitInv, StepInv, FaithfulInit, FaithfulStep, PTL DEF Spec

(***************************************************************************)
(* From an archive as dar wrote it, of any size and in any framing, each   *)
(* call returns the whole file and verify finds that it matches, as long   *)
(* as every read succeeds: none of extract_to's bounds, caps and size      *)
(* checks turns good data away.                                            *)
(***************************************************************************)
THEOREM GoodDataComesWhole ==
    ASSUME NoneLeftUnpacked
    PROVE  Spec => []SoundIsWhole
<1>1. Inv /\ Faithful => SoundIsWhole
  BY DEF Faithful, Whole, SoundIsWhole
<1>2. QED
  BY <1>1, AlwaysFaithful, PTL

(***************************************************************************)
(* What a caller of extract_to has been given of a genuine archive, also   *)
(* when the call fails half-way because the storage does, is a prefix of   *)
(* what was archived.                                                      *)
(***************************************************************************)
THEOREM NothingForeignComesOut ==
    ASSUME NoneLeftUnpacked
    PROVE  Spec => []OutputIsPrefix
<1>1. Inv /\ Faithful => OutputIsPrefix
  <2> SUFFICES ASSUME Inv, Faithful, archive.genuine
               PROVE  IsPrefix(out, archive.plain)
    BY DEF OutputIsPrefix
  <2>1. out \in Seq(Cells) /\ archive.plain \in Seq(Cells) /\ StartsWith(archive.plain, out)
    BY ArchiveFacts DEF Inv, TypeOK, Faithful, AsArchived
  <2>2. Len(out) \in Nat /\ Len(archive.plain) \in Nat /\ Len(out) <= Len(archive.plain)
    BY <2>1, LenProperties DEF StartsWith
  <2> DEFINE a == SubSeq(out, 1, Len(out))
             b == SubSeq(archive.plain, 1, Len(out))
  <2>3. /\ a \in Seq(Cells) /\ b \in Seq(Cells) /\ Len(a) = Len(out) /\ Len(b) = Len(out)
        /\ \A i \in 1..Len(a) : a[i] = out[1 - 1 + i]
        /\ \A i \in 1..Len(b) : b[i] = archive.plain[1 - 1 + i]
    <3>1. 1 \in Nat \ {0} /\ Len(out) = (IF 1 <= Len(out) THEN Len(out) - 1 + 1 ELSE 0)
      BY <2>2
    <3>2. QED
      BY <2>1, <2>2, <3>1, Slice
  <2> HIDE DEF a, b
  <2>4. \A i \in 1..Len(out) : 1 - 1 + i = i
    BY <2>2
  <2>5. \A i \in 1..Len(out) : a[i] = b[i]
    BY <2>1, <2>3, <2>4 DEF StartsWith
  <2>6. a = b
    BY <2>3, <2>5, SeqEqual
  <2>7. QED
    BY <2>2, <2>6 DEF IsPrefix, a, b
<1>2. QED
  BY <1>1, AlwaysFaithful, PTL

(***************************************************************************)
(* "never returns partial bytes as if whole": what a call on a compressed  *)
(* entry returns with Ok has the declared length, however its blocks and   *)
(* its stream end, and is what was archived if only the storage failed.    *)
(***************************************************************************)
THEOREM OkIsWhole ==
    ASSUME NoneLeftUnpacked
    PROVE  Spec => []WholeIfDecoded
<1>1. Inv /\ Faithful => WholeIfDecoded
  <2> SUFFICES ASSUME Inv, Faithful, compression # "stored",
                      answer.status \in {"ok", "Match", "Mismatch"}
               PROVE  /\ Len(answer.bytes) = archive.size
                      /\ archive.genuine => answer.bytes = archive.plain
    BY DEF WholeIfDecoded
  <2>1. Len(answer.bytes) = archive.size /\ archive \in Archives
        /\ answer.bytes \in Seq(Cells)
    BY DEF Inv, DeclaredLength, TypeOK
  <2>2. ASSUME archive.genuine
        PROVE  answer.bytes = archive.plain
    <3>1. archive.plain \in Seq(Cells) /\ archive.size = Len(archive.plain)
          /\ Len(archive.plain) \in Nat /\ StartsWith(archive.plain, answer.bytes)
      BY <2>1, <2>2, ArchiveFacts, SameFraming, LenProperties DEF Faithful, AsArchived
    <3>2. Len(answer.bytes) >= Len(archive.plain)
      BY <2>1, <3>1
    <3>3. QED
      BY <2>1, <3>1, <3>2, WholePrefix
  <2>3. QED
    BY <2>1, <2>2
<1>2. QED
  BY <1>1, AlwaysFaithful, PTL
=============================================================================
