------------------------------- MODULE Extract -------------------------------
(***************************************************************************)
(* DarReader::extract_to and verify: from an entry's catalogue fields to   *)
(* its bytes, copied as they are stored or decoded by the archive's codec, *)
(* as one stream or block by block, under the cap of the declared size.    *)
(*                                                                         *)
(* The archive is a sequence of cells.  A cell is a byte of data (of which *)
(* a codec makes two), the header of a block with its size in cells, the   *)
(* end of a codec stream, or junk.  A step is one read, one decoded piece  *)
(* or one check.  The archive may be damaged before it is opened, lose its *)
(* end while it is read, and any read may fail.                            *)
(***************************************************************************)
EXTENDS Integers, Sequences, SequencesExt

CONSTANTS
    Archives,   \* the archives considered, see ExtractConstants
    BlockSize,  \* what a block of a raw codec (lz4, lzo) may decode to
    MaxCalls,   \* bound: extract_to and verify calls made
    Faults      \* which of "error" and "shrink" may happen

\* A cell is a number: data is not negative, and no two other cells are equal.
Cells == Int
IsData(cell) == cell >= 0
END == -1
JUNK == -2
DATA(size) == -10 - 2 * size
EOF(size) == -11 - 2 * size

(***************************************************************************)
(* An archive with one entry: its format's major version, the archive's    *)
(* codec, whether dar compressed this entry ("packed"), the entry's fields *)
(* as they stand in the catalogue (storage_size is read from format 2 on), *)
(* and, for the properties only, what dar archived, where it put the       *)
(* headers of its blocks and how many cells of data before each, and       *)
(* whether the archive is as dar wrote it.  An archive in slices reports   *)
(* the length it had when it was opened.                                   *)
(***************************************************************************)
ASSUME ExtractConstants ==
    /\ Archives \subseteq
          [disk : Seq(Cells), sliced : BOOLEAN, format : {1, 7, 8},
           codec : {"stored", "stream", "blocks", "raw"}, packed : BOOLEAN,
           start : Nat, size : Nat, storage_size : Nat, crc : Seq({0, 1}),
           plain : Seq(Cells), blocks : Seq([at : Nat, before : Nat]),
           genuine : BOOLEAN]
    /\ BlockSize \in Nat
    /\ MaxCalls \in Nat

VARIABLES
    archive,   \* the archive
    end,       \* how many of its cells can still be read
    sound,     \* history: no damage, no shrinking, no failing read so far
    calls,     \* how many calls were made
    phase,     \* where the call in progress is
    verifying, \* it is a verify
    position,  \* the reader's stream position
    input,     \* the cells of the entry not yet split into blocks
    block,     \* the cells of the block or stream being decoded
    out,       \* the bytes written to the caller's writer
    answer     \* what the last call returned: [status, bytes]

medium == <<archive, end, sound, calls, verifying>>
vars == <<archive, end, sound, calls, phase, verifying, position, input, block, out, answer>>

disk == archive.disk
Lesser(a, b) == IF a <= b THEN a ELSE b
Answer(status, bytes) == [status |-> status, bytes |-> bytes]

(***************************************************************************)
(* The entry's fields as read_file_fields leaves them: before format 8 the *)
(* archive's codec applies to every entry, and format 1 has no stored      *)
(* size.                                                                   *)
(***************************************************************************)
compression ==
    IF archive.format >= 8 /\ ~archive.packed THEN "stored" ELSE archive.codec

stored_size ==
    IF archive.format = 1 \/ (archive.format <= 7 /\ archive.storage_size = 0)
    THEN archive.size
    ELSE archive.storage_size

\* Format 1 decodes from the archive itself, not from a copy of stored_size cells.
FromDisk == archive.format = 1
Blockwise == compression \in {"blocks", "raw"}

-----------------------------------------------------------------------------
Init ==
    /\ archive \in Archives
    /\ end = Len(disk)
    /\ sound = archive.genuine
    /\ calls = 0
    /\ phase = "idle"
    /\ verifying = FALSE
    /\ position = 0
    /\ input = << >>
    /\ block = << >>
    /\ out = << >>
    /\ answer = Answer("none", << >>)

Call(verify) ==
    /\ phase = "idle"
    /\ calls < MaxCalls
    /\ calls' = calls + 1
    /\ verifying' = verify
    /\ out' = << >>
    /\ UNCHANGED <<archive, end, sound, position, input, block>>

CallExtract ==
    /\ Call(FALSE)
    /\ phase' = "locate"
    /\ UNCHANGED answer

CallVerify ==
    /\ Call(TRUE)
    /\ archive.crc # << >>
    /\ phase' = "locate"
    /\ UNCHANGED answer

\* verify of an entry without a CRC reads nothing.
NotStored ==
    /\ Call(TRUE)
    /\ archive.crc = << >>
    /\ answer' = Answer("NotStored", << >>)
    /\ UNCHANGED phase

\* No entry has that path.
EntryNotFound ==
    /\ \E verify \in BOOLEAN : Call(verify)
    /\ answer' = Answer("EntryNotFound", << >>)
    /\ UNCHANGED phase

Return(status) ==
    /\ phase' = "idle"
    /\ answer' = Answer(status, out)
    /\ UNCHANGED <<medium, input, block, out>>

Fail == Return("failed") /\ UNCHANGED position

\* XOR of the data's low bits, byte i into slot i modulo the width.
dar_crc(data, width) ==
    [slot \in 1..width |->
        Len(SelectSeq([i \in 1..Len(data) |->
                          IF i % width = slot % width THEN data[i] % 2 ELSE 0],
                      LAMBDA bit : bit = 1)) % 2]

\* The call returns Ok: extract's bytes, or verify's verdict on them.
Succeed ==
    /\ Return(IF ~verifying THEN "ok"
              ELSE IF dar_crc(out, Len(archive.crc)) = archive.crc THEN "Match"
              ELSE "Mismatch")
    /\ UNCHANGED position

-----------------------------------------------------------------------------
\* What seek(End(0)) reports.
reported_end == IF archive.sliced THEN Len(disk) ELSE end

\* Faulty: the start is not checked against the end of the archive.
InArchive_Unchecked == TRUE

InArchive == archive.start <= reported_end
Claimed == stored_size <= reported_end - archive.start

\* Faulty: the reader is left where the last call left it.
SeekTo_Stays(next) ==
    /\ phase' = next
    /\ UNCHANGED <<medium, position, input, block, out, answer>>

SeekTo(next) ==
    /\ phase' = next
    /\ position' = archive.start
    /\ UNCHANGED <<medium, input, block, out, answer>>

Locate ==
    /\ phase = "locate"
    /\ InArchive
    /\ \/ compression = "stored" /\ Claimed /\ SeekTo("copy")
       \/ compression # "stored" /\ ~FromDisk /\ Claimed /\ SeekTo("span")
       \/ compression # "stored" /\ FromDisk /\ SeekTo("decode")

\* The offset lies past the end (or overflows a file position).
RejectStart ==
    /\ phase = "locate"
    /\ ~InArchive
    /\ Fail

\* The entry claims more cells than remain; a stream of format 1 claims none.
RejectClaim ==
    /\ phase = "locate"
    /\ InArchive
    /\ ~Claimed
    /\ compression = "stored" \/ ~FromDisk
    /\ position' = archive.start
    /\ Return("failed")

\* io::copy of a stored entry: one read of at least one cell.
Copy ==
    /\ phase = "copy"
    /\ \E n \in 1..Lesser(stored_size - Len(out), end - position) :
          /\ out' = out \o SubSeq(disk, position + 1, position + n)
          /\ position' = position + n
    /\ UNCHANGED <<medium, phase, input, block, answer>>

\* Faulty: an early end of the archive is not the end of the copy.
CopyEnds_Spins ==
    /\ phase = "copy"
    /\ Len(out) = stored_size
    /\ Succeed

\* All of the entry, or all there is left of the archive: Ok either way.
CopyEnds ==
    /\ phase = "copy"
    /\ Len(out) = stored_size \/ position >= end
    /\ Succeed

\* read_exact of the stored cells.
ReadSpan ==
    LET data == SubSeq(disk, position + 1, position + stored_size) IN
    /\ phase = "span"
    /\ position + stored_size <= end
    /\ position' = position + stored_size
    /\ IF Blockwise THEN phase' = "blocks" /\ input' = data /\ block' = << >>
                    ELSE phase' = "decode" /\ input' = << >> /\ block' = data
    /\ UNCHANGED <<medium, out, answer>>

SpanIsShort ==
    /\ phase = "span"
    /\ position + stored_size > end
    /\ Fail

-----------------------------------------------------------------------------
\* decode_blocks: the next block's header, and what follows it.
Header(cell) == input # << >> /\ Head(input) = cell

Fits(size) == size <= Len(Tail(input))

OpenBlock ==
    /\ phase = "blocks"
    /\ \E size \in 1..Len(input) :
          /\ Header(DATA(size))
          /\ Fits(size)
          /\ block' = SubSeq(input, 2, size + 1)
          /\ input' = SubSeq(input, size + 2, Len(input))
    /\ phase' = "decode"
    /\ UNCHANGED <<medium, position, out, answer>>

EndOfBlocks ==
    /\ phase = "blocks"
    /\ Header(EOF(0))
    /\ phase' = "compare"
    /\ UNCHANGED <<medium, position, input, block, out, answer>>

\* A missing end marker, a size on it, an empty, over-long or unknown block.
BadBlock ==
    /\ phase = "blocks"
    /\ ~Header(EOF(0))
    /\ ~\E size \in 1..Len(input) : Header(DATA(size)) /\ Fits(size)
    /\ Fail

\* Two bytes from each cell.
Inflate(cells) == [i \in 1..(2 * Len(cells)) |-> cells[(i + 1) \div 2]]

\* Faulty: the cap is checked after the write.
WithinCap_Late(bytes) == Len(out) <= archive.size

\* Faulty: the write that reaches the declared size fails.
WithinCap_Strict(bytes) == Len(out) + Len(bytes) < archive.size

\* CapWriter: a write past the declared size fails before it writes.
WithinCap(bytes) == Len(out) + Len(bytes) <= archive.size

\* The codec stream being decoded, and moving on in it.
rest == IF FromDisk THEN SubSeq(disk, position + 1, end) ELSE block
Advance(n) ==
    IF FromDisk THEN position' = position + n /\ UNCHANGED block
                ELSE block' = SubSeq(block, n + 1, Len(block)) /\ UNCHANGED position

IsRun(n) == \A i \in 1..n : IsData(rest[i])

\* decode_lz4_block and decode_lzo_block: the block is decoded and written whole.
DecodeRaw ==
    /\ phase = "decode"
    /\ compression = "raw"
    /\ IsRun(Len(block))
    /\ 2 * Len(block) <= BlockSize
    /\ WithinCap(Inflate(block))
    /\ out' = out \o Inflate(block)
    /\ block' = << >>
    /\ phase' = "blocks"
    /\ UNCHANGED <<medium, position, input, answer>>

RawFails ==
    /\ phase = "decode"
    /\ compression = "raw"
    /\ ~(IsRun(Len(block)) /\ 2 * Len(block) <= BlockSize /\ WithinCap(Inflate(block)))
    /\ Fail

\* decode_stream: the decoder hands over a piece.
DecodeStream ==
    /\ phase = "decode"
    /\ compression # "raw"
    /\ \E n \in 1..Len(rest) :
          LET piece == Inflate(SubSeq(rest, 1, n)) IN
          /\ IsRun(n)
          /\ WithinCap(piece)
          /\ out' = out \o piece
          /\ Advance(n)
    /\ UNCHANGED <<medium, phase, input, answer>>

\* The stream ends; cells after its end are ignored.  A decoder may take a
\* stream that breaks off for one that ends.
StreamEnds ==
    /\ phase = "decode"
    /\ compression # "raw"
    /\ rest # << >> => Head(rest) = END
    /\ phase' = IF Blockwise THEN "blocks" ELSE "compare"
    /\ UNCHANGED <<medium, position, input, block, out, answer>>

\* The stream breaks off, is malformed, or would pass the cap.
StreamFails ==
    /\ phase = "decode"
    /\ compression # "raw"
    /\ \/ rest = << >>
       \/ rest # << >> /\ ~IsData(Head(rest)) /\ Head(rest) # END
       \/ \E n \in 1..Len(rest) : IsRun(n) /\ ~WithinCap(Inflate(SubSeq(rest, 1, n)))
    /\ Fail

\* Faulty: the output is not compared with the declared size.
RightSize_Any == TRUE

RightSize == Len(out) = archive.size

Compare ==
    /\ phase = "compare"
    /\ IF RightSize THEN Succeed ELSE Fail

-----------------------------------------------------------------------------
\* A seek or a read of the archive fails, or a write to the caller's writer.
IoFails ==
    /\ "error" \in Faults
    /\ phase \in {"locate", "copy", "span", "decode"}
    /\ phase' = "idle"
    /\ answer' = Answer("failed", out)
    /\ sound' = FALSE
    /\ UNCHANGED <<archive, end, calls, verifying, position, input, block, out>>

\* The file the archive is in loses its end.
Shrink ==
    /\ "shrink" \in Faults
    /\ end = Len(disk)
    /\ end' \in 0..(end - 1)
    /\ sound' = FALSE
    /\ UNCHANGED <<archive, calls, phase, verifying, position, input, block, out, answer>>

Step ==
    \/ Locate \/ RejectStart \/ RejectClaim
    \/ Copy \/ CopyEnds
    \/ ReadSpan \/ SpanIsShort
    \/ OpenBlock \/ EndOfBlocks \/ BadBlock
    \/ DecodeRaw \/ RawFails
    \/ DecodeStream \/ StreamEnds \/ StreamFails
    \/ Compare

Next ==
    \/ CallExtract \/ CallVerify \/ NotStored \/ EntryNotFound
    \/ Step
    \/ IoFails
    \/ Shrink

Spec == Init /\ [][Next]_vars

\* A call that has begun runs to its end.
FairSpec == Spec /\ WF_vars(Step)

-----------------------------------------------------------------------------
(***************************************************************************)
(* A genuine archive, as dar writes it: what its codec made of the entry's *)
(* data, from cell start + 1 on.                                           *)
(***************************************************************************)
Framing(a) == IF a.packed THEN a.codec ELSE "stored"

\* The entry takes n cells.  An entry that dar left unpacked has no stored
\* size before format 8.
Takes(a, n) ==
    /\ a.start + n <= Len(a.disk)
    /\ \/ a.format = 1
       \/ a.storage_size = n
       \/ a.format <= 7 /\ ~a.packed /\ a.storage_size = 0

\* From behind cell "from", n cells have the data behind its first 2 * before bytes.
Packs(a, from, n, before) ==
    /\ from + n <= Len(a.disk)
    /\ 2 * (before + n) <= Len(a.plain)
    /\ \A j \in 1..n :
          LET cell == a.disk[from + j] IN
          /\ IsData(cell)
          /\ a.plain[2 * (before + j) - 1] = cell
          /\ a.plain[2 * (before + j)] = cell

\* The block between two headers: raw, or with the end of its codec stream.
IsBlock(a, first, next) ==
    LET n == next.before - first.before
        size == IF a.codec = "raw" THEN n ELSE n + 1
    IN  /\ n >= 1
        /\ next.at = first.at + 1 + size
        /\ next.at <= Len(a.disk)
        /\ a.disk[first.at + 1] = DATA(size)
        /\ Packs(a, first.at + 1, n, first.before)
        /\ IF a.codec = "raw" THEN 2 * n <= BlockSize ELSE a.disk[next.at] = END

AsCopied(a) ==
    /\ Framing(a) = "stored"
    /\ Takes(a, a.size)
    /\ \A i \in 1..a.size : a.disk[a.start + i] = a.plain[i]

AsStream(a) ==
    /\ Framing(a) = "stream"
    /\ \E n \in 0..Len(a.disk) :
          /\ 2 * n = a.size
          /\ Takes(a, n + 1)
          /\ Packs(a, a.start, n, 0)
          /\ a.disk[a.start + n + 1] = END

\* The last of the blocks is the header that ends them.
AsBlocks(a) ==
    LET last == Len(a.blocks) IN
    /\ Framing(a) \in {"blocks", "raw"}
    /\ a.format # 1
    /\ last >= 1
    /\ a.blocks[1].at = a.start /\ a.blocks[1].before = 0
    /\ \A k \in 1..(last - 1) : IsBlock(a, a.blocks[k], a.blocks[k + 1])
    /\ \A k \in 1..last : a.blocks[k].at <= a.blocks[last].at
    /\ 2 * a.blocks[last].before = a.size
    /\ Takes(a, a.blocks[last].at + 1 - a.start)
    /\ a.disk[a.blocks[last].at + 1] = EOF(0)

AsWritten(a) ==
    /\ a.size = Len(a.plain)
    /\ a.crc # << >> => a.crc = dar_crc(a.plain, Len(a.crc))
    /\ AsCopied(a) \/ AsStream(a) \/ AsBlocks(a)

ASSUME GenuineArchives == \A a \in Archives : a.genuine => AsWritten(a)

-----------------------------------------------------------------------------
(***************************************************************************)
(* Types; and the reader stays inside the archive.                         *)
(***************************************************************************)
TypeOK ==
    /\ end \in 0..Len(disk)
    /\ sound \in BOOLEAN
    /\ calls \in 0..MaxCalls
    /\ phase \in {"idle", "locate", "copy", "span", "blocks", "decode", "compare"}
    /\ verifying \in BOOLEAN
    /\ position \in 0..Len(disk)
    /\ input \in Seq(Cells)
    /\ block \in Seq(Cells)
    /\ out \in Seq(Cells)
    /\ answer.status \in {"none", "ok", "Match", "Mismatch", "NotStored", "EntryNotFound", "failed"}
    /\ answer.bytes \in Seq(Cells)

(***************************************************************************)
(* As long as the archive is as dar wrote it and every read succeeds, each *)
(* call returns the whole file, and verify finds that it matches: no       *)
(* bound, size check or checksum turns good data away, in any format.      *)
(***************************************************************************)
SoundIsWhole ==
    sound => /\ answer.status \notin {"failed", "Mismatch"}
             /\ answer.status \in {"ok", "Match"} => answer.bytes = archive.plain

(***************************************************************************)
(* "never returns partial bytes as if whole": an extraction that returns   *)
(* Ok has the declared size; and it is what was archived if only the       *)
(* storage failed.  Of compressed entries, whatever the damage.            *)
(***************************************************************************)
WholeIfDecoded ==
    answer.status \in {"ok", "Match", "Mismatch"} /\ compression # "stored" =>
        /\ Len(answer.bytes) = archive.size
        /\ archive.genuine => answer.bytes = archive.plain

(***************************************************************************)
(* "a forged stream cannot over-inflate": at no time has the caller's      *)
(* writer been given more than the catalogue declares.                     *)
(***************************************************************************)
OutputIsCapped ==
    Len(out) <= IF compression = "stored" THEN stored_size ELSE archive.size

(***************************************************************************)
(* What the caller's writer has been given, also by a call that failed, is *)
(* a prefix of what was archived, if only the storage failed.              *)
(***************************************************************************)
OutputIsPrefix == archive.genuine => IsPrefix(out, archive.plain)

(***************************************************************************)
(* Every call ends, whatever the blocks claim and the storage does.        *)
(***************************************************************************)
CallEnds == phase # "idle" ~> phase = "idle"
=============================================================================
