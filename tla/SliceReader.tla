----------------------------- MODULE SliceReader -----------------------------
(***************************************************************************)
(* SliceReader: the Read + Seek view that presents the slice files of a    *)
(* multi-volume archive as one stream, slice 1 whole and every later slice *)
(* without its header, each but the last without its trailing flag byte.   *)
(*                                                                         *)
(* open_slices() counts the slice files up to the first that is missing,   *)
(* open() walks them one by one; a read() fills its buffer from slice to   *)
(* slice, one file read per step, and each file read may be short, be      *)
(* interrupted or fail.  The caller is read_exact of the standard library: *)
(* it calls read() until it has all it asked for, again when interrupted.  *)
(* A slice file may be cut short by the outside at any time.               *)
(*                                                                         *)
(* The bytes of the archive are named by their positions in the unsliced   *)
(* archive; headers and flags are the byte FLAG.  Of the slices that are   *)
(* taken, the last is taken for the archive's last: its flag is a byte.    *)
(***************************************************************************)
EXTENDS Integers, Sequences, SequencesExt

CONSTANTS
    Slicings,  \* how dar may have cut the archive, see SlicingsAreContiguous
    Asks,      \* how many bytes one read_exact may ask for
    Seeks,     \* the seeks made: <<whence, offset>>
    MaxPos,    \* bound: no seek goes beyond, far below 2^64
    Faults,    \* which of "missing", "error", "interrupt", "cut" and "truncate" may
               \* happen
    Lost       \* UnslicedArchive's position after a failed read

(***************************************************************************)
(* A slicing is a sequence of slices [header, first, data]: the slice file *)
(* is a header of that many bytes, then data bytes of the archive, of      *)
(* which the first is at that position, then, but for the last slice, a    *)
(* flag byte.  The header of slice 1 is part of the archive, and the last  *)
(* slice's flag is the archive's last byte.                                *)
(***************************************************************************)
SlicingsAreContiguous ==
    \A s \in Slicings :
        /\ s \in Seq([header : Nat, first : Nat, data : Nat])
        /\ Len(s) > 0
        /\ s[1].header = 0 /\ s[1].first = 0
        /\ \A i \in 1..(Len(s) - 1) : s[i + 1].first = s[i].first + s[i].data

ASSUME SlicerConstants ==
    /\ SlicingsAreContiguous
    /\ Asks \subseteq Nat \ {0}
    /\ Seeks \subseteq {"Start", "End", "Current"} \X Int
    /\ MaxPos \in Nat
    /\ Lost \notin Nat

FLAG == -1

VARIABLES
    slicing,  \* how the archive was cut
    present,  \* the numbers of the slice files that are there
    found,    \* how many open_slices has found
    len,      \* the current length of each slice file
    phase,    \* "finding", "opening", "idle", "reading", or "failed" when open() failed
    slices,   \* the SliceSpans: [file_data_start, logical_start, logical_len]
    pos,      \* SliceReader's pos
    total,    \* SliceReader's total
    need,     \* how many bytes the read_exact in progress asks for
    got,      \* the bytes read_exact has
    buf,      \* the bytes the read() in progress has written to its buffer
    lost,     \* the last read failed: the caller no longer relies on pos
    answer,   \* what the last operation returned
    intact,   \* no slice file has been cut short
    garbled   \* history: one was before it was opened, or a read that had
              \* bytes in its buffer has been interrupted

files == <<slicing, present, found, len, intact, garbled>>
vars == <<files, phase, slices, pos, total, need, got, buf, lost, answer>>

Answer(kind, value) == [kind |-> kind, value |-> value]
Lesser(a, b) == IF a <= b THEN a ELSE b

\* The flag byte every slice file but the last ends with.
flag(i) == IF i < Len(slicing) THEN 1 ELSE 0

\* How many slices can be taken: up to the first that is missing.
findable ==
    CHOOSE n \in 0..Len(slicing) : 1..n \subseteq present /\ n + 1 \notin present

\* The length of the archive those slices hold, whatever the slices.
ArchiveLength ==
    IF findable = 0 THEN 0
    ELSE slicing[findable].first + slicing[findable].data + flag(findable)

\* A byte of slice file i.
Byte(i, offset) ==
    LET s == slicing[i]
        shown == s.data + IF i = findable THEN flag(i) ELSE 0 IN
    IF s.header <= offset /\ offset < s.header + shown
    THEN s.first + offset - s.header
    ELSE FLAG
FileBytes(i, offset, n) == [j \in 1..n |-> Byte(i, offset + j - 1)]

Opened == phase \in {"idle", "reading"}

-----------------------------------------------------------------------------
Init ==
    /\ slicing \in Slicings
    /\ present \in IF "missing" \in Faults THEN SUBSET DOMAIN slicing
                                            ELSE {DOMAIN slicing}
    /\ found = 0
    /\ len = [i \in 1..Len(slicing) |-> slicing[i].header + slicing[i].data + flag(i)]
    /\ phase = "finding"
    /\ slices = << >>
    /\ pos = 0
    /\ total = 0
    /\ need = 0
    /\ got = << >>
    /\ buf = << >>
    /\ lost = FALSE
    /\ answer = Answer("none", << >>)
    /\ intact = TRUE
    /\ garbled = FALSE

\* open_slices: base.1.dar, base.2.dar and so on while they exist.
FindSlice ==
    /\ phase = "finding"
    /\ found + 1 \in present
    /\ found' = found + 1
    /\ UNCHANGED <<slicing, present, len, intact, garbled, phase, slices, pos, total, need,
                   got, buf, lost, answer>>

\* "no slices found".
FindEnds ==
    /\ phase = "finding"
    /\ found + 1 \notin present
    /\ phase' = IF found = 0 THEN "failed" ELSE "opening"
    /\ UNCHANGED <<files, slices, pos, total, need, got, buf, lost, answer>>

(***************************************************************************)
(* SliceReader::open, one slice file per step.                             *)
(***************************************************************************)
next_slice == Len(slices) + 1

\* Faulty: later slices keep their headers.
file_data_start_Zero(i) == 0

\* slice_header_len of a later slice; slice 1 contributes its header.
file_data_start(i) == IF i = 1 THEN 0 ELSE slicing[i].header

\* Faulty: the flag bytes between slices stay in the stream.
logical_len_WithFlag(i) == len[i] - file_data_start(i)

\* The flag byte that is dropped.
trailer(i) == IF i < found THEN 1 ELSE 0

logical_len(i) == len[i] - file_data_start(i) - trailer(i)

\* Faulty: the length of the file is not checked.
OpenSlice_Unchecked ==
    /\ phase = "opening"
    /\ slices' = Append(slices, [file_data_start |-> file_data_start(next_slice),
                                 logical_start |-> total,
                                 logical_len |-> logical_len(next_slice)])
    /\ total' = total + logical_len(next_slice)
    /\ phase' = IF next_slice = found THEN "idle" ELSE "opening"
    /\ UNCHANGED <<files, pos, need, got, buf, lost, answer>>

OpenSlice ==
    /\ phase = "opening"
    /\ len[next_slice] >= file_data_start(next_slice) + trailer(next_slice)
    /\ slices' = Append(slices, [file_data_start |-> file_data_start(next_slice),
                                 logical_start |-> total,
                                 logical_len |-> logical_len(next_slice)])
    /\ total' = total + logical_len(next_slice)
    /\ phase' = IF next_slice = found THEN "idle" ELSE "opening"
    /\ UNCHANGED <<files, pos, need, got, buf, lost, answer>>

OpenFails ==
    /\ phase' = "failed"
    /\ UNCHANGED <<files, slices, pos, total, need, got, buf, lost, answer>>

\* "slice smaller than its header + flag".
OpenRejects ==
    /\ phase = "opening"
    /\ len[next_slice] < file_data_start(next_slice) + trailer(next_slice)
    /\ OpenFails

OpenErrors ==
    /\ phase = "opening"
    /\ "error" \in Faults
    /\ OpenFails

(***************************************************************************)
(* Seek for SliceReader.                                                   *)
(***************************************************************************)
SeekTarget(whence, offset) ==
    CASE whence = "Start" -> offset
      [] whence = "End" -> total + offset
      [] whence = "Current" -> pos + offset

Seek(whence, offset) ==
    LET target == SeekTarget(whence, offset) IN
    /\ phase = "idle"
    /\ whence = "Current" => ~lost
    /\ target \in 0..MaxPos
    /\ pos' = target
    /\ lost' = FALSE
    /\ answer' = Answer(whence, <<target>>)
    /\ UNCHANGED <<files, phase, slices, total, need, got, buf>>

SeekBefore(whence, offset) ==
    /\ phase = "idle"
    /\ whence = "Current" => ~lost
    /\ SeekTarget(whence, offset) < 0
    /\ answer' = Answer("InvalidInput", << >>)
    /\ UNCHANGED <<files, phase, slices, pos, total, need, got, buf, lost>>

(***************************************************************************)
(* read_exact(n), and the read() calls it makes.                           *)
(***************************************************************************)
Ask(n) ==
    /\ phase = "idle"
    /\ ~lost
    /\ phase' = "reading"
    /\ need' = n
    /\ got' = << >>
    /\ buf' = << >>
    /\ UNCHANGED <<files, slices, pos, total, lost, answer>>

\* buf.len() - written in the read() in progress.
room == need - Len(got) - Len(buf)

EndOf(i) == slices[i].logical_start + slices[i].logical_len

\* The slice that holds pos: the first whose data extends past it.
Holds(i) ==
    /\ pos < EndOf(i)
    /\ \A j \in 1..(i - 1) : pos >= EndOf(j)

\* How much of it can be read: no more than is wanted, nor than the slice's
\* file still holds.
within(i) == pos - slices[i].logical_start
want(i) == Lesser(room, slices[i].logical_len - within(i))
available(i) == len[i] - slices[i].file_data_start - within(i)

\* One file read of at least one byte.
Fill ==
    /\ phase = "reading"
    /\ \E i \in DOMAIN slices :
          /\ Holds(i)
          /\ \E n \in 1..Lesser(want(i), available(i)) :
                /\ buf' = buf \o FileBytes(i, slices[i].file_data_start + within(i), n)
                /\ pos' = pos + n
    /\ UNCHANGED <<files, phase, slices, total, need, got, lost, answer>>

\* read() returns: its buffer is full, the archive ends, or a slice does.
ReadReturns ==
    /\ phase = "reading"
    /\ \/ room = 0
       \/ ~\E i \in DOMAIN slices : Holds(i)
       \/ \E i \in DOMAIN slices : Holds(i) /\ available(i) <= 0

\* Faulty: an empty read is tried again instead of ending the loop.
ReadStops_Spins ==
    /\ ReadReturns
    /\ buf = << >>
    /\ room > 0
    /\ ~\E i \in DOMAIN slices : Holds(i)
    /\ phase' = "idle"
    /\ lost' = TRUE
    /\ answer' = Answer("UnexpectedEof", << >>)
    /\ UNCHANGED <<files, slices, pos, total, need, got, buf>>

\* Ok(0): read_exact reports an unexpected end.
ReadStops ==
    /\ ReadReturns
    /\ buf = << >>
    /\ room > 0
    /\ phase' = "idle"
    /\ lost' = TRUE
    /\ answer' = Answer("UnexpectedEof", << >>)
    /\ UNCHANGED <<files, slices, pos, total, need, got, buf>>

\* Ok(n) short of what is needed: read_exact calls read() again.
ReadIsShort ==
    /\ ReadReturns
    /\ buf # << >>
    /\ room > 0
    /\ got' = got \o buf
    /\ buf' = << >>
    /\ UNCHANGED <<files, phase, slices, pos, total, need, lost, answer>>

ReadCompletes ==
    /\ ReadReturns
    /\ room = 0
    /\ phase' = "idle"
    /\ answer' = Answer("bytes", got \o buf)
    /\ UNCHANGED <<files, slices, pos, total, need, got, buf, lost>>

\* A file read fails and `?` returns at once; the caller gives up.
ReadFails ==
    /\ phase = "reading"
    /\ "error" \in Faults
    /\ phase' = "idle"
    /\ lost' = TRUE
    /\ answer' = Answer("Io", << >>)
    /\ UNCHANGED <<files, slices, pos, total, need, got, buf>>

\* A file read is interrupted and `?` returns at once; read_exact calls
\* read() again, for the bytes it does not have.
Interrupted ==
    /\ phase = "reading"
    /\ "interrupt" \in Faults
    /\ room > 0
    /\ buf' = << >>
    /\ garbled' = (garbled \/ buf # << >>)
    /\ UNCHANGED <<slicing, present, found, len, intact, phase, slices, pos, total, need,
                   got, lost, answer>>

\* A slice file loses its end, before it is opened or later.
Truncate ==
    /\ (IF Opened THEN "truncate" ELSE "cut") \in Faults
    /\ intact
    /\ \E i \in DOMAIN len : \E n \in 0..(len[i] - 1) : len' = [len EXCEPT ![i] = n]
    /\ intact' = FALSE
    /\ garbled' = (garbled \/ ~Opened)
    /\ UNCHANGED <<slicing, present, found, phase, slices, pos, total, need, got, buf, lost,
                   answer>>

ReadStep == Fill \/ ReadStops \/ ReadIsShort \/ ReadCompletes

Next ==
    \/ FindSlice
    \/ FindEnds
    \/ OpenSlice
    \/ OpenRejects
    \/ OpenErrors
    \/ \E s \in Seeks : Seek(s[1], s[2]) \/ SeekBefore(s[1], s[2])
    \/ \E n \in Asks : Ask(n)
    \/ ReadStep
    \/ ReadFails
    \/ Interrupted
    \/ Truncate

Spec == Init /\ [][Next]_vars

\* A read() that has been called runs to its end.
FairSpec == Spec /\ WF_vars(ReadStep)

-----------------------------------------------------------------------------

(***************************************************************************)
(* Types; the bytes in hand never exceed what was asked for.               *)
(***************************************************************************)
TypeOK ==
    /\ slicing \in Slicings
    /\ len \in [1..Len(slicing) -> Nat]
    /\ present \subseteq DOMAIN slicing
    /\ found \in 0..findable
    /\ phase \in {"finding", "opening", "idle", "reading", "failed"}
    /\ slices \in Seq([file_data_start : Nat, logical_start : Nat, logical_len : Nat])
    /\ pos \in Nat
    /\ total \in Nat
    /\ need \in Nat
    /\ got \in Seq(Int)
    /\ buf \in Seq(Int)
    /\ lost \in BOOLEAN
    /\ intact \in BOOLEAN
    /\ garbled \in BOOLEAN
    /\ phase = "reading" => room >= 0

(***************************************************************************)
(* The spans tile the archive: they follow each other without a gap, and   *)
(* every byte a span maps is the archive's byte at that position, never a  *)
(* later slice's header or a flag between slices.                          *)
(***************************************************************************)
SpansTileArchive ==
    \A i \in DOMAIN slices :
        /\ slices[i].logical_start = IF i = 1 THEN 0 ELSE EndOf(i - 1)
        /\ \A p \in slices[i].logical_start..(EndOf(i) - 1) :
              intact => Byte(i, slices[i].file_data_start + p - slices[i].logical_start) = p

\* The unsliced file this stream stands for, and where a caller is in it.
at == CASE lost -> Lost
        [] phase = "reading" -> pos - Len(got) - Len(buf)
        [] OTHER -> pos
Unsliced == INSTANCE UnslicedArchive WITH total <- ArchiveLength

(***************************************************************************)
(* "one contiguous logical stream ... byte-identical to the equivalent     *)
(* unsliced archive": every seek and every read_exact answers as on the    *)
(* unsliced file, across slice boundaries, short reads and failures, until *)
(* the stream is garbled in one of the two ways that are not noticed.  With *)
(* a slice missing, it is the archive cut behind the slice before it: none *)
(* of the later slices joins the stream.                                   *)
(***************************************************************************)
ReadsAsUnsliced == Unsliced!Spec

(***************************************************************************)
(* "truncated slice: stop, do not spin": every read ends, also on a slice  *)
(* file that has lost its end since it was opened.                         *)
(***************************************************************************)
ReadEnds == phase = "reading" ~> phase # "reading"
=============================================================================
