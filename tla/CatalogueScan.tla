---------------------------- MODULE CatalogueScan ----------------------------
(***************************************************************************)
(* How DarReader::open finds the catalogue of an archive of format 8 and   *)
(* later: find_catalogue_within seeks to a window at the archive's tail    *)
(* and scan_window reads it forward, chunk by chunk, looking for the       *)
(* seqt_catalogue escape or for the archive's label, keeping the last      *)
(* OVERLAP bytes so that a marker that straddles two chunks is still seen. *)
(* A window without a marker is followed by a scan of the whole body.      *)
(*                                                                         *)
(* The bytes are abstracted to where the two markers begin.  One step is   *)
(* one turn of scan_window's loop; Read::read may return fewer bytes than  *)
(* asked, or fail.                                                         *)
(***************************************************************************)
EXTENDS Integers

CONSTANTS
    SEQT_LEN,   \* SEQT_CATALOGUE.len(), 6 in the code
    LABEL_LEN,  \* label.len(), 10 in the code
    CHUNK,      \* the most one read asks for, 4 MiB in the code
    OVERLAP,    \* bytes carried from one buffer to the next, 9 in the code
    TAIL_SCAN,  \* length of the tail window, 256 MiB in the code
    Archives    \* the archives considered, see ScanAssumption

(***************************************************************************)
(* An archive: where its body begins (the position find_catalogue is       *)
(* called at) and ends, the positions where the escape and the label       *)
(* begin, whether the label is all zeros, and where the entries of its     *)
(* catalogue really begin (never read by the scan, only by properties).    *)
(***************************************************************************)
ScanAssumption ==
    /\ SEQT_LEN \in Nat \ {0}
    /\ LABEL_LEN \in Nat \ {0}
    /\ CHUNK \in Nat \ {0}
    /\ TAIL_SCAN \in Nat
    /\ OVERLAP \in Nat
    /\ SEQT_LEN <= OVERLAP + 1
    /\ LABEL_LEN <= OVERLAP + 1
    /\ Archives \subseteq [origin : Nat, end : Nat, escapes : SUBSET Nat,
                           labels : SUBSET Nat, zeroLabel : BOOLEAN,
                           entries : Nat]

ASSUME ScanConstants == ScanAssumption

VARIABLES
    archive,  \* the archive being opened
    phase,    \* where find_catalogue_within is, or how it ended
    start,    \* where the scan in progress began (tail_start or the origin)
    pos,      \* the reader's stream position
    kept,     \* overlap_len: bytes carried over from the previous buffer
    via       \* the result when found: TRUE for the escape, FALSE for the label

vars == <<archive, phase, start, pos, kept, via>>

Scanning == phase \in {"tail", "full"}
Ended == {"found", "missing", "tooShort", "ioError"}

Lesser(a, b) == IF a <= b THEN a ELSE b
Greater(a, b) == IF a >= b THEN a ELSE b

\* The markers of length len that lie wholly within [from, upto).
Within(markers, len, from, upto) ==
    {i \in markers : from <= i /\ i + len <= upto}

IsFirst(i, S) == i \in S /\ \A j \in S : i <= j

-----------------------------------------------------------------------------
Init ==
    /\ archive \in Archives
    /\ phase = "locate"
    /\ start = archive.origin
    /\ pos = archive.origin
    /\ kept = 0
    /\ via = FALSE

\* An all-zero label is too common in padded bodies to be a marker.
useLabel == ~archive.zeroLabel

\* Faulty: the window is not kept from reaching back into the slice header.
tail_start_Unclamped == Greater(0, archive.end - TAIL_SCAN)

\* The first byte of the tail window: never before the body.
tail_start == Greater(archive.origin, Greater(0, archive.end - TAIL_SCAN))

TooShort ==
    /\ phase = "locate"
    /\ archive.end <= archive.origin
    /\ phase' = "tooShort"
    /\ UNCHANGED <<archive, start, pos, kept, via>>

StartTail ==
    /\ phase = "locate"
    /\ archive.end > archive.origin
    /\ phase' = "tail"
    /\ start' = tail_start
    /\ pos' = tail_start
    /\ UNCHANGED <<archive, kept, via>>

\* What the buffer holds once n bytes have been read after the kept ones.
buf_base == pos - kept
EscapesSeen(n) == Within(archive.escapes, SEQT_LEN, buf_base, pos + n)
LabelsSeen(n) ==
    IF useLabel THEN Within(archive.labels, LABEL_LEN, buf_base, pos + n) ELSE {}

\* The sizes a read may return before the end of the file: at least one byte.
ReadSizes == 1..Lesser(CHUNK, archive.end - pos)

\* The buffer is searched for the escape first, whatever comes first in it.
FindEscape(n) ==
    /\ Scanning
    /\ \E i \in EscapesSeen(n) :
          /\ IsFirst(i, EscapesSeen(n))
          /\ pos' = i + SEQT_LEN
    /\ phase' = "found"
    /\ via' = TRUE
    /\ UNCHANGED <<archive, start, kept>>

FindLabel(n) ==
    /\ Scanning
    /\ EscapesSeen(n) = {}
    /\ \E i \in LabelsSeen(n) :
          /\ IsFirst(i, LabelsSeen(n))
          /\ pos' = i + LABEL_LEN
    /\ phase' = "found"
    /\ via' = FALSE
    /\ UNCHANGED <<archive, start, kept>>

\* Faulty: one byte too few is carried over.
KeepOverlap_OneShort(n) ==
    /\ Scanning
    /\ EscapesSeen(n) = {}
    /\ LabelsSeen(n) = {}
    /\ pos' = pos + n
    /\ kept' = Lesser(OVERLAP - 1, kept + n)
    /\ UNCHANGED <<archive, phase, start, via>>

\* Faulty: the overlap is taken to be full after a short read too.
KeepOverlap_Full(n) ==
    /\ Scanning
    /\ EscapesSeen(n) = {}
    /\ LabelsSeen(n) = {}
    /\ pos' = pos + n
    /\ kept' = OVERLAP
    /\ UNCHANGED <<archive, phase, start, via>>

KeepOverlap(n) ==
    /\ Scanning
    /\ EscapesSeen(n) = {}
    /\ LabelsSeen(n) = {}
    /\ pos' = pos + n
    /\ kept' = Lesser(OVERLAP, kept + n)
    /\ UNCHANGED <<archive, phase, start, via>>

\* The tail window holds no marker and is not the whole body: scan the body.
FallBack ==
    /\ phase = "tail"
    /\ pos >= archive.end
    /\ start > archive.origin
    /\ phase' = "full"
    /\ start' = archive.origin
    /\ pos' = archive.origin
    /\ kept' = 0
    /\ UNCHANGED <<archive, via>>

\* Faulty: gives up after the tail window.
NotFound_NoFallBack ==
    /\ Scanning
    /\ pos >= archive.end
    /\ phase' = "missing"
    /\ UNCHANGED <<archive, start, pos, kept, via>>

\* Faulty: the end of a window that is the whole body does not end the loop.
NotFound_NoBreak ==
    /\ phase = "full"
    /\ pos >= archive.end
    /\ phase' = "missing"
    /\ UNCHANGED <<archive, start, pos, kept, via>>

NotFound ==
    /\ Scanning
    /\ pos >= archive.end
    /\ phase = "tail" => start <= archive.origin
    /\ phase' = "missing"
    /\ UNCHANGED <<archive, start, pos, kept, via>>

\* Any stream operation may fail; `?` ends the search.
ReadFails ==
    /\ phase \notin Ended
    /\ phase' = "ioError"
    /\ UNCHANGED <<archive, start, pos, kept, via>>

Search ==
    \/ TooShort
    \/ StartTail
    \/ \E n \in ReadSizes : FindEscape(n) \/ FindLabel(n) \/ KeepOverlap(n)
    \/ FallBack
    \/ NotFound

Next == Search \/ ReadFails

Spec == Init /\ [][Next]_vars

-----------------------------------------------------------------------------
\* Where open() starts to parse: past the label, which the scan has consumed
\* only when the label is what it found.
EntryStart == IF via THEN pos + LABEL_LEN ELSE pos

(***************************************************************************)
(* Types and the arithmetic of the loop: the reader stays in the file and  *)
(* buf_base never falls before the window, so that the unsigned            *)
(* subtraction chunk_file_pos - overlap_len cannot wrap.                   *)
(***************************************************************************)
TypeOK ==
    /\ archive \in Archives
    /\ phase \in {"locate", "tail", "full"} \cup Ended
    /\ start \in Nat
    /\ pos \in Nat
    /\ kept \in 0..OVERLAP
    /\ via \in BOOLEAN
    /\ Scanning => archive.origin <= start /\ start + kept <= pos /\ pos <= archive.end

(***************************************************************************)
(* While a window is scanned, no marker lies wholly in the part already    *)
(* read, however the reads cut the file into chunks: a marker across two   *)
(* (or, with short reads, many) chunks is not lost.                        *)
(***************************************************************************)
NoMarkerPassed ==
    Scanning =>
        /\ Within(archive.escapes, SEQT_LEN, start, pos) = {}
        /\ useLabel => Within(archive.labels, LABEL_LEN, start, pos) = {}

(***************************************************************************)
(* "seqt_catalogue not found" is reported only for an archive whose whole  *)
(* body holds no marker, also when the tail window cut one in two.         *)
(***************************************************************************)
MissingOnlyIfAbsent ==
    phase = "missing" =>
        /\ Within(archive.escapes, SEQT_LEN, archive.origin, archive.end) = {}
        /\ useLabel =>
              Within(archive.labels, LABEL_LEN, archive.origin, archive.end) = {}

(***************************************************************************)
(* What dar writes: in the body, the escape and the label occur only where *)
(* the catalogue begins, so the entries follow them.                       *)
(***************************************************************************)
CatalogueLayout ==
    \A a \in Archives :
        /\ \A e \in a.escapes :
              a.origin <= e => e + SEQT_LEN + LABEL_LEN = a.entries
        /\ \A l \in a.labels :
              a.origin <= l /\ ~a.zeroLabel => l + LABEL_LEN = a.entries

(***************************************************************************)
(* The markers are structural: what the scan finds is the catalogue, so    *)
(* the entries are parsed from where they begin.  In particular a tail     *)
(* window that begins inside the escape finds the label instead, and the   *)
(* parse starts at the same place; and the label in the slice header,      *)
(* before the body, is never taken for the catalogue's.                    *)
(***************************************************************************)
LocatesCatalogue == phase = "found" => EntryStart = archive.entries
=============================================================================
