------------------------------ MODULE MCDarOpen ------------------------------
(***************************************************************************)
(* Small archives for DarOpen.  The escape is 2 bytes, the label 3, the    *)
(* overlap 2, so that both markers can straddle chunks and the tail window *)
(* can begin before, inside and after each of them.  One sweep places the  *)
(* markers, one varies the header, one is of format 7 and earlier.         *)
(***************************************************************************)
EXTENDS DarOpen

CONSTANTS MaxEnd   \* the longest archive

\* Bytes of the slice header before the body; it holds the slice's label.
HEADER == LABEL_LEN
Ends == (HEADER + 1)..MaxEnd
NoLabels == [l \in Labels |-> {}]
Version(major, fix) == major * 256 + fix

Template ==
    [magic |-> TRUE, extension |-> "T", internal_name |-> "A", tlvs |-> << >>,
     version |-> Version(11, 3), comp |-> "n", flags |-> {}, block_size |-> 0,
     blocks |-> FALSE, origin |-> HEADER, end |-> MaxEnd, escapes |-> {},
     labels |-> NoLabels, entries |-> 0, bytes |-> << >>, infinint |-> None,
     genuine |-> TRUE]

\* A catalogue at position p: escape, label, entries, of which an archive
\* without tape marks has no escape, and a compressed one no visible label.
\* Markers past the end are those of a truncated file.
WithCatalogue(f, p, tapeMarks, name) ==
    LET l == IF tapeMarks THEN p + SEQT_LEN ELSE p
        shown == IF is_compressed(f.comp) THEN {} ELSE Within({l}, LABEL_LEN, 0, f.end) IN
    [f EXCEPT !.escapes = IF tapeMarks THEN Within({p}, SEQT_LEN, 0, f.end) ELSE {},
              !.labels = [NoLabels EXCEPT ![f.internal_name] = {0},
                                          ![name] = @ \cup shown],
              !.entries = l + LABEL_LEN,
              !.genuine = f.end >= l + LABEL_LEN]

Placements ==
    {WithCatalogue([Template EXCEPT !.end = end, !.comp = comp], p, tapeMarks, "A") :
        end \in Ends, comp \in {"n", "z"}, p \in HEADER..(MaxEnd - 1), tapeMarks \in BOOLEAN}

\* An all-zero label in a zero-padded body.
ZeroPadded ==
    {[WithCatalogue([Template EXCEPT !.end = end, !.internal_name = ZeroLabel],
                    p, tapeMarks, ZeroLabel)
        EXCEPT !.labels[ZeroLabel] = HEADER..(end - LABEL_LEN), !.genuine = tapeMarks /\ @] :
        end \in Ends, p \in {HEADER, HEADER + 4}, tapeMarks \in BOOLEAN}

NoBody == {[Template EXCEPT !.end = HEADER, !.genuine = FALSE]}

\* The slice's label and the archive's: equal, or not after re-slicing, or in a
\* TLV of the wrong length, among others.
Tlv(type, len, value) == [type |-> type, len |-> len, value |-> value]
TlvLists == {<< >>, <<Tlv(3, 10, "A")>>, <<Tlv(3, 10, "B")>>, <<Tlv(3, 9, "B")>>,
             <<Tlv(1, 10, "A"), Tlv(3, 10, "B")>>, <<Tlv(3, 10, "B"), Tlv(2, 4, "A")>>}
LastName(tlvs) ==
    IF \E i \in DOMAIN tlvs : tlvs[i].type = 3 /\ tlvs[i].len = 10 /\ tlvs[i].value = "B"
    THEN "B" ELSE "A"

Versions == {Version(8, 1), Version(9, 0), Version(10, 1), Version(11, 0), Version(11, 1),
             Version(11, 3), None}

Named ==
    {WithCatalogue([Template EXCEPT !.tlvs = tlvs, !.version = version], HEADER + 2,
                   tapeMarks, LastName(tlvs)) :
        tlvs \in TlvLists, version \in Versions, tapeMarks \in BOOLEAN}

\* What a compressed archive records of its block size.
Codecs ==
    {[comp |-> comp, flags |-> flags, block_size |-> bs,
      blocks |-> comp = "q" \/ (comp = "z" /\ "compress_bs" \in flags)] :
        comp \in Letters, flags \in SUBSET {"initial_offset", "compress_bs", "complex"},
        bs \in {1, MAX_BLOCK_SIZE + 1}}
Coded ==
    {LET f == WithCatalogue([Template EXCEPT !.comp = c.comp, !.flags = c.flags,
                                 !.block_size = c.block_size, !.blocks = c.blocks,
                                 !.version = version], HEADER + 2, TRUE, "A") IN
     [f EXCEPT !.genuine = @ /\ c.block_size <= MAX_BLOCK_SIZE
                             /\ ~({"complex", "compress_bs"} \subseteq c.flags)] :
        c \in Codecs, version \in {Version(10, 1), Version(11, 3)}}

\* Format 7 and earlier: a body of n bytes, the catalogue, the terminateur.
Legacy(f, n, wide) ==
    LET trailer == WrittenTerminateur(n, wide)
        bytes == [i \in 1..(HEADER + n + 1) |-> 1] \o trailer IN
    [f EXCEPT !.bytes = bytes, !.end = Len(bytes), !.entries = HEADER + n,
              !.infinint = HEADER + n + 1, !.genuine = wide <= 2]
\* A terminateur of 8 bits is written behind a byte of zeros, which is refused.
LegacyWritten ==
    {Legacy([Template EXCEPT !.extension = extension, !.version = Version(major, 0),
                             !.comp = comp], n, wide) :
        extension \in {"N", "S"}, major \in {1, 7}, comp \in {"n", "z"}, n \in {0, 1, 40},
        wide \in (1..6) \cup {8}}
LegacyDamaged ==
    {LET f == Legacy([Template EXCEPT !.extension = "N"], 1, wide) IN
     [f EXCEPT !.bytes[Len(f.bytes) - i] = b, !.infinint = None, !.genuine = FALSE] :
        i \in 0..4, wide \in {1, 2}, b \in {0, 1, 64, 127, 128, 160, 252, 254, 255}}
LegacyCut ==
    {[Template EXCEPT !.extension = "N", !.bytes = bytes, !.genuine = FALSE] :
        bytes \in {<< >>, <<255>>, <<255, 255>>, <<1, 192>>, <<64, 1, 192>>,
                   <<1, 254>>, <<1, 255, 255, 255>>}}

Strange == {[Template EXCEPT !.magic = FALSE, !.genuine = FALSE],
            [Template EXCEPT !.extension = "?", !.genuine = FALSE]}

MCFiles == Placements \cup ZeroPadded \cup NoBody \cup Named \cup Coded
               \cup LegacyWritten \cup LegacyDamaged \cup LegacyCut \cup Strange

MCNoArchive == [origin |-> 0, end |-> 0, escapes |-> {}, labels |-> {}, zeroLabel |-> TRUE,
                entries |-> 0]
MCArchives == {View(f, l) : f \in MCFiles, l \in Labels} \cup {MCNoArchive}

\* The archives of the run satisfy the premises of the theorems on open().
ASSUME ArchivesAreLaidOut == CatalogueLayout
ASSUME FilesAreLaidOut == GenuineLayout
ASSUME TrailersAreWritten == InfinintLayout
=============================================================================
