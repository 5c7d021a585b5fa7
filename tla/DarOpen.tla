------------------------------- MODULE DarOpen -------------------------------
(***************************************************************************)
(* DarReader::open, from the magic to the call of parse_catalog.  It reads *)
(* the slice header and its TLV list, the archive's version, codec and     *)
(* block size, finds the catalogue (CatalogueScan from format 8 on, the    *)
(* terminateur before), inflates it if it is compressed, and skips the     *)
(* label and the path that stand before the entries.  Whether each of      *)
(* these is there depends on the format, on tape marks and on the codec.   *)
(*                                                                         *)
(* The version, the codec and the block size are read with best effort: a  *)
(* field that cannot be read has a default, also when the stream failed.   *)
(***************************************************************************)
EXTENDS CatalogueScan, Terminateur

CONSTANTS
    Files,           \* the archives opened, see FileFields
    Labels,          \* the labels that occur
    ZeroLabel,       \* the label of ten zero bytes
    FORMAT_11_1,     \* the first version with a path before the entries
    PATH_LEN,        \* the length of that path
    MAX_BLOCK_SIZE,  \* the largest compression block accepted
    None,            \* an absent label or an unreadable version
    NoArchive        \* the scan's archive before there is one

\* A version is major * 256 + fix; u32::MAX when it cannot be read.
NEWEST == 2 ^ 30
Letters == {"n", "z", "q", "?"}
is_compressed(algo) == algo \in {"z", "q"}
always_block(algo) == algo = "q"

(***************************************************************************)
(* An archive: its header, and how dar wrote the rest.  labels says where  *)
(* each label occurs in the body, `entries` where the entries begin, or    *)
(* before format 11.1 would begin without a path; the catalogue of a       *)
(* compressed archive is one codec stream, or blocks.  genuine is false of *)
(* an archive that is cut or damaged.                                      *)
(***************************************************************************)
FileFields ==
    [magic : BOOLEAN, extension : {"T", "N", "S", "?"}, internal_name : Labels,
     tlvs : Seq([type : Nat, len : Nat, value : Labels]),
     version : Nat \cup {None}, comp : Letters,
     flags : SUBSET {"initial_offset", "compress_bs", "complex"}, block_size : Nat,
     blocks : BOOLEAN, origin : Nat, end : Nat, escapes : SUBSET Nat,
     labels : [Labels -> SUBSET Nat], entries : Nat, bytes : Seq(0..255),
     infinint : Nat \cup {None}, genuine : BOOLEAN]

\* The archive as the scan sees it when it looks for this label.
View(f, label) ==
    [origin |-> f.origin, end |-> f.end, escapes |-> f.escapes,
     labels |-> f.labels[label], zeroLabel |-> label = ZeroLabel, entries |-> f.entries]

ASSUME OpenConstants ==
    /\ Files \subseteq FileFields
    /\ {View(f, label) : f \in Files, label \in Labels} \cup {NoArchive} \subseteq Archives
    /\ FORMAT_11_1 \in 0..NEWEST
    /\ None \notin Labels

VARIABLES
    file,          \* the archive being opened
    stage,         \* what open() does next, or how it ended
    error,         \* the DarError it ended with
    tlv,           \* how many TLVs have been read
    data_name,     \* data_name: None or a label
    format_value,  \* format_value
    global_comp,   \* global_comp
    compr_bs,      \* compr_bs
    source,        \* what the catalogue is parsed from: "raw" or "inflated"
    at,            \* the position there
    degraded       \* history: the stream failed in a read with best effort

header == <<tlv, data_name, format_value, global_comp, compr_bs, degraded>>
catalogue == <<source, at>>
openVars == <<file, stage, error, header, catalogue>>

Fail(e) ==
    /\ stage' = "failed"
    /\ error' = e
    /\ UNCHANGED <<file, header, catalogue, vars>>

Proceed(next) == stage' = next /\ UNCHANGED <<file, error>>

-----------------------------------------------------------------------------
OpenInit ==
    /\ file \in Files
    /\ stage = "header"
    /\ error = "none"
    /\ tlv = 0
    /\ data_name = None
    /\ format_value = 0
    /\ global_comp = "n"
    /\ compr_bs = 0
    /\ source = "raw"
    /\ at = 0
    /\ degraded = FALSE
    /\ archive = NoArchive
    /\ phase = "locate"
    /\ start = 0
    /\ pos = 0
    /\ kept = 0
    /\ via = FALSE

ReadHeader ==
    /\ stage = "header"
    /\ \/ /\ file.magic /\ file.extension = "T"
          /\ Proceed("tlvs")
          /\ UNCHANGED <<header, catalogue, vars>>
       \/ /\ file.magic /\ file.extension \in {"N", "S"}
          /\ Proceed("edition")
          /\ UNCHANGED <<header, catalogue, vars>>
       \/ ~file.magic /\ Fail("NotADar")
       \/ file.magic /\ file.extension = "?" /\ Fail("Corrupt")

\* Of the TLVs the data_name is kept, the others are skipped.
ReadTlv ==
    /\ stage = "tlvs"
    /\ tlv < Len(file.tlvs)
    /\ LET t == file.tlvs[tlv + 1] IN
       data_name' = IF t.type = 3 /\ t.len = 10 THEN t.value ELSE data_name
    /\ tlv' = tlv + 1
    /\ UNCHANGED <<file, stage, error, format_value, global_comp, compr_bs, degraded,
                   catalogue, vars>>

\* Faulty: the label searched for is always the slice's own.
label_OfSlice == file.internal_name

\* The label searched for.
label == IF data_name = None THEN file.internal_name ELSE data_name

\* read_format_value and the codec letter.
read_format_value(f) == IF f.version = None THEN NEWEST ELSE f.version
ReadVersion(intact) ==
    /\ format_value' = IF "version" \in intact THEN read_format_value(file) ELSE NEWEST
    /\ global_comp' = IF "comp" \in intact THEN file.comp ELSE "n"

\* The field is there when flagged, behind an initial offset that is skipped,
\* unless others come before it that are not parsed.
read_compr_bs(f, version) ==
    IF \/ version \div 256 < 2
       \/ "complex" \in f.flags
       \/ "compress_bs" \notin f.flags
       \/ f.block_size > MAX_BLOCK_SIZE
    THEN 0 ELSE f.block_size

BestEffort == {"version", "comp", "block size"}

\* The archive's header; then back to the origin, where the search begins.
ReadArchiveHeader ==
    /\ stage = "tlvs"
    /\ tlv = Len(file.tlvs)
    /\ \E intact \in SUBSET BestEffort :
          /\ ReadVersion(intact)
          /\ compr_bs' =
                IF "block size" \in intact THEN read_compr_bs(file, format_value') ELSE 0
          /\ degraded' = (intact # BestEffort)
    /\ archive' = View(file, label)
    /\ start' = file.origin
    /\ pos' = file.origin
    /\ Proceed("scan")
    /\ UNCHANGED <<tlv, data_name, catalogue, phase, kept, via>>

FindCatalogue ==
    /\ stage = "scan"
    /\ Search
    /\ UNCHANGED openVars

\* Behind the escape stands the catalogue, label first; behind the label, the
\* rest of it.
Found ==
    /\ stage = "scan"
    /\ phase = "found"
    /\ at' = pos
    /\ Proceed(IF via /\ is_compressed(global_comp) THEN "inflate" ELSE "label")
    /\ UNCHANGED <<header, source, vars>>

NotLocated ==
    /\ stage = "scan"
    /\ \/ phase \in {"missing", "tooShort"} /\ Fail("Corrupt")
       \/ phase = "ioError" /\ Fail("Io")

\* inflate_catalogue: decode_data takes blocks for blocks only if it knows.
Decodes == file.blocks <=> (compr_bs > 0 \/ always_block(global_comp))
Inflate ==
    /\ stage = "inflate"
    /\ \/ /\ Decodes
          /\ source' = "inflated"
          /\ at' = 0
          /\ Proceed(IF file.extension = "T" THEN "label" ELSE "parse")
          /\ UNCHANGED <<header, vars>>
       \/ ~Decodes /\ Fail("Corrupt")

\* Faulty: the label is skipped although the scan has consumed it.
SkipLabel_Always ==
    /\ stage = "label"
    /\ at' = at + LABEL_LEN
    /\ Proceed("path")
    /\ UNCHANGED <<header, source, vars>>

SkipLabel ==
    /\ stage = "label"
    /\ at' = IF via THEN at + LABEL_LEN ELSE at
    /\ Proceed("path")
    /\ UNCHANGED <<header, source, vars>>

SkipPath ==
    /\ stage = "path"
    /\ at' = IF format_value >= FORMAT_11_1 THEN at + PATH_LEN ELSE at
    /\ Proceed("parse")
    /\ UNCHANGED <<header, source, vars>>

\* Format 7 and earlier: no TLVs and no block size.
ReadEdition ==
    /\ stage = "edition"
    /\ \E intact \in SUBSET {"version", "comp"} :
          /\ ReadVersion(intact)
          /\ degraded' = (intact # {"version", "comp"})
    /\ Proceed("terminateur")
    /\ UNCHANGED <<tlv, data_name, compr_bs, catalogue, vars>>

cat_start == file.origin + read_terminateur(file.bytes).value
ReadTerminateur ==
    /\ stage = "terminateur"
    /\ \/ /\ read_terminateur(file.bytes).result = "ok"
          /\ cat_start < Len(file.bytes)
          /\ at' = cat_start
          /\ Proceed(IF is_compressed(global_comp) THEN "inflate" ELSE "parse")
          /\ UNCHANGED <<header, source, vars>>
       \/ /\ read_terminateur(file.bytes).result = "ok"
          /\ cat_start >= Len(file.bytes)
          /\ Fail("Corrupt")
       \/ read_terminateur(file.bytes).result = "corrupt" /\ Fail("Corrupt")
       \/ read_terminateur(file.bytes).result = "io" /\ Fail("Io")

\* parse_catalog, which is Catalogue's.
Parse ==
    /\ stage = "parse"
    /\ Proceed("open")
    /\ UNCHANGED <<header, catalogue, vars>>

\* What is read of a damaged archive may be a number that does not fit, a
\* string without an end or a stream that does not decode.
Refuse ==
    /\ stage \in {"tlvs", "edition", "inflate", "path", "parse"}
    /\ ~file.genuine
    /\ Fail("Corrupt")

\* The stream fails; in the magic and the TLV count the error says so.
StreamFails ==
    \/ stage = "header" /\ \E e \in {"NotADar", "Io"} : Fail(e)
    \/ stage = "tlvs" /\ tlv = 0 /\ Fail("TruncatedTlvs")
    \/ /\ stage \in {"tlvs", "inflate", "label", "path", "edition", "terminateur", "parse"}
       /\ Fail("Io")
    \/ stage = "scan" /\ ReadFails /\ UNCHANGED openVars

Step ==
    \/ ReadHeader \/ ReadTlv \/ ReadArchiveHeader
    \/ FindCatalogue \/ Found \/ NotLocated
    \/ Inflate \/ SkipLabel \/ SkipPath
    \/ ReadEdition \/ ReadTerminateur
    \/ Parse \/ Refuse

OpenNext == Step \/ StreamFails

OpenSpec == OpenInit /\ [][OpenNext]_<<openVars, vars>>

\* open() is a sequential function: it takes its next step.
FairOpen == OpenSpec /\ WF_<<openVars, vars>>(Step)
-----------------------------------------------------------------------------
(***************************************************************************)
(* A genuine archive as dar writes it.  From format 8 on the catalogue is  *)
(* marked by the escape, by the label, the last data_name if there is one, *)
(* or, compressed and without tape marks, by neither; of a compressed one  *)
(* no label shows, and its blocks are recorded in the header if its codec  *)
(* has a form without.  Before format 8 the infinint is the offset of the  *)
(* catalogue.                                                              *)
(***************************************************************************)
Names(f) == {i \in DOMAIN f.tlvs : f.tlvs[i].type = 3 /\ f.tlvs[i].len = 10}
written_label(f) ==
    IF Names(f) = {} THEN f.internal_name
    ELSE f.tlvs[CHOOSE i \in Names(f) : \A j \in Names(f) : j <= i].value
Marked(f) ==
    \/ Within(f.escapes, SEQT_LEN, f.origin, f.end) # {}
    \/ /\ written_label(f) # ZeroLabel
       /\ Within(f.labels[written_label(f)], LABEL_LEN, f.origin, f.end) # {}

TapeLayout(f) ==
    /\ f.origin < f.end
    /\ Marked(f) \/ (f.escapes = {} /\ is_compressed(f.comp))
    /\ is_compressed(f.comp) =>
        /\ \A l \in Labels : \A p \in f.labels[l] : p < f.origin
        /\ f.blocks <=> \/ read_compr_bs(f, read_format_value(f)) > 0
                       \/ always_block(f.comp)
LegacyLayout(f) ==
    /\ read_terminateur(f.bytes).result = "ok"
    /\ f.origin + read_terminateur(f.bytes).value = f.entries
    /\ f.entries < Len(f.bytes)
    /\ f.blocks = always_block(f.comp)

GenuineLayout ==
    \A f \in Files : f.genuine =>
        /\ f.extension \in {"T", "N", "S"}
        /\ IF f.extension = "T" THEN TapeLayout(f) ELSE LegacyLayout(f)

\* Where its offset is known, the infinint is the first byte of the trailer,
\* in any number of groups but 7: the writer puts 8 bits behind a zero byte.
InfinintLayout ==
    \A f \in Files : f.infinint # None =>
        LET n == f.entries - f.origin IN
        \E wide \in (1..8) \ {7} :
            /\ groups(n) \in 1..wide
            /\ f.infinint <= Len(f.bytes)
            /\ SubSeq(f.bytes, f.infinint + 1, Len(f.bytes)) = WrittenTerminateur(n, wide)

(***************************************************************************)
(* However an archive was written (re-sliced or not, tape marks on or off, *)
(* compressed as a stream, in blocks or not at all, in any format), the    *)
(* parse begins at its first entry, in the right stream, and knows its     *)
(* format and codec: unless a read with best effort failed on the way, and *)
(* a default took its place.                                               *)
(***************************************************************************)
LegacyFile == file.extension \in {"N", "S"}
plaintext == IF is_compressed(file.comp) THEN "inflated" ELSE "raw"
first_entry ==
    (CASE plaintext = "raw" -> file.entries
       [] plaintext = "inflated" /\ LegacyFile -> 0
       [] OTHER -> LABEL_LEN)
    + (IF ~LegacyFile /\ read_format_value(file) >= FORMAT_11_1 THEN PATH_LEN ELSE 0)

ParsesTheEntries ==
    stage = "open" /\ ~degraded /\ file.genuine =>
        /\ source = plaintext
        /\ at = first_entry
        /\ format_value = read_format_value(file)
        /\ global_comp = file.comp

(***************************************************************************)
(* No genuine archive is refused: open() fails on one only when the stream *)
(* does, or when tape marks are off and the archive is compressed.  Then   *)
(* the label is inside the codec stream, the escape is absent, and nothing *)
(* marks the catalogue (the terminateur, which would, is not read), though *)
(* README.md:105 has tape marks on or off both supported.                  *)
(***************************************************************************)
Unmarked == file.escapes = {} /\ is_compressed(file.comp) /\ ~LegacyFile

GenuineOpens ==
    stage = "failed" /\ error = "Corrupt" /\ file.genuine =>
        degraded \/ Unmarked

(***************************************************************************)
(* The terminateur's bits lead back to the infinint that dar wrote, for    *)
(* every width of it and of the filling behind it, also when the bits do   *)
(* not fit one byte.                                                       *)
(***************************************************************************)
LocatesInfinint ==
    LegacyFile /\ file.infinint # None => infinint_start(file.bytes) = file.infinint

(***************************************************************************)
(* open() ends: it returns a reader or an error.                           *)
(***************************************************************************)
OpenEnds == <>(stage \in {"open", "failed"})
=============================================================================
