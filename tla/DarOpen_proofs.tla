--------------------------- MODULE DarOpen_proofs ---------------------------
(***************************************************************************)
(* For every chunk size, every pattern of short reads and every archive:   *)
(* as long as OVERLAP is at least the longer marker less one byte, the     *)
(* scan passes no marker and reports a missing catalogue only when there   *)
(* is none.  The same holds of the search that open() starts, and the      *)
(* stages before and after it lead to the first entry: for archives of     *)
(* every size and layout, every list of TLVs, version and codec, however   *)
(* short the reads are and wherever they fail.                             *)
(***************************************************************************)
EXTENDS DarOpen, SequenceTheorems, TLAPS

(***************************************************************************)
(* What makes NoMarkerPassed inductive: the buffer still holds the last    *)
(* OVERLAP bytes of the window, or all of it, and the second window is the *)
(* whole body.                                                             *)
(***************************************************************************)
OverlapHeld ==
    Scanning => kept = Lesser(OVERLAP, pos - start)

Inv ==
    /\ TypeOK
    /\ OverlapHeld
    /\ phase = "locate" => kept = 0
    /\ phase = "full" => start = archive.origin
    /\ NoMarkerPassed
    /\ MissingOnlyIfAbsent

USE ScanConstants DEF ScanAssumption

LEMMA ArchiveFields ==
    ASSUME NEW a \in Archives
    PROVE  /\ a.origin \in Nat
           /\ a.end \in Nat
           /\ a.escapes \in SUBSET Nat
           /\ a.labels \in SUBSET Nat
OBVIOUS

LEMMA InitInv == Init => Inv
<1> SUFFICES ASSUME Init PROVE Inv
  OBVIOUS
<1>1. /\ archive \in Archives
      /\ phase = "locate"
      /\ start = archive.origin
      /\ pos = archive.origin
      /\ kept = 0
      /\ via = FALSE
  BY DEF Init
<1>2. archive.origin \in Nat
  BY <1>1, ArchiveFields
<1>3. TypeOK
  <2>1. kept \in 0..OVERLAP
    BY <1>1
  <2>2. ~Scanning
    BY <1>1 DEF Scanning
  <2>3. QED
    BY <1>1, <1>2, <2>1, <2>2 DEF TypeOK
<1>4. QED
  BY <1>1, <1>3 DEF Inv, OverlapHeld, NoMarkerPassed, MissingOnlyIfAbsent, Scanning

(***************************************************************************)
(* A marker no longer than OVERLAP + 1 bytes that lies in what has been    *)
(* read after this step, and did not before it, lies in the buffer.        *)
(***************************************************************************)
LEMMA OverlapSuffices ==
    ASSUME NEW markers \in SUBSET Nat, NEW len \in Nat \ {0}, len <= OVERLAP + 1,
           NEW s \in Nat, NEW p \in Nat, NEW n \in Nat, NEW k \in Nat,
           s <= p, k = Lesser(OVERLAP, p - s),
           Within(markers, len, s, p) = {},
           Within(markers, len, p - k, p + n) = {}
    PROVE  Within(markers, len, s, p + n) = {}
<1>1. SUFFICES ASSUME NEW i \in markers, s <= i, i + len <= p + n
               PROVE  FALSE
  BY DEF Within
<1>2. i \in Nat
  OBVIOUS
<1>3. CASE i + len <= p
  BY <1>1, <1>3 DEF Within
<1>4. CASE i + len > p
  <2>1. p - k <= i
    BY <1>1, <1>2, <1>4 DEF Lesser
  <2>2. QED
    BY <1>1, <2>1 DEF Within
<1>5. QED
  BY <1>2, <1>3, <1>4

(***************************************************************************)
(* Every step of the search preserves the invariant, one step per action.  *)
(***************************************************************************)
LEMMA StepInv == Inv /\ [Next]_vars => Inv'
<1> SUFFICES ASSUME Inv, [Next]_vars
             PROVE  Inv'
  OBVIOUS
<1> USE DEF Inv, TypeOK, Scanning, Ended
<1>a. /\ archive.origin \in Nat
      /\ archive.end \in Nat
      /\ archive.escapes \in SUBSET Nat
      /\ archive.labels \in SUBSET Nat
  BY ArchiveFields
<1>1. CASE TooShort
  BY <1>1 DEF TooShort, OverlapHeld, NoMarkerPassed, MissingOnlyIfAbsent
<1>2. CASE StartTail
  <2>1. tail_start \in Nat /\ archive.origin <= tail_start /\ tail_start <= archive.end
    BY <1>2, <1>a DEF StartTail, tail_start, Greater
  <2>2. TypeOK' /\ OverlapHeld' /\ (phase' = "locate" => kept' = 0)
    BY <1>2, <2>1 DEF StartTail, OverlapHeld, Lesser
  <2>3. NoMarkerPassed'
    BY <1>2, <1>a, <2>1 DEF StartTail, NoMarkerPassed, Within
  <2>4. QED
    BY <1>2, <2>2, <2>3 DEF StartTail, MissingOnlyIfAbsent
<1>3. ASSUME NEW n \in ReadSizes, FindEscape(n)
      PROVE  Inv'
  BY <1>3, <1>a DEF FindEscape, EscapesSeen, Within, IsFirst,
                    OverlapHeld, NoMarkerPassed, MissingOnlyIfAbsent
<1>4. ASSUME NEW n \in ReadSizes, FindLabel(n)
      PROVE  Inv'
  <2>1. PICK i \in LabelsSeen(n) : pos' = i + LABEL_LEN
    BY <1>4 DEF FindLabel
  <2>2. pos' \in Nat
    BY <2>1, <1>a DEF LabelsSeen, Within
  <2>3. QED
    BY <1>4, <2>2 DEF FindLabel, OverlapHeld, NoMarkerPassed, MissingOnlyIfAbsent
<1>5. ASSUME NEW n \in ReadSizes, KeepOverlap(n)
      PROVE  Inv'
  <2>1. n \in Nat \ {0} /\ pos + n <= archive.end
    BY <1>5, <1>a DEF ReadSizes, Lesser
  <2>2. TypeOK' /\ OverlapHeld'
    BY <1>5, <1>a, <2>1 DEF KeepOverlap, OverlapHeld, Lesser
  <2>a. start <= pos /\ kept = Lesser(OVERLAP, pos - start) /\ kept \in Nat
    BY <1>5 DEF KeepOverlap, OverlapHeld
  <2>3. Within(archive.escapes, SEQT_LEN, start, pos + n) = {}
    <3>1. /\ Within(archive.escapes, SEQT_LEN, start, pos) = {}
          /\ Within(archive.escapes, SEQT_LEN, pos - kept, pos + n) = {}
      BY <1>5 DEF KeepOverlap, EscapesSeen, buf_base, NoMarkerPassed
    <3> HIDE DEF Inv, TypeOK
    <3>2. start \in Nat /\ pos \in Nat
      BY DEF Inv, TypeOK
    <3>3. QED
      BY <1>a, <2>1, <2>a, <3>1, <3>2, OverlapSuffices
  <2>4. ASSUME useLabel
        PROVE  Within(archive.labels, LABEL_LEN, start, pos + n) = {}
    <3>1. /\ Within(archive.labels, LABEL_LEN, start, pos) = {}
          /\ Within(archive.labels, LABEL_LEN, pos - kept, pos + n) = {}
      BY <1>5, <2>4 DEF KeepOverlap, LabelsSeen, buf_base, NoMarkerPassed
    <3> HIDE DEF Inv, TypeOK
    <3>2. start \in Nat /\ pos \in Nat
      BY DEF Inv, TypeOK
    <3>3. QED
      BY <1>a, <2>1, <2>a, <3>1, <3>2, OverlapSuffices
  <2>5. NoMarkerPassed'
    BY <1>5, <2>3, <2>4 DEF KeepOverlap, NoMarkerPassed, useLabel
  <2>6. QED
    BY <1>5, <2>2, <2>5 DEF KeepOverlap, MissingOnlyIfAbsent
<1>6. CASE FallBack
  <2>1. TypeOK' /\ OverlapHeld'
    BY <1>6, <1>a DEF FallBack, OverlapHeld, Lesser
  <2>2. NoMarkerPassed'
    BY <1>6, <1>a DEF FallBack, NoMarkerPassed, Within
  <2>3. QED
    BY <1>6, <2>1, <2>2 DEF FallBack, MissingOnlyIfAbsent
<1>7. CASE NotFound
  <2>1. pos = archive.end /\ start = archive.origin
    BY <1>7, <1>a DEF NotFound
  <2>2. MissingOnlyIfAbsent'
    BY <1>7, <2>1 DEF NotFound, MissingOnlyIfAbsent, NoMarkerPassed, useLabel
  <2>3. QED
    BY <1>7, <2>2 DEF NotFound, OverlapHeld, NoMarkerPassed
<1>8. CASE ReadFails
  BY <1>8 DEF ReadFails, OverlapHeld, NoMarkerPassed, MissingOnlyIfAbsent
<1>9. CASE UNCHANGED vars
  BY <1>9 DEF vars, OverlapHeld, NoMarkerPassed, MissingOnlyIfAbsent, useLabel
<1>10. QED
  BY <1>1, <1>2, <1>3, <1>4, <1>5, <1>6, <1>7, <1>8, <1>9 DEF Next, Search

LEMMA SpecInv == Spec => []Inv
BY InitInv, StepInv, PTL DEF Spec

(***************************************************************************)
(* The reader stays inside the body, and chunk_file_pos - overlap_len      *)
(* never wraps.                                                            *)
(***************************************************************************)
THEOREM TypeCorrect == Spec => []TypeOK
<1>1. Inv => TypeOK
  BY DEF Inv
<1>2. QED
  BY SpecInv, <1>1, PTL

(***************************************************************************)
(* scan_window passes no marker, for every chunking.                       *)
(***************************************************************************)
THEOREM ScanPassesNoMarker == Spec => []NoMarkerPassed
<1>1. Inv => NoMarkerPassed
  BY DEF Inv
<1>2. QED
  BY SpecInv, <1>1, PTL

(***************************************************************************)
(* find_catalogue reports a missing catalogue only when there is none.     *)
(***************************************************************************)
THEOREM MissingIsAbsent == Spec => []MissingOnlyIfAbsent
<1>1. Inv => MissingOnlyIfAbsent
  BY DEF Inv
<1>2. QED
  BY SpecInv, <1>1, PTL

(***************************************************************************)
(* Where a marker is found, the entries begin.                             *)
(***************************************************************************)
LEMMA LocatesStep ==
    ASSUME CatalogueLayout
    PROVE  Inv /\ LocatesCatalogue /\ [Next]_vars => LocatesCatalogue'
<1> SUFFICES ASSUME Inv, LocatesCatalogue, [Next]_vars
             PROVE  LocatesCatalogue'
  OBVIOUS
<1>a. /\ archive \in Archives
      /\ archive.origin \in Nat
      /\ archive.escapes \in SUBSET Nat
      /\ archive.labels \in SUBSET Nat
      /\ Scanning => archive.origin <= pos - kept
      /\ kept \in Nat /\ pos \in Nat /\ start \in Nat
  BY ArchiveFields DEF Inv, TypeOK
<1>1. ASSUME NEW n \in ReadSizes, FindEscape(n)
      PROVE  LocatesCatalogue'
  <2>1. PICK i \in EscapesSeen(n) : pos' = i + SEQT_LEN
    BY <1>1 DEF FindEscape
  <2>2. /\ i \in archive.escapes
        /\ i \in Nat
        /\ archive.origin <= i
    BY <1>1, <1>a, <2>1 DEF FindEscape, EscapesSeen, Within, buf_base
  <2>3. pos' + LABEL_LEN = archive.entries
    BY <1>a, <2>1, <2>2, CatalogueLayout DEF CatalogueLayout
  <2>4. QED
    BY <1>1, <2>3 DEF FindEscape, LocatesCatalogue, EntryStart
<1>2. ASSUME NEW n \in ReadSizes, FindLabel(n)
      PROVE  LocatesCatalogue'
  <2>1. PICK i \in LabelsSeen(n) : pos' = i + LABEL_LEN
    BY <1>2 DEF FindLabel
  <2>2. /\ i \in archive.labels
        /\ i \in Nat
        /\ archive.origin <= i
        /\ ~archive.zeroLabel
    BY <1>2, <1>a, <2>1 DEF FindLabel, LabelsSeen, useLabel, Within, buf_base
  <2>3. pos' = archive.entries
    BY <1>a, <2>1, <2>2, CatalogueLayout DEF CatalogueLayout
  <2>4. QED
    BY <1>2, <2>3 DEF FindLabel, LocatesCatalogue, EntryStart
<1>3. CASE phase' # "found"
  BY <1>3 DEF LocatesCatalogue
<1>4. CASE UNCHANGED vars
  BY <1>4 DEF vars, LocatesCatalogue, EntryStart
<1>5. QED
  BY <1>1, <1>2, <1>3, <1>4
  DEF Next, Search, TooShort, StartTail, KeepOverlap, FallBack, NotFound,
      ReadFails, Scanning

(***************************************************************************)
(* A label that the scan has found is one of the archive's, in its body.   *)
(***************************************************************************)
LabelIsSeen ==
    phase = "found" /\ ~via =>
        ~archive.zeroLabel /\ \E l \in archive.labels : archive.origin <= l

LEMMA LabelStep == Inv /\ LabelIsSeen /\ [Next]_vars => LabelIsSeen'
<1> SUFFICES ASSUME Inv, LabelIsSeen, [Next]_vars
             PROVE  LabelIsSeen'
  OBVIOUS
<1>a. /\ archive.origin \in Nat
      /\ archive.labels \in SUBSET Nat
      /\ Scanning => archive.origin <= pos - kept
      /\ kept \in Nat /\ pos \in Nat /\ start \in Nat
  BY ArchiveFields DEF Inv, TypeOK
<1>1. ASSUME NEW n \in ReadSizes, FindLabel(n)
      PROVE  LabelIsSeen'
  <2>1. PICK i \in LabelsSeen(n) : pos' = i + LABEL_LEN
    BY <1>1 DEF FindLabel
  <2>2. i \in archive.labels /\ archive.origin <= i /\ ~archive.zeroLabel
    BY <1>1, <1>a, <2>1 DEF FindLabel, LabelsSeen, useLabel, Within, buf_base
  <2>3. QED
    BY <1>1, <2>2 DEF FindLabel, LabelIsSeen
<1>2. ASSUME NEW n \in ReadSizes, FindEscape(n)
      PROVE  LabelIsSeen'
  BY <1>2 DEF FindEscape, LabelIsSeen
<1>3. CASE phase' # "found"
  BY <1>3 DEF LabelIsSeen
<1>4. CASE UNCHANGED vars
  BY <1>4 DEF vars, LabelIsSeen
<1>5. QED
  BY <1>1, <1>2, <1>3, <1>4
  DEF Next, Search, TooShort, StartTail, KeepOverlap, FallBack, NotFound,
      ReadFails, Scanning

(***************************************************************************)
(* For archives so laid out the parse starts at the first entry, whatever  *)
(* the tail window cuts and whichever marker is found.                     *)
(***************************************************************************)
THEOREM ScanLocates ==
    ASSUME CatalogueLayout
    PROVE  Spec => []LocatesCatalogue
<1>1. Init => LocatesCatalogue
  BY DEF Init, LocatesCatalogue
<1>2. QED
  BY SpecInv, LocatesStep, CatalogueLayout, <1>1, PTL DEF Spec

-----------------------------------------------------------------------------
(***************************************************************************)
(* The scan inside open().                                                 *)
(***************************************************************************)
TlvFields == [type : Nat, len : Nat, value : Labels]

LEMMA FileFacts ==
    ASSUME NEW f \in Files
    PROVE  /\ f.internal_name \in Labels
           /\ f.tlvs \in Seq(TlvFields)
           /\ f.entries \in Nat
<1>1. f \in FileFields
  BY OpenConstants DEF OpenConstants
<1>2. QED
  BY <1>1 DEF FileFields, TlvFields

LEMMA Views ==
    ASSUME NEW f \in Files, NEW l \in Labels
    PROVE  View(f, l) \in Archives
BY OpenConstants DEF OpenConstants

(***************************************************************************)
(* The search has not begun while the header is read, and begins as the    *)
(* scan's Init says: with an archive, at the origin, nothing kept.         *)
(***************************************************************************)
OpenInv ==
    /\ Inv
    /\ file \in Files
    /\ tlv \in Nat
    /\ data_name \in Labels \cup {None}
    /\ stage \in {"header", "tlvs"} => phase = "locate"

LEMMA OpenInitInv == OpenInit => OpenInv
<1> SUFFICES ASSUME OpenInit PROVE OpenInv
  OBVIOUS
<1>1. NoArchive \in Archives
  BY OpenConstants DEF OpenConstants
<1>2. archive \in Archives /\ phase = "locate" /\ start = 0 /\ pos = 0 /\ kept = 0 /\ via = FALSE
  BY <1>1 DEF OpenInit
<1>3. ~Scanning
  BY <1>2 DEF Scanning
<1>4. TypeOK
  <2>1. kept \in 0..OVERLAP
    BY <1>2
  <2>2. QED
    BY <1>2, <1>3, <2>1 DEF TypeOK
<1>5. Inv
  BY <1>2, <1>3, <1>4 DEF Inv, OverlapHeld, NoMarkerPassed, MissingOnlyIfAbsent
<1>6. QED
  BY <1>2, <1>5 DEF OpenInv, OpenInit

\* The step that starts the search.
LEMMA HeaderStep ==
    ASSUME OpenInv, ReadArchiveHeader
    PROVE  Inv'
<1>1. label \in Labels
  BY FileFacts DEF OpenInv, label
<1>2. archive' = View(file, label) /\ archive'.origin = file.origin
  BY DEF ReadArchiveHeader, View
<1>3. archive' \in Archives
  BY <1>1, <1>2, Views DEF OpenInv
<1>4. archive'.origin \in Nat
  BY <1>3, ArchiveFields
<1>5. /\ phase' = "locate" /\ kept' = kept /\ via' = via
      /\ start' = archive'.origin /\ pos' = archive'.origin
  BY <1>2 DEF ReadArchiveHeader, OpenInv
<1>6. kept' = 0 /\ via' \in BOOLEAN
  BY <1>5 DEF ReadArchiveHeader, OpenInv, Inv, TypeOK
<1>7. ~Scanning'
  BY <1>5 DEF Scanning
<1>8. TypeOK'
  <2>1. kept' \in 0..OVERLAP
    BY <1>6
  <2>2. QED
    BY <1>3, <1>4, <1>5, <1>6, <1>7, <2>1 DEF TypeOK
<1>9. QED
  BY <1>5, <1>6, <1>7, <1>8 DEF Inv, OverlapHeld, NoMarkerPassed, MissingOnlyIfAbsent

\* No other step touches the search, but for those that are the search's own.
LEMMA OtherSteps ==
    ASSUME [OpenNext]_<<openVars, vars>>, ~ReadArchiveHeader
    PROVE  [Next]_vars
BY DEF OpenNext, Step, StreamFails, FindCatalogue, Next, ReadHeader, ReadTlv, Found, NotLocated,
       Inflate, SkipLabel, SkipPath, ReadEdition, ReadTerminateur, Parse, Refuse, Fail

LEMMA OpenStepInv == OpenInv /\ [OpenNext]_<<openVars, vars>> => OpenInv'
<1> SUFFICES ASSUME OpenInv, [OpenNext]_<<openVars, vars>>
             PROVE  OpenInv'
  OBVIOUS
<1>1. Inv'
  <2>1. CASE ReadArchiveHeader
    BY <2>1, HeaderStep
  <2>2. CASE ~ReadArchiveHeader
    BY <2>2, OtherSteps, StepInv DEF OpenInv
  <2>3. QED
    BY <2>1, <2>2
<1>2. file' = file
  BY DEF OpenNext, Step, StreamFails, FindCatalogue, openVars, ReadHeader, ReadTlv,
         ReadArchiveHeader, Found, NotLocated, Inflate, SkipLabel, SkipPath, ReadEdition,
         ReadTerminateur, Parse, Refuse, Fail, Proceed
<1>3. data_name' \in Labels \cup {None}
  <2>1. CASE ReadTlv
    <3>1. file.tlvs \in Seq(TlvFields) /\ tlv < Len(file.tlvs)
      BY <2>1, FileFacts DEF ReadTlv, OpenInv
    <3>2. tlv + 1 \in 1..Len(file.tlvs)
      BY <3>1 DEF OpenInv
    <3>3. file.tlvs[tlv + 1] \in TlvFields
      BY <3>1, <3>2
    <3>4. file.tlvs[tlv + 1].value \in Labels
      BY <3>3 DEF TlvFields
    <3>5. QED
      BY <2>1, <3>4 DEF ReadTlv, OpenInv
  <2>2. CASE ~ReadTlv
    BY <2>2 DEF OpenInv, OpenNext, Step, StreamFails, FindCatalogue, openVars, header,
         ReadHeader, ReadArchiveHeader, Found, NotLocated, Inflate, SkipLabel, SkipPath,
         ReadEdition, ReadTerminateur, Parse, Refuse, Fail
  <2>3. QED
    BY <2>1, <2>2
<1>4. tlv' \in Nat
  <2>1. tlv' \in {tlv, tlv + 1}
    BY DEF OpenNext, Step, StreamFails, FindCatalogue, openVars, header, ReadHeader, ReadTlv,
         ReadArchiveHeader, Found, NotLocated, Inflate, SkipLabel,
         SkipPath, ReadEdition, ReadTerminateur, Parse, Refuse, Fail
  <2>2. QED
    BY <2>1 DEF OpenInv
<1>5. stage' \in {"header", "tlvs"} => phase' = "locate"
  BY DEF OpenInv, OpenNext, Step, StreamFails, FindCatalogue, openVars, vars,
         ReadHeader, ReadTlv, ReadArchiveHeader, Found, NotLocated, Inflate, SkipLabel,
         SkipPath, ReadEdition, ReadTerminateur, Parse, Refuse, Fail, Proceed
<1>6. QED
  BY <1>1, <1>2, <1>3, <1>4, <1>5 DEF OpenInv

LEMMA OpenSpecInv == OpenSpec => []OpenInv
BY OpenInitInv, OpenStepInv, PTL DEF OpenSpec

(***************************************************************************)
(* While an archive is opened the scan stays in it, and its overlap in its *)
(* buffer (scan_window).                                                   *)
(***************************************************************************)
THEOREM OpenTypeCorrect == OpenSpec => []TypeOK
<1>1. OpenInv => TypeOK
  BY DEF OpenInv, Inv
<1>2. QED
  BY OpenSpecInv, <1>1, PTL

(***************************************************************************)
(* Whatever the sizes of the reads, no whole marker is passed (scan_window *)
(* keeps OVERLAP bytes).                                                   *)
(***************************************************************************)
THEOREM OpenPassesNoMarker == OpenSpec => []NoMarkerPassed
<1>1. OpenInv => NoMarkerPassed
  BY DEF OpenInv, Inv
<1>2. QED
  BY OpenSpecInv, <1>1, PTL

(***************************************************************************)
(* A catalogue that is not found is not there (find_catalogue_within falls *)
(* back to the whole body).                                                *)
(***************************************************************************)
THEOREM OpenMissingIsAbsent == OpenSpec => []MissingOnlyIfAbsent
<1>1. OpenInv => MissingOnlyIfAbsent
  BY DEF OpenInv, Inv
<1>2. QED
  BY OpenSpecInv, <1>1, PTL

-----------------------------------------------------------------------------
(***************************************************************************)
(* What the scan finds, for archives laid out as dar lays them out.        *)
(***************************************************************************)
ScanFinds == LocatesCatalogue /\ LabelIsSeen

LEMMA ScanFindsStep ==
    ASSUME CatalogueLayout
    PROVE  OpenInv /\ ScanFinds /\ [OpenNext]_<<openVars, vars>> => ScanFinds'
<1> SUFFICES ASSUME OpenInv, ScanFinds, [OpenNext]_<<openVars, vars>>
             PROVE  ScanFinds'
  OBVIOUS
<1>1. CASE ReadArchiveHeader
  <2>1. phase' # "found"
    BY <1>1 DEF ReadArchiveHeader, OpenInv
  <2>2. QED
    BY <2>1 DEF ScanFinds, LocatesCatalogue, LabelIsSeen
<1>2. CASE ~ReadArchiveHeader
  BY <1>2, OtherSteps, LocatesStep, LabelStep, CatalogueLayout DEF OpenInv, ScanFinds
<1>3. QED
  BY <1>1, <1>2

LEMMA ScanFindsInv ==
    ASSUME CatalogueLayout
    PROVE  OpenSpec => []ScanFinds
<1>1. OpenInit => ScanFinds
  BY DEF OpenInit, ScanFinds, LocatesCatalogue, LabelIsSeen
<1>2. QED
  BY OpenSpecInv, ScanFindsStep, CatalogueLayout, <1>1, PTL DEF OpenSpec

(***************************************************************************)
(* Where either marker is found, the entries begin (find_catalogue), for   *)
(* archives in which only the catalogue has the markers.                   *)
(***************************************************************************)
THEOREM OpenLocates ==
    ASSUME CatalogueLayout
    PROVE  OpenSpec => []LocatesCatalogue
<1>1. ScanFinds => LocatesCatalogue
  BY DEF ScanFinds
<1>2. QED
  BY ScanFindsInv, CatalogueLayout, <1>1, PTL

-----------------------------------------------------------------------------
(***************************************************************************)
(* Where open() is at each stage, of an archive of either generation.      *)
(***************************************************************************)
Sound == file.genuine /\ ~degraded

Generations ==
    /\ stage \in {"tlvs", "scan", "label", "path"} => file.extension = "T"
    /\ stage \in {"edition", "terminateur"} => LegacyFile
    /\ stage = "inflate" => file.extension = "T" \/ LegacyFile

HeaderIsKnown ==
    stage \in {"scan", "terminateur", "inflate", "label", "path", "parse", "open"} /\ ~degraded =>
        format_value = read_format_value(file) /\ global_comp = file.comp

ArchiveIsFile == stage = "scan" => \E l \in Labels : archive = View(file, l)

StillRaw ==
    /\ stage \in {"header", "tlvs", "edition", "terminateur", "scan", "inflate"} => source = "raw"
    /\ stage = "inflate" => is_compressed(global_comp) /\ (~LegacyFile => via)

AtLabel ==
    stage = "label" /\ Sound =>
        \/ /\ source = "raw" /\ ~is_compressed(file.comp)
           /\ file.entries = IF via THEN at + LABEL_LEN ELSE at
        \/ source = "inflated" /\ is_compressed(file.comp) /\ via /\ at = 0
AtPath ==
    stage = "path" /\ Sound =>
        /\ source = plaintext
        /\ at = IF source = "raw" THEN file.entries ELSE LABEL_LEN
AtEntries ==
    stage \in {"parse", "open"} /\ Sound => source = plaintext /\ at = first_entry

Stages ==
    /\ Generations
    /\ HeaderIsKnown
    /\ ArchiveIsFile
    /\ StillRaw
    /\ AtLabel
    /\ AtPath
    /\ AtEntries

LEMMA StagesInit == OpenInit => Stages
BY DEF OpenInit, Stages, Generations, HeaderIsKnown, ArchiveIsFile, StillRaw, AtLabel, AtPath,
       AtEntries

LEMMA StagesStep ==
    ASSUME GenuineLayout,
           OpenInv, ScanFinds, Stages, [OpenNext]_<<openVars, vars>>
    PROVE  Stages'
<1> USE DEF Stages, Sound, LegacyFile
<1>file. file' = file
  BY DEF OpenNext, Step, StreamFails, FindCatalogue, openVars, ReadHeader, ReadTlv,
         ReadArchiveHeader, Found, NotLocated, Inflate, SkipLabel, SkipPath, ReadEdition,
         ReadTerminateur, Parse, Refuse, Fail, Proceed
<1>entries. file.entries \in Nat
  BY FileFacts DEF OpenInv
<1>1. CASE ReadHeader
  BY <1>1 DEF ReadHeader, Fail, Proceed, header, catalogue, Generations, HeaderIsKnown,
              ArchiveIsFile, StillRaw, AtLabel, AtPath, AtEntries
<1>2. CASE ReadTlv
  BY <1>2 DEF ReadTlv, header, catalogue, Generations, HeaderIsKnown,
              ArchiveIsFile, StillRaw, AtLabel, AtPath, AtEntries
<1>3. CASE ReadArchiveHeader
  <2>1. label \in Labels /\ archive' = View(file, label)
    BY <1>3, FileFacts DEF OpenInv, label, ReadArchiveHeader
  <2>2. ArchiveIsFile'
    BY <1>file, <2>1 DEF ArchiveIsFile
  <2>3. ~degraded' => format_value' = read_format_value(file) /\ global_comp' = file.comp
    BY <1>3 DEF ReadArchiveHeader, ReadVersion, BestEffort
  <2>4. HeaderIsKnown'
    BY <1>file, <2>3 DEF HeaderIsKnown, read_format_value
  <2>5. QED
    BY <1>3, <1>file, <2>2, <2>4
    DEF ReadArchiveHeader, Proceed, catalogue, Generations, StillRaw, AtLabel, AtPath, AtEntries
<1>4. CASE FindCatalogue
  <2>1. /\ stage = "scan" /\ UNCHANGED openVars /\ archive' = archive
    BY <1>4 DEF FindCatalogue, Search, TooShort, StartTail, FindEscape, FindLabel, KeepOverlap,
                FallBack, NotFound
  <2>2. QED
    BY <2>1 DEF openVars, header, catalogue, Generations, HeaderIsKnown, read_format_value,
                ArchiveIsFile, StillRaw, AtLabel, AtPath, AtEntries
<1>5. CASE Found
  <2>1. PICK l \in Labels : archive = View(file, l)
    BY <1>5 DEF Found, ArchiveIsFile
  <2>2. (IF via THEN pos + LABEL_LEN ELSE pos) = file.entries
    BY <1>5, <2>1 DEF Found, ScanFinds, LocatesCatalogue, EntryStart, View
  <2>3. file.genuine /\ is_compressed(file.comp) => via
    <3>1. SUFFICES ASSUME file.genuine, is_compressed(file.comp), ~via
                   PROVE  FALSE
      OBVIOUS
    <3>2. PICK p \in file.labels[l] : file.origin <= p
      BY <1>5, <2>1, <3>1 DEF Found, ScanFinds, LabelIsSeen, View
    <3>3. p < file.origin
      BY <1>5, <3>1, <3>2, GenuineLayout
      DEF GenuineLayout, TapeLayout, OpenInv, Found, Generations
    <3>4. p \in Nat /\ file.origin \in Nat
      BY <2>1, <3>2, ArchiveFields, Views DEF OpenInv, View
    <3>5. QED
      BY <3>2, <3>3, <3>4
  <2>4. AtLabel'
    <3>1. stage' = "label" /\ Sound' => ~is_compressed(file.comp)
      BY <1>5, <1>file, <2>3 DEF Found, Proceed, header, HeaderIsKnown
    <3>2. at' = pos /\ source' = source /\ via' = via /\ source = "raw"
      BY <1>5 DEF Found, vars, StillRaw
    <3>3. QED
      BY <1>5, <1>file, <2>2, <3>1, <3>2 DEF AtLabel
  <2>5. QED
    BY <1>5, <1>file, <2>4
    DEF Found, Proceed, header, vars, Generations, HeaderIsKnown, read_format_value,
        ArchiveIsFile, StillRaw, AtPath, AtEntries
<1>6. CASE NotLocated
  BY <1>6 DEF NotLocated, Fail, Generations, HeaderIsKnown, ArchiveIsFile, StillRaw, AtLabel,
              AtPath, AtEntries
<1>7. CASE Inflate
  <2>1. CASE stage' = "failed"
    BY <2>1 DEF Generations, HeaderIsKnown, ArchiveIsFile, StillRaw, AtLabel, AtPath, AtEntries
  <2>2. CASE stage' # "failed"
    <3>1. /\ stage = "inflate" /\ source' = "inflated" /\ at' = 0
          /\ stage' = IF file.extension = "T" THEN "label" ELSE "parse"
          /\ UNCHANGED <<header, vars>>
      BY <1>7, <2>2 DEF Inflate, Fail, Proceed
    <3>2. ~degraded => is_compressed(file.comp)
      BY <3>1 DEF StillRaw, HeaderIsKnown
    <3>3. AtLabel'
      BY <1>file, <3>1, <3>2 DEF AtLabel, StillRaw, header, vars
    <3>4. AtEntries'
      <4>1. CASE LegacyFile
        BY <1>file, <3>1, <3>2, <4>1
        DEF AtEntries, plaintext, first_entry, read_format_value, header
      <4>2. CASE ~LegacyFile
        BY <1>file, <3>1, <4>2 DEF AtEntries, Generations
      <4>3. QED
        BY <4>1, <4>2
    <3>5. QED
      BY <1>file, <3>1, <3>3, <3>4
      DEF header, vars, Generations, HeaderIsKnown, read_format_value, ArchiveIsFile, StillRaw,
          AtPath
  <2>3. QED
    BY <2>1, <2>2
<1>8. CASE SkipLabel
  <2>1. /\ stage = "label" /\ stage' = "path"
        /\ at' = IF via THEN at + LABEL_LEN ELSE at
        /\ UNCHANGED <<header, source, vars>>
    BY <1>8 DEF SkipLabel, Proceed
  <2>2. AtPath'
    BY <1>file, <2>1 DEF AtLabel, AtPath, plaintext, header
  <2>3. QED
    BY <1>file, <2>1, <2>2
    DEF header, vars, Generations, HeaderIsKnown, read_format_value, ArchiveIsFile, StillRaw,
        AtLabel, AtEntries
<1>9. CASE SkipPath
  <2>1. /\ stage = "path" /\ stage' = "parse"
        /\ at' = IF format_value >= FORMAT_11_1 THEN at + PATH_LEN ELSE at
        /\ UNCHANGED <<header, source, vars>>
    BY <1>9 DEF SkipPath, Proceed
  <2>2. ~LegacyFile
    BY <2>1 DEF Generations
  <2>3. AtEntries'
    <3>1. SUFFICES ASSUME Sound'
                   PROVE  source' = plaintext' /\ at' = first_entry'
      BY DEF AtEntries
    <3>2. /\ source = plaintext /\ format_value = read_format_value(file)
          /\ at = IF source = "raw" THEN file.entries ELSE LABEL_LEN
      BY <1>file, <2>1, <3>1 DEF AtPath, HeaderIsKnown, header
    <3>3. plaintext' = plaintext /\ first_entry' = first_entry
      BY <1>file DEF plaintext, first_entry, read_format_value
    <3>4. at \in Nat
      BY <1>entries, <3>2
    <3>5. first_entry = at + (IF format_value >= FORMAT_11_1 THEN PATH_LEN ELSE 0)
      BY <2>2, <3>2 DEF first_entry, plaintext
    <3>6. QED
      BY <2>1, <3>2, <3>3, <3>4, <3>5
  <2>4. QED
    BY <1>file, <2>1, <2>3
    DEF header, vars, Generations, HeaderIsKnown, read_format_value, ArchiveIsFile, StillRaw,
        AtLabel, AtPath
<1>10. CASE ReadEdition
  <2>1. ~degraded' => format_value' = read_format_value(file) /\ global_comp' = file.comp
    BY <1>10 DEF ReadEdition, ReadVersion
  <2>2. QED
    BY <1>10, <1>file, <2>1
    DEF ReadEdition, Proceed, catalogue, Generations, HeaderIsKnown, read_format_value,
        ArchiveIsFile, StillRaw, AtLabel, AtPath, AtEntries
<1>11. CASE ReadTerminateur
  <2>1. CASE stage' = "failed"
    BY <2>1 DEF Generations, HeaderIsKnown, ArchiveIsFile, StillRaw, AtLabel, AtPath, AtEntries
  <2>2. CASE stage' # "failed"
    <3>1. /\ stage = "terminateur" /\ at' = cat_start
          /\ stage' = IF is_compressed(global_comp) THEN "inflate" ELSE "parse"
          /\ UNCHANGED <<header, source, vars>>
      BY <1>11, <2>2 DEF ReadTerminateur, Fail, Proceed
    <3>2. LegacyFile /\ source = "raw"
      BY <3>1 DEF Generations, StillRaw
    <3>3. file.genuine => cat_start = file.entries
      BY <3>2, GenuineLayout DEF GenuineLayout, LegacyLayout, cat_start, OpenInv
    <3>4. AtEntries'
      BY <1>file, <1>entries, <3>1, <3>2, <3>3
      DEF AtEntries, HeaderIsKnown, plaintext, first_entry, header
    <3>5. QED
      BY <1>file, <3>1, <3>2, <3>4
      DEF header, vars, Generations, HeaderIsKnown, read_format_value, ArchiveIsFile, StillRaw,
          AtLabel, AtPath
  <2>3. QED
    BY <2>1, <2>2
<1>12. CASE Parse
  BY <1>12, <1>file
  DEF Parse, Proceed, header, catalogue, vars, Generations, HeaderIsKnown, read_format_value,
      ArchiveIsFile, StillRaw, AtLabel, AtPath, AtEntries, plaintext, first_entry
<1>13. CASE Refuse \/ StreamFails
  <2>1. CASE stage' = "failed"
    BY <2>1 DEF Generations, HeaderIsKnown, ArchiveIsFile, StillRaw, AtLabel, AtPath, AtEntries
  <2>2. CASE stage' # "failed"
    <3>1. stage = "scan" /\ UNCHANGED openVars /\ archive' = archive
      BY <1>13, <2>2 DEF Refuse, StreamFails, Fail, ReadFails
    <3>2. QED
      BY <3>1 DEF openVars, header, catalogue, Generations, HeaderIsKnown, read_format_value,
                  ArchiveIsFile, StillRaw, AtLabel, AtPath, AtEntries
  <2>3. QED
    BY <2>1, <2>2
<1>14. CASE UNCHANGED <<openVars, vars>>
  BY <1>14
  DEF openVars, vars, header, catalogue, Generations, HeaderIsKnown, read_format_value,
      ArchiveIsFile, StillRaw, AtLabel, AtPath, AtEntries, plaintext, first_entry
<1>15. QED
  BY <1>1, <1>2, <1>3, <1>4, <1>5, <1>6, <1>7, <1>8, <1>9, <1>10, <1>11, <1>12, <1>13, <1>14
  DEF OpenNext, Step

(***************************************************************************)
(* The parse of a genuine archive begins at its first entry, in the right  *)
(* stream and with its format and codec, when no best-effort read failed   *)
(* (DarReader::open, before parse_catalog).                                *)
(***************************************************************************)
THEOREM OpenParsesTheEntries ==
    ASSUME CatalogueLayout, GenuineLayout
    PROVE  OpenSpec => []ParsesTheEntries
<1>1. OpenInv /\ ScanFinds /\ Stages /\ [OpenNext]_<<openVars, vars>> => Stages'
  BY StagesStep, GenuineLayout
<1>2. Stages => ParsesTheEntries
  BY DEF Stages, HeaderIsKnown, AtEntries, Sound, ParsesTheEntries
<1>3. QED
  BY OpenSpecInv, ScanFindsInv, CatalogueLayout, StagesInit, <1>1, <1>2, PTL DEF OpenSpec

-----------------------------------------------------------------------------
(***************************************************************************)
(* What the search looks for, and what the inflation knows.  The name is   *)
(* the last of those read so far, so once all are read it is the one that  *)
(* the archive was written with.                                           *)
(***************************************************************************)
NamesRead == {i \in Names(file) : i <= tlv}

NameIsLast ==
    stage \in {"header", "tlvs"} =>
        /\ NamesRead = {} => data_name = None
        /\ NamesRead # {} => \E i \in NamesRead : /\ \A j \in NamesRead : j <= i
                                               /\ data_name = file.tlvs[i].value

Sought ==
    /\ stage = "scan" => archive = View(file, written_label(file))
    /\ phase = "tooShort" => archive.end <= archive.origin

BlockSizeIsKnown ==
    /\ stage \in {"header", "tlvs", "edition", "terminateur"} => compr_bs = 0
    /\ stage \in {"scan", "inflate"} /\ file.extension = "T" /\ ~degraded =>
          compr_bs = read_compr_bs(file, read_format_value(file))
    /\ stage = "inflate" /\ LegacyFile => compr_bs = 0

Knowledge == NameIsLast /\ Sought /\ BlockSizeIsKnown /\ GenuineOpens

LEMMA KnowledgeInit == OpenInit => Knowledge
<1> SUFFICES ASSUME OpenInit PROVE Knowledge
  OBVIOUS
<1>1. NamesRead = {}
  <2>1. DOMAIN file.tlvs = 1..Len(file.tlvs)
    BY FileFacts, LenProperties DEF OpenInit
  <2>2. QED
    BY <2>1 DEF OpenInit, NamesRead, Names
<1>2. QED
  BY <1>1 DEF OpenInit, Knowledge, NameIsLast, Sought, BlockSizeIsKnown, GenuineOpens

\* One TLV more.
LEMMA NameStep ==
    ASSUME OpenInv, NameIsLast, ReadTlv
    PROVE  NameIsLast'
<1>1. /\ file' = file /\ tlv' = tlv + 1 /\ tlv \in Nat /\ stage = "tlvs" /\ tlv < Len(file.tlvs)
      /\ DOMAIN file.tlvs = 1..Len(file.tlvs) /\ Len(file.tlvs) \in Nat
  BY FileFacts, LenProperties DEF OpenInv, ReadTlv
<1> DEFINE k == tlv + 1
           IsName == file.tlvs[k].type = 3 /\ file.tlvs[k].len = 10
<1>2. data_name' = IF IsName THEN file.tlvs[k].value ELSE data_name
  BY DEF ReadTlv
<1>3. k \in DOMAIN file.tlvs /\ k \in Nat
  BY <1>1
<1>4. \A i \in Names(file) : i \in Nat
  BY <1>1 DEF Names
<1>5. NamesRead' = NamesRead \cup (IF IsName THEN {k} ELSE {})
  <2>1. k \in Names(file) <=> IsName
    BY <1>3 DEF Names
  <2>2. \A i \in Names(file) : i <= tlv + 1 <=> (i <= tlv \/ i = k)
    BY <1>1, <1>4
  <2>3. NamesRead' = {i \in Names(file) : i <= tlv + 1}
    BY <1>1 DEF NamesRead, Names
  <2> HIDE DEF IsName, k
  <2>4. QED
    BY <2>1, <2>2, <2>3 DEF NamesRead, k
<1> HIDE DEF IsName
<1>6. CASE IsName
  <2>1. NamesRead' = NamesRead \cup {k}
    BY <1>5, <1>6
  <2>2. \A j \in NamesRead' : j <= k
    BY <1>1, <1>4, <2>1 DEF NamesRead
  <2>3. data_name' = file'.tlvs[k].value
    BY <1>1, <1>2, <1>6
  <2>4. QED
    BY <2>1, <2>2, <2>3 DEF NameIsLast
<1>7. CASE ~IsName
  BY <1>1, <1>2, <1>5, <1>7 DEF NameIsLast
<1>8. QED
  BY <1>6, <1>7

\* The last TLV has been read.
LEMMA LabelIsWritten ==
    ASSUME OpenInv, NameIsLast, stage = "tlvs", tlv = Len(file.tlvs)
    PROVE  label = written_label(file)
<1>1. /\ file.tlvs \in Seq(TlvFields) /\ DOMAIN file.tlvs = 1..Len(file.tlvs)
      /\ Len(file.tlvs) \in Nat
  BY FileFacts, LenProperties DEF OpenInv
<1>2. NamesRead = Names(file)
  BY <1>1 DEF NamesRead, Names
<1>3. CASE Names(file) = {}
  BY <1>2, <1>3 DEF NameIsLast, label, written_label
<1>4. CASE Names(file) # {}
  <2>1. PICK i \in Names(file) : /\ \A j \in Names(file) : j <= i
                                /\ data_name = file.tlvs[i].value
    BY <1>2, <1>4 DEF NameIsLast
  <2> DEFINE last == CHOOSE n \in Names(file) : \A j \in Names(file) : j <= n
  <2>2. last \in Names(file) /\ \A j \in Names(file) : j <= last
    BY <2>1
  <2>3. last = i
    <3>1. last \in Nat /\ i \in Nat
      BY <1>1, <2>1, <2>2 DEF Names
    <3>2. last <= i /\ i <= last
      BY <2>1, <2>2
    <3>3. QED
      BY <3>1, <3>2
  <2>4. data_name # None
    <3>1. file.tlvs[i] \in TlvFields
      BY <1>1, <2>1, ElementOfSeq DEF Names
    <3>2. data_name \in Labels
      BY <2>1, <3>1 DEF TlvFields
    <3>3. QED
      BY <3>2, OpenConstants DEF OpenConstants
  <2>5. QED
    BY <1>4, <2>1, <2>3, <2>4 DEF label, written_label
<1>5. QED
  BY <1>3, <1>4

\* A search that finds nothing in a genuine archive: nothing marks it.
LEMMA NotFoundIsUnmarked ==
    ASSUME GenuineLayout, OpenInv, Sought, stage = "scan", file.extension = "T", file.genuine,
           phase \in {"missing", "tooShort"}
    PROVE  Unmarked
<1>1. TapeLayout(file)
  BY GenuineLayout DEF GenuineLayout, OpenInv
<1>2. archive = View(file, written_label(file))
  BY DEF Sought
<1>3. /\ archive.origin = file.origin /\ archive.end = file.end
      /\ archive.escapes = file.escapes /\ archive.labels = file.labels[written_label(file)]
      /\ archive.zeroLabel = (written_label(file) = ZeroLabel)
  BY <1>2 DEF View
<1>4. archive.origin \in Nat /\ archive.end \in Nat
  BY ArchiveFields DEF OpenInv, Inv, TypeOK
<1>5. phase = "missing"
  BY <1>1, <1>3, <1>4 DEF Sought, TapeLayout
<1>6. ~Marked(file)
  BY <1>3, <1>5 DEF OpenInv, Inv, MissingOnlyIfAbsent, Marked, useLabel
<1>7. QED
  BY <1>1, <1>6 DEF TapeLayout, Unmarked, LegacyFile

LEMMA KnowledgeStep ==
    ASSUME GenuineLayout,
           OpenInv, Stages, Knowledge, [OpenNext]_<<openVars, vars>>
    PROVE  Knowledge'
<1> USE DEF Knowledge
<1>file. file' = file
  BY DEF OpenNext, Step, StreamFails, FindCatalogue, openVars, ReadHeader, ReadTlv,
         ReadArchiveHeader, Found, NotLocated, Inflate, SkipLabel, SkipPath, ReadEdition,
         ReadTerminateur, Parse, Refuse, Fail, Proceed
<1>known. file.genuine => /\ file.extension \in {"T", "N", "S"}
                          /\ IF file.extension = "T" THEN TapeLayout(file) ELSE LegacyLayout(file)
  BY GenuineLayout DEF GenuineLayout, OpenInv
\* Behind the search, only the refusals matter; at a refusal, only the reason.
<1>later. ASSUME stage' \notin {"header", "tlvs", "scan", "edition", "terminateur", "inflate",
                               "failed"},
                 phase' = phase, archive' = archive
          PROVE  Knowledge'
  BY <1>later DEF NameIsLast, Sought, BlockSizeIsKnown, GenuineOpens
<1>refused. ASSUME stage' = "failed", phase' = phase, archive' = archive, degraded' = degraded,
                   error' = "Corrupt" /\ file.genuine => degraded \/ Unmarked
            PROVE  Knowledge'
  BY <1>refused, <1>file
  DEF NameIsLast, Sought, BlockSizeIsKnown, GenuineOpens, Unmarked, LegacyFile
<1>1. CASE ReadHeader
  <2>1. CASE stage' = "failed"
    <3>1. error' = "Corrupt" => file.extension = "?"
      BY <1>1, <2>1 DEF ReadHeader, Fail, Proceed
    <3>2. phase' = phase /\ archive' = archive /\ degraded' = degraded
      BY <1>1, <2>1 DEF ReadHeader, Fail, Proceed, header, vars
    <3>3. QED
      BY <1>known, <1>refused, <2>1, <3>1, <3>2
  <2>2. CASE stage' # "failed"
    <3>1. /\ stage = "header" /\ stage' \in {"tlvs", "edition"}
          /\ UNCHANGED <<header, catalogue, vars>>
      BY <1>1, <2>2 DEF ReadHeader, Fail, Proceed
    <3>2. NameIsLast'
      BY <1>file, <3>1 DEF NameIsLast, NamesRead, Names, header
    <3>3. QED
      BY <1>file, <3>1, <3>2 DEF Sought, BlockSizeIsKnown, GenuineOpens, header, vars
  <2>3. QED
    BY <2>1, <2>2
<1>2. CASE ReadTlv
  <2>1. /\ stage = "tlvs" /\ stage' = stage /\ compr_bs' = compr_bs
        /\ phase' = phase /\ archive' = archive
    BY <1>2 DEF ReadTlv, vars
  <2>2. QED
    BY <1>2, <2>1, NameStep DEF Sought, BlockSizeIsKnown, GenuineOpens
<1>3. CASE ReadArchiveHeader
  <2>1. /\ stage = "tlvs" /\ stage' = "scan" /\ phase' = phase
        /\ archive' = View(file, label) /\ tlv = Len(file.tlvs)
    BY <1>3 DEF ReadArchiveHeader, Proceed
  <2>2. label = written_label(file)
    BY <2>1, LabelIsWritten
  <2>3. Sought'
    <3>1. phase' # "tooShort"
      BY <2>1 DEF OpenInv
    <3>2. written_label(file)' = written_label(file)
      BY <1>file DEF written_label, Names
    <3>3. QED
      BY <1>file, <2>1, <2>2, <3>1, <3>2 DEF Sought, View
  <2>4. ~degraded' => compr_bs' = read_compr_bs(file, read_format_value(file))
    BY <1>3 DEF ReadArchiveHeader, ReadVersion, BestEffort
  <2>5. BlockSizeIsKnown'
    BY <1>file, <2>1, <2>4 DEF BlockSizeIsKnown, read_compr_bs, read_format_value
  <2>6. QED
    BY <2>1, <2>3, <2>5 DEF NameIsLast, GenuineOpens
<1>4. CASE FindCatalogue
  <2>1. /\ stage = "scan" /\ UNCHANGED openVars /\ archive' = archive
        /\ phase' = "tooShort" => archive.end <= archive.origin
    BY <1>4 DEF FindCatalogue, Search, TooShort, StartTail, FindEscape, FindLabel, KeepOverlap,
                FallBack, NotFound, Scanning
  <2>2. Sought'
    <3>1. written_label(file)' = written_label(file)
      BY <1>file DEF written_label, Names
    <3>2. QED
      BY <1>file, <2>1, <3>1 DEF Sought, View, openVars
  <2>3. QED
    BY <1>file, <2>1, <2>2
    DEF openVars, header, NameIsLast, BlockSizeIsKnown, read_compr_bs, read_format_value,
        GenuineOpens
<1>5. CASE Found
  <2>1. /\ stage = "scan" /\ stage' \in {"inflate", "label"} /\ UNCHANGED <<header, source, vars>>
    BY <1>5 DEF Found, Proceed
  <2>2. file.extension = "T"
    BY <2>1 DEF Stages, Generations
  <2>3. QED
    BY <1>file, <2>1, <2>2
    DEF header, vars, NameIsLast, Sought, BlockSizeIsKnown, read_compr_bs, read_format_value,
        LegacyFile, GenuineOpens
<1>6. CASE NotLocated
  <2>1. /\ stage = "scan" /\ stage' = "failed" /\ UNCHANGED <<file, header, catalogue, vars>>
        /\ error' = "Corrupt" => phase \in {"missing", "tooShort"}
    BY <1>6 DEF NotLocated, Fail
  <2>2. file.extension = "T"
    BY <2>1 DEF Stages, Generations
  <2>3. error' = "Corrupt" /\ file.genuine => Unmarked
    BY <2>1, <2>2, NotFoundIsUnmarked, GenuineLayout
  <2>4. QED
    BY <1>refused, <2>1, <2>3 DEF header, vars
<1>7. CASE Inflate
  <2>1. CASE stage' = "failed"
    <3>1. /\ stage = "inflate" /\ ~Decodes /\ UNCHANGED <<file, header, catalogue, vars>>
      BY <1>7, <2>1 DEF Inflate, Fail, Proceed
    <3>2. ASSUME file.genuine, ~degraded
          PROVE  FALSE
      <4>1. global_comp = file.comp /\ is_compressed(file.comp)
        BY <3>1, <3>2 DEF Stages, HeaderIsKnown, StillRaw
      <4>2. CASE file.extension = "T"
        <5>1. compr_bs = read_compr_bs(file, read_format_value(file))
          BY <3>1, <3>2, <4>2 DEF BlockSizeIsKnown
        <5>2. QED
          BY <1>known, <3>1, <3>2, <4>1, <4>2, <5>1 DEF TapeLayout, Decodes
      <4>3. CASE file.extension # "T"
        <5>1. LegacyFile /\ compr_bs = 0
          BY <3>1, <4>3 DEF Stages, Generations, BlockSizeIsKnown
        <5>2. file.blocks = always_block(file.comp)
          BY <1>known, <3>2, <4>3 DEF LegacyLayout
        <5>3. ~(compr_bs > 0)
          BY <5>1
        <5>4. file.blocks <=> (compr_bs > 0 \/ always_block(global_comp))
          BY <4>1, <5>2, <5>3, Zenon
        <5>5. QED
          BY <3>1, <5>4, Zenon DEF Decodes
      <4>4. QED
        BY <4>2, <4>3
    <3>3. QED
      BY <1>refused, <2>1, <3>1, <3>2 DEF header, vars
  <2>2. CASE stage' # "failed"
    <3>1. stage' \in {"label", "parse"} /\ phase' = phase /\ archive' = archive
      BY <1>7, <2>2 DEF Inflate, Fail, Proceed, vars
    <3>2. QED
      BY <1>later, <3>1
  <2>3. QED
    BY <2>1, <2>2
<1>8. CASE SkipLabel \/ SkipPath \/ Parse
  <2>1. stage' \in {"path", "parse", "open"} /\ phase' = phase /\ archive' = archive
    BY <1>8 DEF SkipLabel, SkipPath, Parse, Proceed, vars
  <2>2. QED
    BY <1>later, <2>1
<1>9. CASE ReadEdition
  <2>1. /\ stage = "edition" /\ stage' = "terminateur" /\ compr_bs' = compr_bs
        /\ phase' = phase /\ archive' = archive
    BY <1>9 DEF ReadEdition, Proceed, vars
  <2>2. QED
    BY <2>1 DEF NameIsLast, Sought, BlockSizeIsKnown, GenuineOpens
<1>10. CASE ReadTerminateur
  <2>1. CASE stage' = "failed"
    <3>1. /\ stage = "terminateur" /\ UNCHANGED <<file, header, catalogue, vars>>
          /\ error' = "Corrupt" =>
                \/ read_terminateur(file.bytes).result = "ok" /\ cat_start >= Len(file.bytes)
                \/ read_terminateur(file.bytes).result = "corrupt"
      BY <1>10, <2>1 DEF ReadTerminateur, Fail, Proceed
    <3>2. LegacyFile
      BY <3>1 DEF Stages, Generations
    <3>3. ASSUME error' = "Corrupt", file.genuine
          PROVE  FALSE
      <4>1. LegacyLayout(file)
        BY <1>known, <3>2, <3>3 DEF LegacyFile
      <4>2. read_terminateur(file.bytes).result = "ok" /\ cat_start = file.entries
            /\ file.entries < Len(file.bytes)
        BY <4>1 DEF LegacyLayout, cat_start
      <4>3. cat_start >= Len(file.bytes)
        BY <3>1, <3>3, <4>2
      <4>4. file.entries \in Nat /\ Len(file.bytes) \in Nat
        <5>1. file \in FileFields
          BY OpenConstants DEF OpenConstants, OpenInv
        <5>2. file.bytes \in Seq(0..255) /\ file.entries \in Nat
          BY <5>1 DEF FileFields
        <5>3. QED
          BY <5>2, LenProperties
      <4>5. QED
        BY <4>2, <4>3, <4>4
    <3>4. QED
      BY <1>refused, <2>1, <3>1, <3>3 DEF header, vars
  <2>2. CASE stage' # "failed"
    <3>1. /\ stage = "terminateur" /\ stage' \in {"inflate", "parse"}
          /\ UNCHANGED <<header, source, vars>>
      BY <1>10, <2>2 DEF ReadTerminateur, Fail, Proceed
    <3>2. LegacyFile
      BY <3>1 DEF Stages, Generations
    <3>3. QED
      BY <1>file, <3>1, <3>2
      DEF header, vars, NameIsLast, Sought, BlockSizeIsKnown, LegacyFile, GenuineOpens
  <2>3. QED
    BY <2>1, <2>2
<1>11. CASE Refuse
  BY <1>11, <1>refused DEF Refuse, Fail, header, vars
<1>12. CASE StreamFails
  <2>1. CASE stage = "scan" /\ ReadFails /\ UNCHANGED openVars
    <3>1. archive' = archive /\ phase' = "ioError"
      BY <2>1 DEF ReadFails
    <3>2. Sought'
      <4>1. written_label(file)' = written_label(file)
        BY <1>file DEF written_label, Names
      <4>2. QED
        BY <1>file, <2>1, <3>1, <4>1 DEF Sought, View, openVars
    <3>3. QED
      BY <1>file, <2>1, <3>2
      DEF openVars, header, NameIsLast, BlockSizeIsKnown, read_compr_bs, read_format_value,
          GenuineOpens
  <2>2. CASE ~(stage = "scan" /\ ReadFails /\ UNCHANGED openVars)
    <3>1. /\ stage' = "failed" /\ error' # "Corrupt" /\ UNCHANGED <<header, vars>>
      BY <1>12, <2>2 DEF StreamFails, Fail
    <3>2. QED
      BY <1>refused, <3>1 DEF header, vars
  <2>3. QED
    BY <2>1, <2>2
<1>13. CASE UNCHANGED <<openVars, vars>>
  <2>1. UNCHANGED <<stage, error, header, phase, archive>>
    BY <1>13 DEF openVars, vars
  <2>2. NameIsLast'
    BY <1>file, <2>1 DEF NameIsLast, NamesRead, Names, header
  <2>3. Sought'
    <3>1. written_label(file)' = written_label(file)
      BY <1>file DEF written_label, Names
    <3>2. QED
      BY <1>file, <2>1, <3>1 DEF Sought, View
  <2>4. BlockSizeIsKnown' /\ GenuineOpens'
    BY <1>file, <2>1
    DEF BlockSizeIsKnown, read_compr_bs, read_format_value, LegacyFile, GenuineOpens, Unmarked,
        header
  <2>5. QED
    BY <2>2, <2>3, <2>4
<1>14. QED
  BY <1>1, <1>2, <1>3, <1>4, <1>5, <1>6, <1>7, <1>8, <1>9, <1>10, <1>11, <1>12, <1>13
  DEF OpenNext, Step

(***************************************************************************)
(* No genuine archive is refused, re-sliced or not, in any format, when    *)
(* the stream does not fail, except for a compressed one without tape      *)
(* marks (DarReader::open, all its `Corrupt` returns).                     *)
(***************************************************************************)
THEOREM OpenRefusesNone ==
    ASSUME CatalogueLayout, GenuineLayout
    PROVE  OpenSpec => []GenuineOpens
<1>1. OpenInv /\ ScanFinds /\ Stages /\ [OpenNext]_<<openVars, vars>> => Stages'
  BY StagesStep, GenuineLayout
<1>2. OpenInv /\ Stages /\ Knowledge /\ [OpenNext]_<<openVars, vars>> => Knowledge'
  BY KnowledgeStep, GenuineLayout
<1>3. Knowledge => GenuineOpens
  BY DEF Knowledge
<1>4. QED
  BY OpenSpecInv, ScanFindsInv, CatalogueLayout, StagesInit, KnowledgeInit, <1>1, <1>2, <1>3, PTL
  DEF OpenSpec
-----------------------------------------------------------------------------
(***************************************************************************)
(* The terminateur.  Its length in groups, times the length of a group, is *)
(* the way back: the division behind it leaves no rest, because the writer *)
(* has filled the infinint up to whole groups.                             *)
(***************************************************************************)
LEMMA Division ==
    ASSUME NEW d \in Nat \ {0}, NEW c \in Nat, NEW r \in 0..(d - 1)
    PROVE  (c * d + r) \div d = c /\ (c * d + r) % d = r
<1> DEFINE q == (c * d + r) \div d
           m == (c * d + r) % d
<1>1. c * d + r \in Nat
  OBVIOUS
<1>2. q \in Int /\ m \in 0..(d - 1) /\ c * d + r = d * q + m
  BY <1>1
<1> HIDE DEF q, m
<1>3. d * (q - c) = r - m
  BY <1>2
<1>4. q - c < 1
  <2>1. SUFFICES ASSUME q - c >= 1 PROVE FALSE
    BY <1>2
  <2>2. \A x \in Int : x >= 1 => d * x >= d
    OBVIOUS
  <2>3. d * (q - c) >= d
    BY <2>1, <2>2, <1>2
  <2>4. QED
    BY <2>3, <1>2, <1>3
<1>5. q - c > -1
  <2>1. SUFFICES ASSUME q - c <= -1 PROVE FALSE
    BY <1>2
  <2>2. \A x \in Int : x <= -1 => d * x <= -d
    OBVIOUS
  <2>3. d * (q - c) <= -d
    BY <2>1, <2>2, <1>2
  <2>4. QED
    BY <2>3, <1>2, <1>3
<1>6. q = c /\ m = r
  BY <1>2, <1>3, <1>4, <1>5
<1>7. QED
  BY <1>6 DEF q, m

LEMMA LargestIs ==
    ASSUME NEW I \in SUBSET Nat, NEW k \in I, \A i \in I : i <= k
    PROVE  Max(I) = k
<1>1. \E x \in I : \A y \in I : x >= y
  OBVIOUS
<1>2. Max(I) \in I /\ \A y \in I : Max(I) >= y
  BY <1>1 DEF Max
<1> DEFINE m == Max(I)
<1>3. m \in I /\ m >= k
  BY <1>2
<1> HIDE DEF m
<1>4. m <= k /\ m \in Nat /\ k \in Nat
  BY <1>3
<1>5. m = k
  BY <1>3, <1>4
<1>6. QED
  BY <1>5 DEF m

LEMMA PaddingIs ==
    ASSUME NEW S, NEW f \in Seq(S), NEW k \in 1..Len(f), f[k] # 255,
           \A i \in (k + 1)..Len(f) : f[i] = 255
    PROVE  padding(f) = Len(f) - k
<1> DEFINE I == {i \in 1..Len(f) : f[i] # 255}
<1>1. I \in SUBSET Nat /\ k \in I /\ \A i \in I : i <= k
  BY LenProperties
<1>2. padding(f) = Len(f) - IF I # {} THEN Max(I) ELSE 0
  BY DEF padding, SelectLastInSeq
<1> HIDE DEF I
<1>3. Max(I) = k
  BY <1>1, LargestIs
<1>4. QED
  BY <1>1, <1>2, <1>3

Row(s, S, n) == s \in Seq(S) /\ Len(s) = n
Joins(u, s, t, i, j) ==
    \A x \in 1..(i + j) : u[x] = IF x <= i THEN s[x] ELSE t[x - i]

LEMMA Appended ==
    ASSUME NEW S, NEW s, NEW i, Row(s, S, i), NEW t, NEW j, Row(t, S, j)
    PROVE  Row(s \o t, S, i + j) /\ Joins(s \o t, s, t, i, j)
BY ConcatProperties DEF Row, Joins

\* The trailer that dar writes: wide + 1 groups, then the terminateur, in
\* which the bits of a last 0xFF follow those of HighBits.
LEMMA Trailer ==
    ASSUME NEW n, NEW wide \in (1..8) \ {7}, groups(n) \in 1..wide,
           NEW w, w = WrittenTerminateur(n, wide), w \in Seq(0..255)
    PROVE  /\ Len(w) = (wide + 1) * TG + 1 + (wide + 1) \div 8
           /\ w[(wide + 1) * TG + 1] = HighBits[(wide + 1) % 8]
           /\ \A i \in ((wide + 1) * TG + 1 + 1)..Len(w) : w[i] = 255
<1> DEFINE g == groups(n)
           first == <<2 ^ (8 - wide)>>
           zeros == Zeros((wide - g) * TG)
           digits == Digits(n, g * TG)
           infinint == WrittenInfinint(n, wide)
           fill == (TG - (Len(infinint) % TG)) % TG
           bits == (Len(infinint) + fill) \div TG
           last == <<HighBits[bits % 8]>>
           ones == [i \in 1..(bits \div 8) |-> 255]
           S == {2 ^ (8 - wide), 0, 255, HighBits[(wide + 1) % 8]} \cup {digits[i] : i \in 1..(g * TG)}
<1>1. TG \in Nat \ {0} /\ g \in Nat /\ wide \in Nat /\ (wide - g) \in Nat
  BY TerminateurConstants
<1>2. (wide - g) * TG \in Nat /\ g * TG \in Nat /\ wide * TG \in Nat
      /\ (wide - g) * TG + g * TG = wide * TG
  <2>1. \A a, c, d \in Nat : a * d \in Nat /\ (a - c) * d + c * d = a * d
    OBVIOUS
  <2>2. TG \in Nat
    BY <1>1
  <2>3. QED
    BY <1>1, <2>1, <2>2, Zenon
<1>3. Row(first, S, 1)
  BY DEF Row
<1>4. Row(zeros, S, (wide - g) * TG)
  <2> DEFINE k == (wide - g) * TG
  <2>1. k \in Nat
    BY <1>2
  <2> HIDE DEF k, S
  <2>2. 0 \in S
    BY DEF S
  <2>3. Zeros(k) \in Seq(S) /\ Len(Zeros(k)) = k
    BY <2>1, <2>2 DEF Zeros
  <2>4. QED
    BY <2>3 DEF k, Row
<1>5. Row(digits, S, g * TG)
  <2> DEFINE k == g * TG
  <2>1. k \in Nat
    BY <1>2
  <2>2. \A i \in 1..k : digits[i] \in S
    OBVIOUS
  <2> HIDE DEF k, S
  <2>3. digits = [i \in 1..k |-> digits[i]]
    BY DEF Digits, k
  <2> HIDE DEF digits
  <2>4. QED
    BY <2>1, <2>2, <2>3 DEF k, Row
<1>6. infinint = first \o zeros \o digits
  BY DEF WrittenInfinint
<1>10. w = infinint \o Zeros(fill) \o last \o ones
  BY DEF WrittenTerminateur
<1> HIDE DEF first, zeros, digits, infinint, S
<1>7. infinint \in Seq(S) /\ Len(infinint) = wide * TG + 1
  <2>1. Row(first \o zeros, S, 1 + (wide - g) * TG)
    BY <1>3, <1>4, Appended, Zenon
  <2>2. Row(infinint, S, 1 + (wide - g) * TG + g * TG)
    BY <1>5, <1>6, <2>1, Appended, Zenon
  <2> DEFINE a == (wide - g) * TG
             c == g * TG
             d == wide * TG
  <2>3. a \in Nat /\ c \in Nat /\ d \in Nat /\ a + c = d
    BY <1>2
  <2> HIDE DEF a, c, d
  <2>6. 1 + a + c = d + 1
    BY <2>3
  <2>4. 1 + (wide - g) * TG + g * TG = wide * TG + 1
    BY <2>6, Zenon DEF a, c, d
  <2>5. QED
    BY <2>2, <2>4 DEF Row
<1>8. fill \in Nat /\ Len(infinint) + fill = (wide + 1) * TG
  <2> DEFINE len == wide * TG + 1
  <2>1. CASE TG = 1
    <3>1. fill = 0 /\ len + 0 = (wide + 1) * TG
      BY <2>1, <1>7
    <3>2. QED
      BY <3>1, <1>7
  <2>2. CASE TG # 1
    <3>1. 1 \in 0..(TG - 1) /\ TG - 1 \in 0..(TG - 1)
      BY <2>2, <1>1
    <3>2. len % TG = 1
      BY <3>1, <1>1, Division
    <3>3. fill = (TG - 1) % TG
      BY <3>2, <1>7
    <3>4. TG - 1 < TG /\ TG - 1 \in Nat
      BY <1>1
    <3>5. fill = TG - 1
      BY <3>3, <3>4, <1>1
    <3>6. len + (TG - 1) = (wide + 1) * TG
      BY <1>1
    <3>7. QED
      BY <3>4, <3>5, <3>6, <1>7
  <2>3. QED
    BY <2>1, <2>2
<1>9. bits = wide + 1
  <2>1. 0 \in 0..(TG - 1) /\ wide + 1 \in Nat
    BY <1>1
  <2>2. ((wide + 1) * TG + 0) \div TG = wide + 1
    BY <2>1, <1>1, Division
  <2>3. (wide + 1) * TG + 0 = (wide + 1) * TG
    BY <1>1
  <2>4. QED
    BY <2>2, <2>3, <1>8
<1>11. Zeros(fill) \in Seq(S) /\ Len(Zeros(fill)) = fill
  <2> HIDE DEF fill
  <2>1. 0 \in S
    BY DEF S
  <2>2. QED
    BY <2>1, <1>8 DEF Zeros
<1>12. last \in Seq(S) /\ Len(last) = 1 /\ last[1] = HighBits[(wide + 1) % 8]
  <2> DEFINE e == HighBits[(wide + 1) % 8]
  <2>1. e \in S
    BY DEF S
  <2>2. last = <<e>>
    BY <1>9
  <2> HIDE DEF e, last
  <2>3. last \in Seq(S) /\ Len(last) = 1 /\ last[1] = e
    BY <2>1, <2>2
  <2>4. QED
    BY <2>3 DEF e
<1>13. /\ ones \in Seq(S) /\ Len(ones) = (wide + 1) \div 8
       /\ \A i \in 1..((wide + 1) \div 8) : ones[i] = 255
  <2>1. 255 \in S /\ (wide + 1) \div 8 \in Nat
    BY DEF S
  <2>2. ones = [i \in 1..((wide + 1) \div 8) |-> 255]
    BY <1>9
  <2> HIDE DEF ones
  <2>3. QED
    BY <2>1, <2>2
<1> HIDE DEF fill, bits, last, ones
<1> DEFINE head == infinint \o Zeros(fill)
           k == (wide + 1) * TG
           m == (wide + 1) \div 8
<1>14. head \in Seq(S) /\ Len(head) = k
  <2>1. Row(head, S, wide * TG + 1 + fill)
    <3>1. Row(infinint, S, wide * TG + 1) /\ Row(Zeros(fill), S, fill)
      BY <1>7, <1>11 DEF Row
    <3>2. QED
      BY <3>1, Appended, Zenon
  <2> HIDE DEF head
  <2>2. QED
    BY <1>7, <1>8, <2>1 DEF Row
<1>15. k \in Nat /\ m \in Nat
  BY <1>1
<1> HIDE DEF head, k, m
<1>16. /\ head \o last \in Seq(S) /\ Len(head \o last) = k + 1
       /\ (head \o last)[k + 1] = last[1]
  <2>1. Row(head \o last, S, k + 1) /\ Joins(head \o last, head, last, k, 1)
    <3>1. Row(head, S, k) /\ Row(last, S, 1)
      BY <1>12, <1>14 DEF Row
    <3>2. QED
      BY <3>1, Appended, Zenon
  <2>2. k + 1 \in 1..(k + 1) /\ ~(k + 1 <= k) /\ (k + 1) - k = 1
    BY <1>15
  <2>3. QED
    BY <2>1, <2>2 DEF Row, Joins
<1>17. /\ Len(w) = k + 1 + m
       /\ \A i \in 1..(k + 1 + m) :
            w[i] = IF i <= k + 1 THEN (head \o last)[i] ELSE ones[i - (k + 1)]
  <2>1. w = head \o last \o ones
    BY <1>10 DEF head
  <2>2. Len(ones) = m /\ ones \in Seq(S)
    BY <1>13 DEF m
  <2>3. Row(head \o last, S, k + 1) /\ Row(ones, S, m)
    BY <1>16, <2>2 DEF Row
  <2>4. Row(w, S, k + 1 + m) /\ Joins(w, head \o last, ones, k + 1, m)
    BY <2>1, <2>3, Appended, Zenon
  <2>5. QED
    BY <2>4, Zenon DEF Row, Joins
<1>18. w[k + 1] = HighBits[(wide + 1) % 8]
  BY <1>12, <1>15, <1>16, <1>17
<1>19. \A i \in (k + 1 + 1)..Len(w) : w[i] = 255
  <2>1. \A i \in (k + 1 + 1)..(k + 1 + m) : /\ i \in 1..(k + 1 + m) /\ ~(i <= k + 1)
                                            /\ i - (k + 1) \in 1..m
    BY <1>15
  <2>2. \A i \in 1..m : ones[i] = 255
    BY <1>13 DEF m
  <2>3. QED
    BY <1>17, <2>1, <2>2
<1>20. QED
  BY <1>17, <1>18, <1>19 DEF k, m

LEMMA UnaryOf ==
    ASSUME NEW n \in 1..7
    PROVE  /\ HighBits[n] # 255
           /\ unary[HighBits[n]] = n
<1>1. /\ DOMAIN HighBits = 1..7
      /\ HighBits[1] = 128 /\ HighBits[2] = 192 /\ HighBits[3] = 224 /\ HighBits[4] = 240
      /\ HighBits[5] = 248 /\ HighBits[6] = 252 /\ HighBits[7] = 254
  BY DEF HighBits
<1>2. \A i, j \in 1..7 : HighBits[i] = HighBits[j] => i = j
  BY <1>1
<1>3. HighBits[n] # 255
  BY <1>1
<1>4. HighBits[n] \in Range(HighBits)
  BY <1>1 DEF Range
<1>5. unary[HighBits[n]] = CHOOSE i \in 1..7 : HighBits[i] = HighBits[n]
  BY <1>4 DEF unary
<1>6. (CHOOSE i \in 1..7 : HighBits[i] = HighBits[n]) = n
  BY <1>2
<1>7. QED
  BY <1>3, <1>5, <1>6

LEMMA LeadsBack ==
    ASSUME NEW f \in Files, f.infinint # None, InfinintLayout
    PROVE  infinint_start(f.bytes) = f.infinint
<1> DEFINE b == f.bytes
           start0 == f.infinint
           n == f.entries - f.origin
<1>1. b \in Seq(0..255) /\ start0 \in Nat
  <2>1. f \in FileFields
    BY OpenConstants DEF OpenConstants
  <2>2. QED
    BY <2>1 DEF FileFields
<1>2. PICK wide \in (1..8) \ {7} :
            /\ groups(n) \in 1..wide
            /\ start0 <= Len(b)
            /\ SubSeq(b, start0 + 1, Len(b)) = WrittenTerminateur(n, wide)
  BY DEF InfinintLayout
<1> DEFINE w == SubSeq(b, start0 + 1, Len(b))
           way == (wide + 1) * TG
           m == (wide + 1) \div 8
           r == (wide + 1) % 8
<1> HIDE DEF b, start0, n
<1>3. Len(b) \in Nat /\ \A i \in 1..Len(b) : b[i] \in 0..255
  BY <1>1, LenProperties, ElementOfSeq
<1>4. /\ w \in Seq(0..255)
      /\ Len(w) = Len(b) - start0
      /\ \A i \in 1..(Len(b) - start0) : w[i] = b[start0 + i]
  <2>1. \A i \in (start0 + 1)..Len(b) : b[i] \in 0..255
    BY <1>1, <1>3
  <2>2. start0 + 1 \in Int /\ Len(b) \in Int
    BY <1>1, <1>3
  <2>3. /\ w \in Seq(0..255)
        /\ Len(w) = IF start0 + 1 <= Len(b) THEN Len(b) - (start0 + 1) + 1 ELSE 0
        /\ \A i \in 1..(Len(b) - (start0 + 1) + 1) : w[i] = b[(start0 + 1) + i - 1]
    <3> DEFINE from == start0 + 1
               to == Len(b)
    <3>1. \A i \in from..to : b[i] \in 0..255
      BY <2>1
    <3>2. from \in Int /\ to \in Int
      BY <2>2
    <3> HIDE DEF from, to
    <3>3. /\ SubSeq(b, from, to) \in Seq(0..255)
          /\ Len(SubSeq(b, from, to)) = IF from <= to THEN to - from + 1 ELSE 0
          /\ \A i \in 1..(to - from + 1) : SubSeq(b, from, to)[i] = b[from + i - 1]
      BY <3>1, <3>2, SubSeqProperties
    <3>4. QED
      BY <3>3 DEF from, to
  <2> HIDE DEF w
  <2>4. Len(b) - (start0 + 1) + 1 = Len(b) - start0
    BY <1>1, <1>3
  <2>5. \A i \in 1..(Len(b) - start0) : (start0 + 1) + i - 1 = start0 + i
    BY <1>1, <1>3
  <2>6. Len(w) = Len(b) - start0
    BY <2>3, <1>1, <1>2, <1>3
  <2>7. QED
    BY <2>3, <2>4, <2>5, <2>6
<1>5. /\ Len(w) = way + 1 + m
      /\ w[way + 1] = HighBits[r]
      /\ \A i \in (way + 1 + 1)..Len(w) : w[i] = 255
  <2>1. w = WrittenTerminateur(n, wide) /\ groups(n) \in 1..wide /\ wide \in (1..8) \ {7}
    BY <1>2
  <2> HIDE DEF w
  <2>2. w \in Seq(0..255)
    BY <1>4
  <2> HIDE DEF way, m, r
  <2>3. /\ Len(w) = (wide + 1) * TG + 1 + (wide + 1) \div 8
        /\ w[(wide + 1) * TG + 1] = HighBits[(wide + 1) % 8]
        /\ \A i \in ((wide + 1) * TG + 1 + 1)..Len(w) : w[i] = 255
    BY <2>1, <2>2, Trailer
  <2>4. way = (wide + 1) * TG /\ m = (wide + 1) \div 8 /\ r = (wide + 1) % 8
    BY DEF way, m, r
  <2>5. QED
    BY <2>3, <2>4, Zenon
<1>6. way \in Nat /\ m \in Nat /\ r \in 1..7 /\ 8 * m + r = wide + 1
  BY TerminateurConstants
<1> HIDE DEF w, way, m, r
<1> DEFINE k == start0 + way + 1
<1>7. /\ Len(b) = k + m /\ k \in 1..Len(b)
      /\ b[k] = HighBits[r]
      /\ \A i \in (k + 1)..Len(b) : b[i] = 255
  <2>1. Len(b) = k + m /\ k \in 1..Len(b)
    BY <1>1, <1>3, <1>4, <1>5, <1>6
  <2>2. way + 1 \in 1..(Len(b) - start0) /\ start0 + (way + 1) = k
    BY <2>1, <1>1, <1>3, <1>6
  <2>3. b[k] = HighBits[r]
    BY <2>2, <1>4, <1>5
  <2>4. ASSUME NEW i \in (k + 1)..Len(b)
        PROVE  b[i] = 255
    <3>1. /\ i - start0 \in 1..(Len(b) - start0) /\ start0 + (i - start0) = i
          /\ i - start0 \in (way + 1 + 1)..Len(w)
      BY <1>1, <1>3, <1>4, <1>6
    <3>2. QED
      BY <3>1, <1>4, <1>5
  <2>5. QED
    BY <2>1, <2>3, <2>4
<1>8. b[k] # 255 /\ unary[b[k]] = r
  BY <1>6, <1>7, UnaryOf
<1> HIDE DEF k
<1>9. padding(b) = m
  <2>1. padding(b) = Len(b) - k
    BY <1>1, <1>7, <1>8, PaddingIs
  <2>2. QED
    BY <2>1, <1>3, <1>6, <1>7
<1>10. Len(b) - m - 1 = start0 + way
  BY <1>1, <1>6, <1>7 DEF k
<1>11. Byte(b, start0 + way) = b[k]
  BY DEF Byte, k
<1>12. infinint_start(b) = (start0 + way) - (wide + 1) * TG
  <2>1. infinint_start(b) = (Len(b) - m - 1) - (8 * m + unary[Byte(b, Len(b) - m - 1)]) * TG
    BY <1>9 DEF infinint_start
  <2>2. Byte(b, Len(b) - m - 1) = b[k]
    BY <1>10, <1>11, Zenon
  <2>3. 8 * m + unary[Byte(b, Len(b) - m - 1)] = wide + 1
    BY <2>2, <1>6, <1>8, Zenon
  <2> DEFINE behind == Len(b) - m - 1
             bits == 8 * m + unary[Byte(b, behind)]
  <2>4. infinint_start(b) = behind - bits * TG /\ behind = start0 + way /\ bits = wide + 1
    BY <2>1, <2>3, <1>10, Zenon
  <2> HIDE DEF behind, bits
  <2>5. QED
    BY <2>4, Zenon
<1>13. infinint_start(b) = start0
  BY <1>1, <1>6, <1>12 DEF way
<1>14. QED
  BY <1>13 DEF b, start0

(***************************************************************************)
(* The bits behind an archive of format 7 or earlier lead to the infinint  *)
(* that gives the catalogue's place, for every size of a group, every      *)
(* number and every width of it that the writer's bytes can say            *)
(* (read_terminateur).                                                     *)
(***************************************************************************)
THEOREM TerminateurLeadsBack ==
    ASSUME InfinintLayout
    PROVE  OpenSpec => []LocatesInfinint
<1>1. OpenInv => LocatesInfinint
  BY LeadsBack, InfinintLayout DEF OpenInv, LocatesInfinint
<1>2. QED
  BY OpenSpecInv, <1>1, PTL
=============================================================================
