------------------------------- MODULE Fields -------------------------------
(***************************************************************************)
(* The fields of a catalogue entry.  Which fields dar writes after an      *)
(* entry's type byte depends on the entry's type and, in four generations  *)
(* (1, 2 to 7, 8, 9 and later), on the archive's format; nothing in the    *)
(* stream says where one field ends and the next begins, so a reader that  *)
(* takes one field too many or too few reads every later entry wrong.      *)
(*                                                                         *)
(* The stream is a sequence of tokens, one per field as it was written.    *)
(* parse_catalog, read_inode_base, read_file_fields and the functions they *)
(* call read it token by token; a read that asks for another kind of field *)
(* than the one that stands there is a misread.  The file may end before   *)
(* any token, or inside it.                                                *)
(***************************************************************************)
EXTENDS Integers, Sequences, SequencesExt

CONSTANTS
    Formats,         \* format_major
    Catalogues,      \* the sequences of entries written, see EntryFields
    GlobalComp,      \* the archive's compression letter
    WORD,            \* 2^64 in the code: an infinint below it fits a u64
    SHORT,           \* 2^16 in the code: a u16 is below it
    MAX_NUL_STRING,  \* the longest name or target, 64 KiB in the code
    MAX_CRC_SIZE,    \* the widest CRC
    None             \* a field that is absent

(***************************************************************************)
(* What dar knows of an entry.  unit is the precision of its timestamps,   *)
(* flags says whether it has full extended attributes ("ea"), filesystem   *)
(* attributes ("fsa"), both or "none".                                     *)
(***************************************************************************)
Types == {"d", "f", "l", "p", "s", "c"}
FlagValues == {"none", "fsa", "ea", "ea fsa"}
EntryFields ==
    [type : Types, name : [text : STRING, length : Nat], flags : FlagValues,
     uid : Nat, gid : Nat, mode : Nat, unit : {"s", "n", "u"},
     atime : Nat, mtime : Nat, ctime : Nat, fsa_crc_width : Nat,
     size : Nat, archive_offset : Nat, stored_size : Nat,
     compression : STRING, crc_width : Nat]

ASSUME FieldConstants ==
    /\ Formats \subseteq Nat \ {0}
    /\ WORD \in Nat \ {0} /\ WORD % 2 = 0
    /\ SHORT \in 1..WORD
    /\ MAX_NUL_STRING \in Nat
    /\ MAX_CRC_SIZE \in Nat
    /\ MAX_CRC_SIZE < WORD
    /\ None \notin Int
    /\ \A c \in Catalogues : c \in Seq(EntryFields)

VARIABLES
    format,    \* format_major
    written,   \* the entries dar wrote
    end,       \* how many tokens the file holds whole
    at,        \* the next token
    pc,        \* what the parser reads next, or how it ended
    inode,     \* the entry in progress
    listed     \* the entries listed so far

vars == <<format, written, end, at, pc, inode, listed>>

-----------------------------------------------------------------------------
(***************************************************************************)
(* The writer: dar, for each format.                                       *)
(***************************************************************************)
Token(kind, field, value, width) ==
    [kind |-> kind, field |-> field, value |-> value, width |-> width]
U8(field, value) == <<Token("u8", field, value, 1)>>
\* dar writes the low 16 bits of a number that needs more.
U16(field, value) == <<Token("u16", field, value % SHORT, 2)>>
Inf(field, value) == <<Token("inf", field, value, 5)>>
Nul(field, name) == <<Token("nul", field, name.text, name.length)>>
Raw(field, n) == IF n = 0 THEN << >> ELSE <<Token("raw", field, n, n)>>
When(condition, tokens) == IF condition THEN tokens ELSE << >>

HasEa(flags) == flags \in {"ea", "ea fsa"}
HasFsa(flags) == flags \in {"fsa", "ea fsa"}

WrittenTime(field, seconds, unit) ==
    When(format >= 9, U8("unit", unit)) \o Inf(field, seconds)
        \o When(format >= 9 /\ unit # "s", Inf("subsecond", 0))

WrittenInode(e) ==
    When(format >= 2, U8("flags", e.flags))
    \o (IF format <= 7 THEN U16("uid", e.uid) \o U16("gid", e.gid)
                       ELSE Inf("uid", e.uid) \o Inf("gid", e.gid))
    \o U16("mode", e.mode)
    \o WrittenTime("atime", e.atime, e.unit)
    \o WrittenTime("mtime", e.mtime, e.unit)
    \o When(format >= 8, WrittenTime("ctime", e.ctime, e.unit))
    \o When(format >= 2 /\ HasEa(e.flags), Raw("ea", 7))
    \o When(format >= 9 /\ HasFsa(e.flags),
            Inf("fsa_families", 0) \o Inf("fsa_size", 0) \o Inf("fsa_offset", 0)
                \o Inf("fsa_crc_width", e.fsa_crc_width) \o Raw("fsa_crc", e.fsa_crc_width))

WrittenFile(e) ==
    Inf("size", e.size) \o Inf("archive_offset", e.archive_offset)
    \o When(format >= 2, Inf("stored_size", e.stored_size))
    \o When(format >= 8, U8("file_data_status", "none") \o U8("compression", e.compression)
                             \o Inf("crc_width", e.crc_width) \o Raw("crc", e.crc_width))
    \o When(format \in 2..7, Raw("crc", 2))

\* A device, for one, which the parser does not know, is a type and a rest.
WrittenEntry(e) ==
    U8("type", e.type)
    \o CASE e.type = "c" -> Nul("name", e.name) \o WrittenInode(e) \o Raw("device", 4)
         [] e.type = "f" -> Nul("name", e.name) \o WrittenInode(e) \o WrittenFile(e)
         [] e.type = "l" -> Nul("name", e.name) \o WrittenInode(e) \o Nul("target", e.name)
         [] OTHER -> Nul("name", e.name) \o WrittenInode(e)

EntryTokens(entries) == FlattenSeq([i \in DOMAIN entries |-> WrittenEntry(entries[i])])
stream == EntryTokens(written) \o U8("type", "z")

-----------------------------------------------------------------------------
(***************************************************************************)
(* The reader.  A call reads a row of fields of the given kinds: it gets   *)
(* them, meets the end of the file, meets another kind of field, or finds  *)
(* an infinint that does not fit.                                          *)
(***************************************************************************)
Ended == {"closed", "stopped", "io", "corrupt", "misread"}

Here(j) == stream[at + j - 1]
Stands(kinds, j) == at + j - 1 <= end /\ Here(j).kind = kinds[j]
FitsWord(kinds, j) == kinds[j] = "inf" => Here(j).value < WORD
FitsString(kinds, j) == kinds[j] = "nul" => Here(j).width <= MAX_NUL_STRING

\* How a row that is good up to its field j - 1 may fail at field j.  Of a
\* field that is too large enough may be left for that to be seen.
Failures(kinds, j) ==
    CASE at + j - 1 <= end /\ Here(j).kind # kinds[j] -> {"misread"}
      [] at + j - 1 <= end -> {"corrupt"}
      [] at + j - 1 = end + 1 /\ at + j - 1 <= Len(stream) /\ Here(j).kind = kinds[j]
             /\ ~(FitsWord(kinds, j) /\ FitsString(kinds, j)) -> {"io", "corrupt"}
      [] OTHER -> {"io"}
Good(kinds, j) == Stands(kinds, j) /\ FitsWord(kinds, j) /\ FitsString(kinds, j)
Reads(kinds) == \A j \in DOMAIN kinds : Good(kinds, j)

Get(here, kinds, then, values) ==
    /\ pc = here
    /\ Reads(kinds)
    /\ pc' = then
    /\ at' = at + Len(kinds)
    /\ inode' = values
    /\ UNCHANGED <<format, written, end, listed>>

Lose(here, kinds) ==
    /\ pc = here
    /\ \E j \in DOMAIN kinds :
          /\ \A k \in 1..(j - 1) : Good(kinds, k)
          /\ ~Good(kinds, j)
          /\ pc' \in Failures(kinds, j)
    /\ UNCHANGED <<format, written, end, at, inode, listed>>

\* Fields that carry no value of the listing are read and dropped.
Call(here, kinds, then, values) ==
    Get(here, kinds, then, values) \/ Lose(here, kinds)
Val(j) == Here(j).value

\* `secs as i64`.
as_i64(seconds) == IF seconds < WORD \div 2 THEN seconds ELSE seconds - WORD

Blank == [name |-> None, flags |-> "none", uid |-> None, gid |-> None, mode |-> None,
          atime |-> None, mtime |-> None, ctime |-> None, size |-> 0,
          archive_offset |-> 0, stored_size |-> 0, compression |-> "n", crc |-> None,
          target |-> None, type |-> None]

Init ==
    /\ format \in Formats
    /\ written \in Catalogues
    /\ end \in 0..Len(stream)
    /\ at = 1
    /\ pc = "type"
    /\ inode = Blank
    /\ listed = << >>

\* An end of the file here ends the walk without an error.
ReadType ==
    /\ pc = "type"
    /\ IF ~Stands(<<"u8">>, 1)
       THEN /\ pc' = IF at > end THEN "stopped" ELSE "misread"
            /\ UNCHANGED <<at, inode>>
       ELSE /\ pc' = CASE Val(1) = "z" -> "closed"
                       [] Val(1) \in Types \ {"c"} -> "name"
                       [] OTHER -> "stopped"
            /\ at' = at + 1
            /\ inode' = [Blank EXCEPT !.type = Val(1)]
    /\ UNCHANGED <<format, written, end, listed>>

ReadName ==
    Call("name", <<"nul">>, IF format >= 2 THEN "flags" ELSE "owner",
         [inode EXCEPT !.name = Val(1)])

ReadFlags == Call("flags", <<"u8">>, "owner", [inode EXCEPT !.flags = Val(1)])

\* Faulty: format 8 still has 2-byte owners.
owner_kinds_UpTo8 == IF format <= 8 THEN <<"u16", "u16">> ELSE <<"inf", "inf">>

owner_kinds == IF format <= 7 THEN <<"u16", "u16">> ELSE <<"inf", "inf">>
ReadOwner ==
    Call("owner", owner_kinds, "mode", [inode EXCEPT !.uid = Val(1), !.gid = Val(2)])

ReadMode == Call("mode", <<"u16">>, "atime", [inode EXCEPT !.mode = Val(1)])

\* read_timestamp: the unit byte, if any, says whether a second number follows.
time_kinds ==
    IF format < 9 THEN <<"inf">>
    ELSE IF at <= end /\ Val(1) \in {"n", "u"} THEN <<"u8", "inf", "inf">>
    ELSE <<"u8", "inf">>
seconds_at == IF format < 9 THEN 1 ELSE 2
ReadTime(field, then) ==
    Call(field, time_kinds, then, [inode EXCEPT ![field] = as_i64(Val(seconds_at))])

after_times == IF format >= 9 /\ HasFsa(inode.flags) THEN "fsa" ELSE "rest"

ReadTimes ==
    \/ ReadTime("atime", "mtime")
    \/ ReadTime("mtime", IF format >= 8 THEN "ctime" ELSE after_times)
    \/ ReadTime("ctime", after_times)

\* The two FSA fields of the inode, then skip_fsa's tag.
ReadFsa == Call("fsa", <<"inf", "inf", "inf">>, "fsa size", inode)

\* A seek takes a signed distance.
SkipsTooFar(size) == size > WORD \div 2 - 1

\* skip_fsa's size, and a seek over that many bytes, which does not notice the
\* end of the file.
SkipFsa ==
    \/ /\ pc = "fsa size"
       /\ Reads(<<"inf">>)
       /\ LET size == Val(1) IN
          \/ /\ SkipsTooFar(size)
             /\ pc' = "corrupt"
             /\ UNCHANGED at
          \/ /\ ~SkipsTooFar(size)
             /\ pc' = IF size = 0 \/ Here(2).width = size THEN "rest" ELSE "misread"
             /\ at' = IF size = 0 THEN at + 1 ELSE at + 2
       /\ UNCHANGED <<format, written, end, inode, listed>>
    \/ Lose("fsa size", <<"inf">>)

List(here, kinds, entry) ==
    \/ /\ pc = here
       /\ Reads(kinds)
       /\ pc' = "type"
       /\ at' = at + Len(kinds)
       /\ listed' = Append(listed, entry)
       /\ inode' = Blank
       /\ UNCHANGED <<format, written, end>>
    \/ Lose(here, kinds)

\* A directory, pipe or socket has no more fields; a symlink has its target.
FinishInode ==
    /\ inode.type \in {"d", "p", "s"}
    /\ List("rest", << >>, inode)
FinishSymlink ==
    /\ inode.type = "l"
    /\ List("rest", <<"nul">>, [inode EXCEPT !.target = Val(1)])

\* Faulty: the offset is taken for the size and the size for the offset.
ReadSizes_Swapped ==
    /\ inode.type = "f"
    /\ Call("rest", <<"inf", "inf">>, "stored",
            [inode EXCEPT !.archive_offset = Val(1), !.size = Val(2)])

ReadSizes ==
    /\ inode.type = "f"
    /\ Call("rest", <<"inf", "inf">>, "stored",
            [inode EXCEPT !.size = Val(1), !.archive_offset = Val(2)])

\* Before format 8 a stored size of 0 stands for the size.
legacy_stored(stored) == IF stored = 0 THEN inode.size ELSE stored

\* Faulty: format 1 leaves the stored size unknown.
FinishEdition1_Unsized ==
    /\ format = 1
    /\ List("stored", << >>,
            [inode EXCEPT !.stored_size = None, !.compression = GlobalComp])

FinishEdition1 ==
    /\ format = 1
    /\ List("stored", << >>,
            [inode EXCEPT !.stored_size = inode.size, !.compression = GlobalComp])

FinishLegacy ==
    /\ format \in 2..7
    /\ List("stored", <<"inf", "raw">>,
            [inode EXCEPT !.stored_size = legacy_stored(Val(1)),
                          !.compression = GlobalComp, !.crc = 2])

ReadStored ==
    /\ format >= 8
    /\ Call("stored", <<"inf", "u8", "u8">>, "crc",
            [inode EXCEPT !.stored_size = Val(1), !.compression = Val(3)])

\* Faulty: the bound on the width of a CRC is off by one.
TooWide_Strict(width) == width >= MAX_CRC_SIZE

TooWide(width) == width > MAX_CRC_SIZE

\* read_crc: a width, then that many bytes; a width of 0 is no CRC.
crc_width == IF Reads(<<"inf">>) THEN Val(1) ELSE 0
CrcTooWide ==
    /\ pc = "crc"
    /\ TooWide(crc_width)
    /\ pc' = "corrupt"
    /\ UNCHANGED <<format, written, end, at, inode, listed>>
FinishFile ==
    /\ ~TooWide(crc_width)
    /\ IF crc_width = 0 THEN List("crc", <<"inf">>, inode)
       ELSE List("crc", <<"inf", "raw">>, [inode EXCEPT !.crc = Val(2)])

Next ==
    \/ ReadType \/ ReadName \/ ReadFlags \/ ReadOwner \/ ReadMode \/ ReadTimes
    \/ ReadFsa \/ SkipFsa
    \/ FinishInode \/ FinishSymlink
    \/ ReadSizes \/ FinishEdition1 \/ FinishLegacy
    \/ ReadStored \/ CrcTooWide \/ FinishFile

Spec == Init /\ [][Next]_vars
-----------------------------------------------------------------------------
(***************************************************************************)
(* Types of the listing: every entry has an owner, a mode and its times,   *)
(* and every file a size, an offset and a stored size, in every format.    *)
(***************************************************************************)
TypeOK ==
    /\ end \in 0..Len(stream)
    /\ at \in 1..(Len(stream) + 1)
    /\ pc \in {"type", "name", "flags", "owner", "mode", "atime", "mtime", "ctime", "fsa",
               "fsa size", "rest", "stored", "crc"} \cup Ended
    /\ \A i \in DOMAIN listed :
          /\ {listed[i].uid, listed[i].gid, listed[i].mode, listed[i].size,
              listed[i].archive_offset, listed[i].stored_size} \subseteq 0..(WORD - 1)
          /\ {listed[i].atime, listed[i].mtime}
                 \subseteq -(WORD \div 2)..(WORD \div 2 - 1)
          /\ listed[i].ctime = None <=> format < 8

(***************************************************************************)
(* The parser never asks for another kind of field than the one that was   *)
(* written there, in any format, whatever the entries before: it is never  *)
(* out of step with the stream.                                            *)
(***************************************************************************)
NeverMisreads == pc # "misread"

(***************************************************************************)
(* Each field of the listing is the one that dar wrote under that name,    *)
(* and not its neighbour of the same kind; a field the format lacks is     *)
(* filled in as the code documents.  A time of 2^63 or more is listed as   *)
(* one before the epoch.                                                   *)
(***************************************************************************)
WrittenAs(i, field) ==
    {t.value : t \in {u \in Range(WrittenEntry(written[i])) : u.field = field}}

ReadsWhatWasWritten ==
    \A i \in DOMAIN listed :
        /\ \A field \in DOMAIN Blank \ {"atime", "mtime", "ctime", "stored_size"} :
              \A v \in WrittenAs(i, field) : listed[i][field] = v
        /\ \A field \in {"atime", "mtime", "ctime"} :
              \A v \in WrittenAs(i, field) :
                  IF v < WORD \div 2 THEN listed[i][field] = v ELSE listed[i][field] < 0
        /\ LET stored == WrittenAs(i, "stored_size") IN
           listed[i].type = "f" =>
               IF stored = {} \/ (format <= 7 /\ stored = {0})
               THEN {listed[i].stored_size} = WrittenAs(i, "size")
               ELSE {listed[i].stored_size} = stored
        /\ listed[i].type = "f" /\ format <= 7 => listed[i].compression = GlobalComp

(***************************************************************************)
(* An entry is refused as corrupt exactly when one of its numbers does not *)
(* fit what it is read into, and no such entry is listed; a read error     *)
(* means that the file is cut; a catalogue read to its end lists all of    *)
(* its entries.                                                            *)
(***************************************************************************)
Excessive(t) ==
    \/ t.kind = "inf" /\ t.value >= WORD
    \/ t.kind = "nul" /\ t.width > MAX_NUL_STRING
    \/ t.field = "crc_width" /\ t.value > MAX_CRC_SIZE
    \/ t.field = "fsa_crc_width" /\ t.value >= WORD \div 2
HasExcess(e) == \E t \in Range(WrittenEntry(e)) : Excessive(t)

ErrorsAreEarned ==
    /\ \A i \in DOMAIN listed : ~HasExcess(written[i])
    /\ pc = "corrupt" => HasExcess(written[Len(listed) + 1])
    /\ pc = "io" => end < Len(stream)
    /\ pc = "closed" => Len(listed) = Len(written)
=============================================================================
