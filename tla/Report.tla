------------------------------- MODULE Report -------------------------------
(***************************************************************************)
(* What the forensic crate makes of a parsed catalogue: audit(), the list  *)
(* of anomalies, the most severe first, and write_bodyfile(), one line of  *)
(* text per entry for the Sleuth Kit.  Both walk the listing once; neither *)
(* reads the archive.                                                      *)
(*                                                                         *)
(* A path is the sequence of its characters.  One that is not UTF-8 is     *)
(* shown as REPLACEMENT.                                                   *)
(***************************************************************************)
EXTENDS Integers, Sequences, SequencesExt, FiniteSetsExt

CONSTANTS
    Listings,     \* the catalogues: [entries, complete]
    FAR_FUTURE,   \* the latest plausible time
    Code,         \* the control characters' codes: below 32, or 127
    Invalid,      \* characters that are not UTF-8
    REPLACEMENT,
    ToText,       \* a number as text: one character here
    None          \* no ctime, no symlink target

Controls == DOMAIN Code
NEWLINE == CHOOSE c \in Controls : Code[c] = 10

\* The characters that write_bodyfile writes of itself.
Printed ==
    {"0", "1", "2", "3", "4", "5", "6", "7", "8", "9", "a", "b", "c", "d", "e", "f", "l", "p",
     "r", "w", "x", "s", "S", "t", "T", "/", "\\", "|", " ", "-", ">"}

(***************************************************************************)
(* An entry as audit() and bodyfile::line see it.                          *)
(***************************************************************************)
Kinds == {"File", "Directory", "Symlink", "Hardlink", "CharDevice", "BlockDevice",
          "NamedPipe", "Socket", "Unknown"}
Paths == Seq(STRING)
Modes == 0..65535
Times == Int \cup {None}
Targets == Paths \cup {None}
EntryFields ==
    [path : Paths, kind : Kinds, mode : Modes, uid : Nat, gid : Nat, size : Nat,
     atime : Int, mtime : Int, ctime : Times, target : Targets]

ASSUME ReportConstants ==
    /\ \A l \in Listings : l.complete \in BOOLEAN /\ l.entries \in Seq(EntryFields)
    /\ FAR_FUTURE \in Int
    /\ \A c \in Controls : Code[c] \in (0..31) \cup {127}
    /\ \E c \in Controls : Code[c] = 10
    /\ \A c, d \in Controls : Code[c] = Code[d] => c = d
    /\ Controls \cap Printed = {}
    /\ \A n \in DOMAIN ToText : ToText[n] \notin Controls \cup {"|", "\\"}
    /\ \A l \in Listings : \A i \in DOMAIN l.entries :
         LET e == l.entries[i] IN
         {0, e.uid, e.gid, e.size, e.atime, e.mtime} \cup ({e.ctime} \ {None})
             \subseteq DOMAIN ToText

VARIABLES
    entries,    \* the catalogue's entries
    complete,   \* is_complete()
    phase,      \* the call in progress, or how it ended
    next,       \* the next entry
    anomalies,  \* audit's list
    seen,       \* seen
    dup_seen,   \* dup_seen
    out         \* what write_bodyfile has written

vars == <<entries, complete, phase, next, anomalies, seen, dup_seen, out>>

lossy(path) == [i \in DOMAIN path |-> IF path[i] \in Invalid THEN REPLACEMENT ELSE path[i]]

-----------------------------------------------------------------------------
(***************************************************************************)
(* audit()                                                                 *)
(***************************************************************************)
Anomaly(kind, path) == [kind |-> kind, path |-> path]
When(condition, kind, path) == IF condition THEN <<Anomaly(kind, path)>> ELSE << >>

severity(a) ==
    CASE a.kind = "IncompleteCatalog" -> "High"
      [] a.kind \in {"AbsolutePath", "ParentTraversal"} -> "Medium"
      [] OTHER -> "Low"

IsAbsolute(path) == path # << >> /\ path[1] = "/"

\* A component is what stands between two slashes, or a slash and an end.
IsTraversal(path) ==
    \E i \in 1..(Len(path) - 1) :
        /\ path[i] = "." /\ path[i + 1] = "."
        /\ i = 1 \/ path[i - 1] = "/"
        /\ i + 2 > Len(path) \/ path[i + 2] = "/"
HasControls(path) == \E i \in DOMAIN path : path[i] \in Controls
IsFuture(t) == t # None /\ t > FAR_FUTURE

\* What is wrong with one entry alone, in the order of the checks.
Observations(e) ==
    LET path == lossy(e.path) IN
    When(IsAbsolute(e.path), "AbsolutePath", path)
    \o When(IsTraversal(e.path), "ParentTraversal", path)
    \o When(HasControls(e.path), "ControlCharsInName", path)
    \o When(IsFuture(e.atime), "FutureTimestamp", path)
    \o When(IsFuture(e.mtime), "FutureTimestamp", path)
    \o When(IsFuture(e.ctime), "FutureTimestamp", path)

Init ==
    /\ \E l \in Listings : entries = l.entries /\ complete = l.complete
    /\ phase = "called"
    /\ next = 1
    /\ anomalies = << >>
    /\ seen = {}
    /\ dup_seen = {}
    /\ out = << >>

CallAudit ==
    /\ phase = "called"
    /\ phase' = "auditing"
    /\ anomalies' = When(~complete, "IncompleteCatalog", << >>)
    /\ UNCHANGED <<entries, complete, next, seen, dup_seen, out>>

\* Faulty: the name that is shown is taken for the path.
Examine_Lossy ==
    /\ phase = "auditing"
    /\ next <= Len(entries)
    /\ LET e == entries[next]
           path == lossy(e.path)
           again == path \in seen /\ path \notin dup_seen
       IN /\ anomalies' = anomalies \o Observations(e) \o When(again, "DuplicatePath", path)
          /\ seen' = seen \cup {path}
          /\ dup_seen' = IF path \in seen THEN dup_seen \cup {path} ELSE dup_seen
    /\ next' = next + 1
    /\ UNCHANGED <<entries, complete, phase, out>>

Examine ==
    /\ phase = "auditing"
    /\ next <= Len(entries)
    /\ LET e == entries[next]
           again == e.path \in seen /\ e.path \notin dup_seen
       IN /\ anomalies' = anomalies \o Observations(e)
                              \o When(again, "DuplicatePath", lossy(e.path))
          /\ seen' = seen \cup {e.path}
          /\ dup_seen' = IF e.path \in seen THEN dup_seen \cup {e.path} ELSE dup_seen
    /\ next' = next + 1
    /\ UNCHANGED <<entries, complete, phase, out>>

Rank == [Low |-> 1, Medium |-> 2, High |-> 3]

\* Faulty: the least severe first, that is, without the Reverse.
Precedes_Ascending(list, i, j) ==
    LET first == Rank[severity(list[i])]
        second == Rank[severity(list[j])]
    IN first < second \/ (first = second /\ i < j)

\* The sort is stable: what is equally severe keeps its order.
Precedes(list, i, j) ==
    LET first == Rank[severity(list[i])]
        second == Rank[severity(list[j])]
    IN first > second \/ (first = second /\ i < j)

place(list, i) == 1 + Cardinality({j \in DOMAIN list : Precedes(list, j, i)})
BySeverity(list) ==
    [k \in DOMAIN list |-> list[CHOOSE i \in DOMAIN list : place(list, i) = k]]

SortAnomalies ==
    /\ phase = "auditing"
    /\ next > Len(entries)
    /\ phase' = "audited"
    /\ anomalies' = BySeverity(anomalies)
    /\ UNCHANGED <<entries, complete, next, seen, dup_seen, out>>

-----------------------------------------------------------------------------
(***************************************************************************)
(* write_bodyfile()                                                        *)
(***************************************************************************)
type_letter ==
    [File |-> "r", Hardlink |-> "r", Directory |-> "d", Symlink |-> "l", NamedPipe |-> "p",
     Socket |-> "s", CharDevice |-> "c", BlockDevice |-> "b", Unknown |-> "-"]

Bit(mode, n) == (mode \div 2 ^ n) % 2 = 1

perm_string(mode) ==
    LET RWX == <<"r", "w", "x">>
        plain == [i \in 1..9 |-> IF Bit(mode, 9 - i) THEN RWX[((i - 1) % 3) + 1] ELSE "-"]
        marked(slot, low, high) == IF slot = "x" THEN low ELSE high
    IN [plain EXCEPT ![3] = IF Bit(mode, 11) THEN marked(@, "s", "S") ELSE @,
                     ![6] = IF Bit(mode, 10) THEN marked(@, "s", "S") ELSE @,
                     ![9] = IF Bit(mode, 9) THEN marked(@, "t", "T") ELSE @]

HEX == <<"0", "1", "2", "3", "4", "5", "6", "7", "8", "9", "a", "b", "c", "d", "e", "f">>
hex(c) == <<"\\", "x", HEX[(Code[c] \div 16) + 1], HEX[(Code[c] % 16) + 1]>>

\* Faulty: pipes and controls are escaped, backslashes are not.
escape_Ambiguous(c) ==
    CASE c = "|" -> <<"\\", c>>
      [] c \in Controls -> hex(c)
      [] OTHER -> <<c>>

escape(c) ==
    CASE c \in {"\\", "|"} -> <<"\\", c>>
      [] c \in Controls -> hex(c)
      [] OTHER -> <<c>>

escape_name(name) ==
    LET pushed[i \in 0..Len(name)] ==
            IF i = 0 THEN << >> ELSE pushed[i - 1] \o escape(name[i])
    IN pushed[Len(name)]

ARROW == <<" ", "-", ">", " ">>
shown_name(e) ==
    escape_name(lossy(e.path))
        \o IF e.target = None THEN << >> ELSE ARROW \o escape_name(lossy(e.target))

Number(n) == <<"|", ToText[n]>>
line(e) ==
    <<"0", "|">> \o shown_name(e) \o Number(0)
        \o <<"|", type_letter[e.kind], "/", type_letter[e.kind]>> \o perm_string(e.mode)
        \o Number(e.uid) \o Number(e.gid) \o Number(e.size)
        \o Number(e.atime) \o Number(e.mtime)
        \o Number(IF e.ctime = None THEN 0 ELSE e.ctime) \o Number(0)

CallBodyfile ==
    /\ phase = "called"
    /\ phase' = "writing"
    /\ UNCHANGED <<entries, complete, next, anomalies, seen, dup_seen, out>>

WriteLine ==
    /\ phase = "writing"
    /\ next <= Len(entries)
    /\ out' = out \o Append(line(entries[next]), NEWLINE)
    /\ next' = next + 1
    /\ UNCHANGED <<entries, complete, phase, anomalies, seen, dup_seen>>

Written ==
    /\ phase = "writing"
    /\ next > Len(entries)
    /\ phase' = "written"
    /\ UNCHANGED <<entries, complete, next, anomalies, seen, dup_seen, out>>

\* The writer fails in the middle of a line, or after it; the walk ends.
WriteFails ==
    /\ phase = "writing"
    /\ next <= Len(entries)
    /\ \E n \in 0..Len(line(entries[next])) : out' = out \o SubSeq(line(entries[next]), 1, n)
    /\ phase' = "failed"
    /\ UNCHANGED <<entries, complete, next, anomalies, seen, dup_seen>>

Next ==
    \/ CallAudit \/ Examine \/ SortAnomalies
    \/ CallBodyfile \/ WriteLine \/ Written \/ WriteFails

Spec == Init /\ [][Next]_vars

-----------------------------------------------------------------------------
(***************************************************************************)
(* Properties                                                              *)
(***************************************************************************)

(* The type invariant: audit()'s sets hold the stored paths of the entries  *)
(* examined, the second none that the first has not.                       *)
TypeOK ==
    /\ phase \in {"called", "auditing", "audited", "writing", "written", "failed"}
    /\ next \in 1..(Len(entries) + 1)
    /\ complete \in BOOLEAN
    /\ dup_seen \subseteq seen
    /\ seen \subseteq {entries[i].path : i \in 1..(next - 1)}
    /\ phase \notin {"auditing", "audited"} => anomalies = << >>
    /\ phase \notin {"writing", "written", "failed"} => out = << >>

Reported(kind, path) ==
    Cardinality({i \in DOMAIN anomalies : anomalies[i] = Anomaly(kind, path)})
\* Where in the first n entries this is wrong with one entry alone.
Observed(n, anomaly) ==
    {p \in (1..n) \X (1..6) :
        LET list == Observations(entries[p[1]])
        IN p[2] \in DOMAIN list /\ list[p[2]] = anomaly}
Shown == {lossy(entries[i].path) : i \in DOMAIN entries}
StoredTwice ==
    {entries[i].path : i \in {j \in DOMAIN entries :
        \E k \in DOMAIN entries : k # j /\ entries[k].path = entries[j].path}}

(* The audit is neither short nor repetitive, however the entries are       *)
(* ordered and whatever their paths look like: a path stored by several     *)
(* entries is reported once, two paths that only look alike are not, what   *)
(* is wrong with one entry is reported once for that entry, and a truncated *)
(* catalogue once (audit).                                                 *)
ReportsExactly ==
    phase = "audited" =>
        /\ \A q \in Shown :
            /\ Reported("DuplicatePath", q) = Cardinality({p \in StoredTwice : lossy(p) = q})
            /\ \A kind \in {"AbsolutePath", "ParentTraversal", "ControlCharsInName",
                            "FutureTimestamp"} :
                Reported(kind, q) = Cardinality(Observed(Len(entries), Anomaly(kind, q)))
        /\ Reported("IncompleteCatalog", << >>) = IF complete THEN 0 ELSE 1
        /\ \A i \in DOMAIN anomalies :
            anomalies[i].kind # "IncompleteCatalog" => anomalies[i].path \in Shown

OnlyEntry(i, path) ==
    {j \in DOMAIN entries : lossy(entries[j].path) = path} = {i}

(* What is worst comes first, and what is equally severe comes in the       *)
(* catalogue's order (the sort of audit).                                  *)
WorstFirst ==
    phase = "audited" =>
        \A i, j \in DOMAIN anomalies : i < j =>
            LET first == Rank[severity(anomalies[i])]
                second == Rank[severity(anomalies[j])]
            IN /\ first >= second
               /\ first = second => \A k, m \in DOMAIN entries :
                    OnlyEntry(k, anomalies[i].path) /\ OnlyEntry(m, anomalies[j].path) => k <= m

(***************************************************************************)
(* How a reader takes the bodyfile apart, one character after the other:   *)
(* the whole lines, each a sequence of fields, the fields of the line it   *)
(* is in, the text of the field it is in, and of an escape what it has.    *)
(***************************************************************************)
Reader(lines, fields, field, begun) ==
    [lines |-> lines, fields |-> fields, field |-> field, begun |-> begun]

Unfinished(unit) == unit = <<"\\">> \/ (Len(unit) \in 2..3 /\ unit[2] = "x")
Coded(high, low) ==
    {c \in Controls : \E i, j \in 0..15 :
        HEX[i + 1] = high /\ HEX[j + 1] = low /\ Code[c] = 16 * i + j}
Meaning(unit) ==
    IF Len(unit) = 4 /\ Coded(unit[3], unit[4]) # {}
    THEN CHOOSE c \in Coded(unit[3], unit[4]) : TRUE
    ELSE unit[Len(unit)]

Read(r, c) ==
    LET unit == Append(r.begun, c) IN
    CASE unit = <<"|">> -> Reader(r.lines, Append(r.fields, r.field), << >>, << >>)
      [] unit = <<NEWLINE>> ->
            Reader(Append(r.lines, Append(r.fields, r.field)), << >>, << >>, << >>)
      [] Unfinished(unit) -> Reader(r.lines, r.fields, r.field, unit)
      [] OTHER -> Reader(r.lines, r.fields, Append(r.field, Meaning(unit)), << >>)

\* The reader after it has read a text.
After(r, text) ==
    LET at[i \in 0..Len(text)] == IF i = 0 THEN r ELSE Read(at[i - 1], text[i])
    IN at[Len(text)]

\* Which of the twelve mode bits a permission string shows.
ShowsBit(s, n) ==
    IF n < 9 THEN s[9 - n] \notin {"-", "S", "T"} ELSE s[3 * (12 - n)] \in {"s", "S", "t", "T"}

Describes(f, e) ==
    LET text(n) == <<ToText[n]>>
    IN /\ Len(f) = 11
       /\ f[2] = lossy(e.path) \o IF e.target = None THEN << >> ELSE ARROW \o lossy(e.target)
       /\ \A n \in 0..11 : ShowsBit(SubSeq(f[4], 4, 12), n) <=> Bit(e.mode, n)
       /\ f[5] = text(e.uid) /\ f[6] = text(e.gid) /\ f[7] = text(e.size)
       /\ f[8] = text(e.atime) /\ f[9] = text(e.mtime)
       /\ e.ctime # None => f[10] = text(e.ctime)

(* A bodyfile can be read back: its k-th line has eleven fields and gives    *)
(* the k-th entry's name, target, mode, owners, size and times, whatever     *)
(* bars, backslashes and line breaks the name holds, and a failing writer    *)
(* leaves whole lines and at most one unfinished (write_bodyfile, line,      *)
(* escape_name, perm_string).                                               *)
LinesAreEntries ==
    phase \in {"writing", "written", "failed"} =>
        LET read == After(Reader(<< >>, << >>, << >>, << >>), out) IN
        /\ Len(read.lines) = next - 1
        /\ \A k \in 1..(next - 1) : Describes(read.lines[k], entries[k])
        /\ phase = "written" =>
            /\ next = Len(entries) + 1
            /\ read = Reader(read.lines, << >>, << >>, << >>)
=============================================================================
