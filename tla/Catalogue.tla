------------------------------ MODULE Catalogue ------------------------------
(***************************************************************************)
(* parse_catalog: the walk of the catalogue's depth-first listing, which   *)
(* rebuilds every entry's path from a stack of directory names and tells a *)
(* whole listing from a cut one.                                           *)
(*                                                                         *)
(* Each step is one turn of the parser's loop on the next entry of the     *)
(* stream.  What dar wrote is not a value but a second actor: with every   *)
(* entry the parser reads, Write... records the entry's true path.  The    *)
(* stream may end anywhere, may hold entries the parser does not handle or *)
(* that are malformed, and may begin with the end of a directory that was  *)
(* never opened.  A path is the sequence of its names; the fields of an    *)
(* inode are read whole or not at all.                                     *)
(***************************************************************************)
EXTENDS Integers, Sequences, SequencesExt

CONSTANTS
    ROOT,        \* the name <ROOT>
    RootNames,   \* names dar gives the archive's root: <ROOT>, or "root"
    Names,       \* names of the files and directories in the archive
    MaxEntries,  \* bound: entries written below the root
    MaxDepth     \* bound: directories open at once

ASSUME CatalogueConstants ==
    /\ MaxEntries \in Nat
    /\ MaxDepth \in Nat

Kinds == {"Directory", "File", "Symlink", "NamedPipe", "Socket"}
Leaves == Kinds \ {"Directory"}

VARIABLES
    depth,      \* parse_catalog's depth
    dir_stack,  \* parse_catalog's dir_stack
    entries,    \* the entries listed so far: [path, kind]
    complete,   \* parse_catalog's complete
    outcome,    \* "parsing", "ok", or the error open() returns
    open,       \* what dar wrote: the directories open here, the root first
    written,    \* what dar wrote: the entries so far, with their true paths
    closed,     \* what dar wrote: the root has been closed
    stray       \* not by dar: an end of directory stands before the root

reader == <<depth, dir_stack, entries, complete, outcome>>
writer == <<open, written, closed, stray>>
vars == <<depth, dir_stack, entries, complete, outcome, open, written, closed, stray>>

-----------------------------------------------------------------------------
Init ==
    /\ depth = 0
    /\ dir_stack = << >>
    /\ entries = << >>
    /\ complete = FALSE
    /\ outcome = "parsing"
    /\ open = << >>
    /\ written = << >>
    /\ closed = FALSE
    /\ stray = FALSE

(***************************************************************************)
(* The archive dar wrote: the root, then the tree below it depth first,    *)
(* each directory ended by an EOD.  A root named <ROOT> is no part of any  *)
(* path; one with another name is the first name of every path.            *)
(***************************************************************************)
Prefix == IF open[1] = ROOT THEN Tail(open) ELSE open

WriteRoot(name) ==
    /\ open = << >>
    /\ ~closed
    /\ name \in RootNames
    /\ open' = <<name>>
    /\ UNCHANGED <<written, closed, stray>>

WriteEntry(name, kind) ==
    /\ open # << >>
    /\ name \in Names
    /\ Len(written) < MaxEntries
    /\ written' = Append(written, [path |-> Append(Prefix, name), kind |-> kind])

WriteDirectory(name) ==
    /\ WriteEntry(name, "Directory")
    /\ Len(open) < MaxDepth
    /\ open' = Append(open, name)
    /\ UNCHANGED <<closed, stray>>

WriteLeaf(name, kind) ==
    /\ WriteEntry(name, kind)
    /\ UNCHANGED <<open, closed, stray>>

WriteEnd ==
    /\ open # << >>
    /\ open' = Front(open)
    /\ closed' = (Len(open) = 1)
    /\ UNCHANGED <<written, stray>>

\* dar never begins with this mark: a damaged archive may, or one in which
\* the parse began at the wrong place.
WriteStrayEnd ==
    /\ open = << >>
    /\ ~closed
    /\ stray' = TRUE
    /\ UNCHANGED <<open, written, closed>>

-----------------------------------------------------------------------------
join_path(name) == Append(dir_stack, name)

List(name, kind) == Append(entries, [path |-> join_path(name), kind |-> kind])

\* Faulty: the root is recognised by its name alone.
ReadDirectory_RootByName(name) ==
    /\ outcome = "parsing"
    /\ depth' = depth + 1
    /\ entries' = IF name # ROOT THEN List(name, "Directory") ELSE entries
    /\ dir_stack' = IF name # ROOT THEN Append(dir_stack, name) ELSE dir_stack
    /\ UNCHANGED <<complete, outcome>>

\* 'd': the root is not listed, and one named <ROOT> is not part of any path.
ReadDirectory(name) ==
    LET is_root == depth = 0 IN
    /\ outcome = "parsing"
    /\ depth' = depth + 1
    /\ entries' = IF name # ROOT /\ ~is_root THEN List(name, "Directory") ELSE entries
    /\ dir_stack' = IF name # ROOT THEN Append(dir_stack, name) ELSE dir_stack
    /\ UNCHANGED <<complete, outcome>>

\* 'f', 'l', 'p' and 's'.
ReadLeaf(name, kind) ==
    /\ outcome = "parsing"
    /\ entries' = List(name, kind)
    /\ UNCHANGED <<depth, dir_stack, complete, outcome>>

\* Vec::pop does nothing on an empty stack.
Pop(stack) == IF stack = << >> THEN stack ELSE Front(stack)
saturating_sub(a, b) == IF a < b THEN 0 ELSE a - b

\* Faulty: the walk is taken to be over when no named directory is open.
ReadEnd_StackEmpty ==
    /\ outcome = "parsing"
    /\ depth' = saturating_sub(depth, 1)
    /\ dir_stack' = Pop(dir_stack)
    /\ complete' = (dir_stack' = << >>)
    /\ outcome' = IF dir_stack' = << >> THEN "ok" ELSE "parsing"
    /\ UNCHANGED entries

\* Faulty: the loop goes on after the end of the root.
ReadEnd_NoBreak ==
    /\ outcome = "parsing"
    /\ depth' = saturating_sub(depth, 1)
    /\ dir_stack' = Pop(dir_stack)
    /\ complete' = (depth' = 0)
    /\ UNCHANGED <<entries, outcome>>

\* 'z': the end of a directory; the end of the root ends the walk.
ReadEnd ==
    /\ outcome = "parsing"
    /\ depth' = saturating_sub(depth, 1)
    /\ dir_stack' = Pop(dir_stack)
    /\ complete' = (depth' = 0)
    /\ outcome' = IF depth' = 0 THEN "ok" ELSE "parsing"
    /\ UNCHANGED entries

\* The stream ends where an entry would begin, or an entry has a type the
\* parser does not handle (a device, a hard link, the slice trailer): the
\* walk stops with what it has.
StopEarly ==
    /\ outcome = "parsing"
    /\ outcome' = "ok"
    /\ UNCHANGED <<depth, dir_stack, entries, complete>>

\* The stream ends inside an entry: read_exact fails and `?` returns.
EntryCut ==
    /\ outcome = "parsing"
    /\ outcome' = "Io"
    /\ UNCHANGED <<depth, dir_stack, entries, complete>>

\* A field is malformed: a bad infinint, an over-long name, CRC or FSA block.
EntryMalformed ==
    /\ outcome = "parsing"
    /\ outcome' = "Corrupt"
    /\ UNCHANGED <<depth, dir_stack, entries, complete>>

Next ==
    \/ \E name \in RootNames : WriteRoot(name) /\ ReadDirectory(name)
    \/ \E name \in Names : WriteDirectory(name) /\ ReadDirectory(name)
    \/ \E name \in Names, kind \in Leaves : WriteLeaf(name, kind) /\ ReadLeaf(name, kind)
    \/ WriteEnd /\ ReadEnd
    \/ WriteStrayEnd /\ ReadEnd
    \/ (StopEarly \/ EntryCut \/ EntryMalformed) /\ UNCHANGED writer

Spec == Init /\ [][Next]_vars

-----------------------------------------------------------------------------
Paths == Seq(Names \cup RootNames)
Entries == Seq([path : Paths, kind : Kinds])

(***************************************************************************)
(* Types; and the walk is over exactly when it has an outcome.             *)
(***************************************************************************)
TypeOK ==
    /\ depth \in Nat
    /\ dir_stack \in Paths
    /\ entries \in Entries
    /\ complete \in BOOLEAN
    /\ outcome \in {"parsing", "ok", "Io", "Corrupt"}
    /\ open \in Paths
    /\ written \in Entries
    /\ closed \in BOOLEAN
    /\ stray \in BOOLEAN
    /\ complete => outcome = "ok"

(***************************************************************************)
(* Every entry read is listed once, in order, under the path it has in the *)
(* archived tree, whatever directories were opened and closed before it,   *)
(* and up to the place where the catalogue is cut.                         *)
(***************************************************************************)
ListsTheTree == entries = written

(***************************************************************************)
(* is_complete(), the evidence that nothing is missing from the listing,   *)
(* is true of the catalogues that were walked to the end of the root and   *)
(* of no others but one: an end of directory before any root is taken for  *)
(* that of the root, and an empty listing for a whole one.                 *)
(***************************************************************************)
CompleteIffClosed == complete <=> closed \/ (stray /\ entries = << >>)
=============================================================================
