------------------------------ MODULE MCDarVfs ------------------------------
(***************************************************************************)
(* Three entries, two of them files that follow each other in the archive; *)
(* in MCDuplicate both files have the same path.                           *)
(***************************************************************************)
EXTENDS DarVfs

Entry(path, kind, start, size) ==
    [path |-> path, kind |-> kind, start |-> start, size |-> size]

MCEntries ==
    <<Entry("d", "Dir", 0, 0), Entry("d/a", "File", 1, 2), Entry("d/b", "File", 3, 1)>>

MCDuplicate ==
    <<Entry("d", "Dir", 0, 0), Entry("d/a", "File", 1, 2), Entry("d/a", "File", 3, 1)>>
=============================================================================
