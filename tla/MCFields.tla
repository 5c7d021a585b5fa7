------------------------------ MODULE MCFields ------------------------------
(***************************************************************************)
(* Small catalogues for Fields: every entry alone, and pairs in which the  *)
(* first entry's fields decide where the second's begin.  A word has 4     *)
(* bits.                                                                   *)
(***************************************************************************)
EXTENDS Fields

\* Each field has a value of its own, so that one in another's place shows.
Plain == [type |-> "f", name |-> [text |-> "n", length |-> 2], flags |-> "none",
          uid |-> 1, gid |-> 2, mode |-> 3, unit |-> "s", atime |-> 4, mtime |-> 5,
          ctime |-> 6, fsa_crc_width |-> 2, size |-> 7, archive_offset |-> 8,
          stored_size |-> 9, compression |-> "z", crc_width |-> 1]

\* Saved entries of every type and time unit, with and without filesystem
\* attributes, in which no number is too large.
Shapes ==
    {[Plain EXCEPT !.type = type, !.flags = flags, !.unit = unit, !.fsa_crc_width = n] :
        type \in Types, flags \in {"none", "fsa"}, unit \in {"s", "n", "u"}, n \in {0, 2}}
Files ==
    {[Plain EXCEPT !.size = size, !.stored_size = stored, !.crc_width = n] :
        size \in {0, 7}, stored \in {0, 9}, n \in 0..MAX_CRC_SIZE}

\* One number at or past its bound.
Large ==
    {[Plain EXCEPT !.uid = SHORT], [Plain EXCEPT !.mtime = WORD - 1], [Plain EXCEPT !.atime = WORD \div 2],
     [Plain EXCEPT !.ctime = WORD], [Plain EXCEPT !.size = WORD],
     [Plain EXCEPT !.archive_offset = WORD], [Plain EXCEPT !.stored_size = WORD],
     [Plain EXCEPT !.crc_width = MAX_CRC_SIZE + 1],
     [Plain EXCEPT !.name = [text |-> "long", length |-> MAX_NUL_STRING]],
     [Plain EXCEPT !.name = [text |-> "longer", length |-> MAX_NUL_STRING + 1]],
     [Plain EXCEPT !.flags = "fsa", !.fsa_crc_width = WORD \div 2 - 1],
     [Plain EXCEPT !.flags = "fsa", !.fsa_crc_width = WORD \div 2]}

MCCatalogues ==
    {<<e>> : e \in Shapes \cup Files \cup Large}
    \cup {<<e, Plain>> : e \in Shapes \cup Files}

\* An entry saved with its extended attributes, before one without.
MCWithEa == {<<[Plain EXCEPT !.type = type, !.flags = "ea"], Plain>> : type \in {"d", "f"}}
=============================================================================
