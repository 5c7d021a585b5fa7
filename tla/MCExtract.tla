------------------------------ MODULE MCExtract ------------------------------
(***************************************************************************)
(* Archives as dar writes them, whole files or small ones that were left   *)
(* uncompressed, in each format, and the same with one thing wrong: a cell *)
(* of the data, the declared size, the stored size, or the offset.         *)
(***************************************************************************)
EXTENDS Extract

MCPlain == <<1, 1, 2, 2>>

\* What the codecs make of MCPlain: one stream, two blocks of one, raw blocks.
Packed(codec) ==
    CASE codec = "stored" -> MCPlain
      [] codec = "stream" -> <<1, 2, END>>
      [] codec = "blocks" -> <<DATA(2), 1, END, DATA(2), 2, END, EOF(0)>>
      [] codec = "raw" -> <<DATA(1), 1, DATA(1), 2, EOF(0)>>

\* Where the blocks begin behind the entry's start, and the data cells before them.
Headers(codec) ==
    CASE codec = "blocks" -> <<<<0, 0>>, <<3, 1>>, <<6, 2>>>>
      [] codec = "raw" -> <<<<0, 0>>, <<2, 1>>, <<4, 2>>>>
      [] OTHER -> << >>

\* XOR of the low bits in two slots, chunk by chunk.
MCChecksum == <<(1 + 2) % 2, (1 + 2) % 2>>

Written(format, codec, packed, sliced) ==
    LET span == IF packed THEN Packed(codec) ELSE MCPlain IN
    [disk |-> <<JUNK>> \o span \o <<3>>,
     sliced |-> sliced, format |-> format, codec |-> codec, packed |-> packed,
     start |-> 1, size |-> Len(MCPlain),
     storage_size |-> IF format = 1 \/ (format = 7 /\ ~packed) THEN 0 ELSE Len(span),
     crc |-> IF format = 1 THEN << >> ELSE MCChecksum,
     plain |-> MCPlain,
     blocks |-> [k \in DOMAIN Headers(codec) |->
                    [at |-> 1 + Headers(codec)[k][1], before |-> Headers(codec)[k][2]]],
     genuine |-> TRUE]

\* The codecs a format has.  Format 8 and later may leave an entry unpacked.
MCGenuine ==
    {Written(8, codec, packed, sliced) :
        codec \in {"stored", "stream", "blocks", "raw"},
        packed \in BOOLEAN, sliced \in BOOLEAN}
    \cup {Written(format, "stream", TRUE, sliced) : format \in {1, 7}, sliced \in BOOLEAN}
    \cup {Written(format, "stored", FALSE, sliced) : format \in {1, 7}, sliced \in BOOLEAN}

AnyCell == {1, DATA(0), DATA(1), DATA(2), DATA(3), EOF(0), EOF(1), END, JUNK}

Damaged(a) ==
    {[a EXCEPT !.disk = [@ EXCEPT ![i] = cell], !.genuine = FALSE] :
        i \in 2..(Len(a.disk) - 1), cell \in AnyCell}
    \cup {[a EXCEPT !.size = n, !.genuine = FALSE] : n \in {0, 2, 3, 5}}
    \cup {[a EXCEPT !.storage_size = n, !.genuine = FALSE] : n \in {1, 2, 3, 5, 9}}
    \cup {[a EXCEPT !.start = n, !.genuine = FALSE] : n \in {0, 2, 3, 30}}

MCArchives == MCGenuine \cup UNION {Damaged(a) : a \in MCGenuine}

\* Before format 8 a small file of a compressed archive is left uncompressed too.
MCLegacy == {Written(7, "stream", FALSE, FALSE)}
=============================================================================
