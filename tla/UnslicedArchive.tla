--------------------------- MODULE UnslicedArchive ---------------------------
(***************************************************************************)
(* What the rest of the reader expects of its byte stream: the archive as  *)
(* one file, read by seeks and read_exact.  A byte is named by its         *)
(* position in the archive; an answer is [kind, value].                    *)
(*                                                                         *)
(* A failed read leaves the position unknown: every caller gives up and    *)
(* starts its next operation with an absolute seek.  Once the storage is   *)
(* damaged, a read may meet the end of the file anywhere; once the stream  *)
(* is garbled, anything may be answered.                                   *)
(***************************************************************************)
EXTENDS Integers, Sequences

CONSTANTS
    Asks,     \* how many bytes one read_exact may ask for
    Seeks,    \* the seeks made: <<whence, offset>>
    Lost      \* the position after a failed read

VARIABLES
    total,    \* length of the archive
    at,       \* position of the stream
    answer,   \* what the last operation returned
    intact,   \* the storage has not been damaged
    garbled   \* nothing is promised any more

vars == <<total, at, answer, intact, garbled>>

Answer(kind, value) == [kind |-> kind, value |-> value]
Bytes(from, n) == [i \in 1..n |-> from + i - 1]

Init ==
    /\ total \in Nat
    /\ at = 0
    /\ answer = Answer("none", << >>)
    /\ intact \in BOOLEAN
    /\ garbled = FALSE

Target(whence, offset) ==
    CASE whence = "Start" -> offset
      [] whence = "End" -> total + offset
      [] whence = "Current" -> at + offset

Seek(whence, offset) ==
    /\ whence = "Current" => at # Lost
    /\ Target(whence, offset) >= 0
    /\ at' = Target(whence, offset)
    /\ answer' = Answer(whence, <<at'>>)
    /\ UNCHANGED <<total, intact, garbled>>

SeekBefore(whence, offset) ==
    /\ whence = "Current" => at # Lost
    /\ Target(whence, offset) < 0
    /\ answer' = Answer("InvalidInput", << >>)
    /\ UNCHANGED <<total, at, intact, garbled>>

ReadExact(n) ==
    /\ at # Lost
    /\ at + n <= total
    /\ at' = at + n
    /\ answer' = Answer("bytes", Bytes(at, n))
    /\ UNCHANGED <<total, intact, garbled>>

UnexpectedEof(n) ==
    /\ at # Lost
    /\ intact => at + n > total
    /\ at' = Lost
    /\ answer' = Answer("UnexpectedEof", << >>)
    /\ UNCHANGED <<total, intact, garbled>>

ReadFails ==
    /\ at # Lost
    /\ at' = Lost
    /\ answer' = Answer("Io", << >>)
    /\ UNCHANGED <<total, intact, garbled>>

Damage ==
    /\ intact
    /\ intact' = FALSE
    /\ garbled' \in BOOLEAN
    /\ UNCHANGED <<total, at, answer>>

Garble ==
    /\ garbled' = TRUE
    /\ at' \in Nat
    /\ UNCHANGED <<total, answer, intact>>

\* Any answer at all.
Unspecified ==
    /\ garbled
    /\ UNCHANGED <<total, garbled>>

Next ==
    \/ \E s \in Seeks : Seek(s[1], s[2]) \/ SeekBefore(s[1], s[2])
    \/ \E n \in Asks : ReadExact(n) \/ UnexpectedEof(n)
    \/ ReadFails
    \/ Damage
    \/ Garble
    \/ Unspecified

Spec == Init /\ [][Next]_vars
=============================================================================
