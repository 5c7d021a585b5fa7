----------------------------- MODULE AtomicReads -----------------------------
(***************************************************************************)
(* What a mounted archive promises its workers: each read_at of a file is  *)
(* answered, as if alone, with the bytes of that file, or with an error.   *)
(* A worker whose read panics is gone.                                     *)
(***************************************************************************)
EXTENDS Integers, Sequences

CONSTANTS
    Workers,
    Files,      \* the nodes that are files
    Contents,   \* the bytes of each: [Files -> Seq(Byte)]
    Offsets,    \* offsets and buffer lengths the workers ask for
    Lengths

VARIABLES
    request,    \* per worker: "none", "dead" or "reading", and what
    answer      \* per worker: what its last read_at returned

vars == <<request, answer>>

None == [status |-> "none", node |-> 0, off |-> 0, len |-> 0]
Dead == [None EXCEPT !.status = "dead"]
Reading(node, off, len) ==
    [status |-> "reading", node |-> node, off |-> off, len |-> len]
Ok(bytes) == [status |-> "ok", bytes |-> bytes]
Failed == [status |-> "failed", bytes |-> << >>]

\* The bytes of data that a buffer of that length takes at that offset.
BytesAt(data, off, len) ==
    SubSeq(data, off + 1, IF off + len <= Len(data) THEN off + len ELSE Len(data))

Init ==
    /\ request = [w \in Workers |-> None]
    /\ answer = [w \in Workers |-> Ok(<< >>)]

Call(w, node, off, len) ==
    /\ request[w] = None
    /\ request' = [request EXCEPT ![w] = Reading(node, off, len)]
    /\ UNCHANGED answer

Answer(w) ==
    LET r == request[w] IN
    /\ r.status = "reading"
    /\ answer' = [answer EXCEPT ![w] = Ok(BytesAt(Contents[r.node], r.off, r.len))]
    /\ request' = [request EXCEPT ![w] = None]

Fail(w) ==
    /\ request[w].status = "reading"
    /\ answer' = [answer EXCEPT ![w] = Failed]
    /\ request' = [request EXCEPT ![w] = None]

\* A node that is no file has no bytes; a bad node or stream is refused.
ReadOther(w) ==
    /\ request[w] = None
    /\ \E result \in {Ok(<< >>), Failed} : answer' = [answer EXCEPT ![w] = result]
    /\ UNCHANGED request

Die(w) ==
    /\ request[w].status = "reading"
    /\ request' = [request EXCEPT ![w] = Dead]
    /\ UNCHANGED answer

Next ==
    \E w \in Workers :
        \/ \E node \in Files, off \in Offsets, len \in Lengths : Call(w, node, off, len)
        \/ ReadOther(w)
        \/ Answer(w)
        \/ Fail(w)
        \/ Die(w)

Spec == Init /\ [][Next]_vars
=============================================================================
