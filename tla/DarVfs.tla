------------------------------- MODULE DarVfs -------------------------------
(***************************************************************************)
(* Concurrent read_at calls on one mounted archive.  The reader, with its  *)
(* single stream position, and the cache of decompressed contents sit      *)
(* behind one mutex; content() holds it from the cache lookup to the       *)
(* insertion.  A step is what one worker does between two points where     *)
(* another could run: the lock, the lookup, the seek, each read of the     *)
(* archive, the insertion, the copy to its buffer.                         *)
(*                                                                         *)
(* Extraction may fail, or panic and poison the mutex, at any point.  The  *)
(* bytes of the archive are named by their positions, so a read at the     *)
(* wrong position shows.                                                   *)
(***************************************************************************)
EXTENDS Integers, Sequences

CONSTANTS
    Workers,
    entries,   \* the catalogue's entries: [path, kind, start, size]
    Offsets,   \* offsets and buffer lengths the workers ask for
    Lengths,
    MaxCalls,  \* bound: read_at calls each worker makes
    NoWorker   \* the mutex is free

ASSUME VfsConstants ==
    /\ entries \in Seq([path : STRING, kind : {"Dir", "Symlink", "File"},
                        start : Nat, size : Nat])
    /\ Offsets \subseteq Nat
    /\ Lengths \subseteq Nat
    /\ MaxCalls \in Nat
    /\ NoWorker \notin Workers

\* Node 0 is the synthetic root, node i the i-th entry.
Files == {i \in DOMAIN entries : entries[i].kind = "File"}

Data(e) == [i \in 1..entries[e].size |-> entries[e].start + i - 1]

\* extract(path) takes the first entry with that path.
Found(node) ==
    CHOOSE e \in DOMAIN entries :
        /\ entries[e].path = entries[node].path
        /\ \A f \in 1..(e - 1) : entries[f].path # entries[node].path

VARIABLES
    pc,        \* per worker: where its read_at is
    call,      \* per worker: the node, offset and length of that read_at
    data,      \* per worker: the bytes extracted so far, or the contents
    answer,    \* per worker: what its last read_at returned
    calls,     \* per worker: how many read_at calls it has made
    owner,     \* who holds the mutex
    poisoned,  \* the mutex is poisoned
    cache,     \* the cache: contents of the nodes extracted so far
    position,  \* the reader's stream position
    inserted   \* history: how often each node's contents were inserted

vars == <<pc, call, data, answer, calls, owner, poisoned, cache, position, inserted>>

Ok(bytes) == [status |-> "ok", bytes |-> bytes]
Failed == [status |-> "failed", bytes |-> << >>]
NoCall == [node |-> 0, off |-> 0, len |-> 0]

Goto(w, place) == pc' = [pc EXCEPT ![w] = place]
Return(w, result) ==
    /\ Goto(w, "idle")
    /\ answer' = [answer EXCEPT ![w] = result]
    /\ call' = [call EXCEPT ![w] = NoCall]
    /\ data' = [data EXCEPT ![w] = << >>]

-----------------------------------------------------------------------------
Init ==
    /\ pc = [w \in Workers |-> "idle"]
    /\ call = [w \in Workers |-> NoCall]
    /\ data = [w \in Workers |-> << >>]
    /\ answer = [w \in Workers |-> Ok(<< >>)]
    /\ calls = [w \in Workers |-> 0]
    /\ owner = NoWorker
    /\ poisoned = FALSE
    /\ cache = [n \in {} |-> << >>]
    /\ position = 0
    /\ inserted = [n \in Files |-> 0]

Calls(w) ==
    /\ pc[w] = "idle"
    /\ calls[w] < MaxCalls
    /\ calls' = [calls EXCEPT ![w] = @ + 1]

\* read_at of a file goes on to content().
ReadFile(w, node, off, len) ==
    /\ Calls(w)
    /\ call' = [call EXCEPT ![w] = [node |-> node, off |-> off, len |-> len]]
    /\ Goto(w, "lock")
    /\ UNCHANGED <<data, answer, owner, poisoned, cache, position, inserted>>

\* read_at of the root, a directory or a symlink reads 0 bytes.
ReadOther(w) ==
    /\ Calls(w)
    /\ answer' = [answer EXCEPT ![w] = Ok(<< >>)]
    /\ UNCHANGED <<pc, call, data, owner, poisoned, cache, position, inserted>>

\* An id outside the node table or a named stream is refused.
ReadRefused(w) ==
    /\ Calls(w)
    /\ answer' = [answer EXCEPT ![w] = Failed]
    /\ UNCHANGED <<pc, call, data, owner, poisoned, cache, position, inserted>>

\* Faulty: no mutual exclusion.
Lock_Shared(w) ==
    /\ pc[w] = "lock"
    /\ owner' = w
    /\ Goto(w, "lookup")
    /\ UNCHANGED <<call, data, answer, calls, poisoned, cache, position, inserted>>

\* Faulty: a poisoned mutex is not recovered.
Lock_Unrecovered(w) ==
    /\ pc[w] = "lock"
    /\ owner = NoWorker
    /\ ~poisoned
    /\ owner' = w
    /\ Goto(w, "lookup")
    /\ UNCHANGED <<call, data, answer, calls, poisoned, cache, position, inserted>>

\* lock(): a poisoned mutex is taken like any other.
Lock(w) ==
    /\ pc[w] = "lock"
    /\ owner = NoWorker
    /\ owner' = w
    /\ Goto(w, "lookup")
    /\ UNCHANGED <<call, data, answer, calls, poisoned, cache, position, inserted>>

Hit(w) ==
    /\ pc[w] = "lookup"
    /\ call[w].node \in DOMAIN cache
    /\ data' = [data EXCEPT ![w] = cache[call[w].node]]
    /\ owner' = NoWorker
    /\ Goto(w, "copy")
    /\ UNCHANGED <<call, answer, calls, poisoned, cache, position, inserted>>

\* Faulty: extracts without a look at the cache.
Miss_Unchecked(w) ==
    /\ pc[w] = "lookup"
    /\ position' = entries[Found(call[w].node)].start
    /\ Goto(w, "extract")
    /\ UNCHANGED <<call, data, answer, calls, owner, poisoned, cache, inserted>>

\* Faulty: reads on from where the previous extraction left the stream.
Miss_NoSeek(w) ==
    /\ pc[w] = "lookup"
    /\ call[w].node \notin DOMAIN cache
    /\ Goto(w, "extract")
    /\ UNCHANGED <<call, data, answer, calls, owner, poisoned, cache, position, inserted>>

\* extract_to seeks to the start of the entry's data.
Miss(w) ==
    /\ pc[w] = "lookup"
    /\ call[w].node \notin DOMAIN cache
    /\ position' = entries[Found(call[w].node)].start
    /\ Goto(w, "extract")
    /\ UNCHANGED <<call, data, answer, calls, owner, poisoned, cache, inserted>>

\* One read at the stream position, of what is left of the entry or less.
Extract(w) ==
    /\ pc[w] = "extract"
    /\ \E n \in 1..(entries[Found(call[w].node)].size - Len(data[w])) :
          /\ data' = [data EXCEPT ![w] = @ \o [i \in 1..n |-> position + i - 1]]
          /\ position' = position + n
    /\ UNCHANGED <<pc, call, answer, calls, owner, poisoned, cache, inserted>>

\* Faulty: what could be extracted is cached, whole or not.
Insert_Partial(w) ==
    LET node == call[w].node IN
    /\ pc[w] = "extract"
    /\ cache' = [n \in DOMAIN cache \cup {node} |->
                    IF n = node THEN data[w] ELSE cache[n]]
    /\ inserted' = [inserted EXCEPT ![node] = @ + 1]
    /\ owner' = NoWorker
    /\ Goto(w, "copy")
    /\ UNCHANGED <<call, data, answer, calls, poisoned, position>>

\* The whole entry is extracted: it is cached and the mutex is released.
Insert(w) ==
    LET node == call[w].node IN
    /\ pc[w] = "extract"
    /\ Len(data[w]) = entries[Found(node)].size
    /\ cache' = [n \in DOMAIN cache \cup {node} |->
                    IF n = node THEN data[w] ELSE cache[n]]
    /\ inserted' = [inserted EXCEPT ![node] = @ + 1]
    /\ owner' = NoWorker
    /\ Goto(w, "copy")
    /\ UNCHANGED <<call, data, answer, calls, poisoned, position>>

\* What read_at copies into its buffer.
Copied(bytes, off, len) ==
    IF off >= Len(bytes) THEN << >>
    ELSE LET n == IF len <= Len(bytes) - off THEN len ELSE Len(bytes) - off
         IN SubSeq(bytes, off + 1, off + n)

Copy(w) ==
    /\ pc[w] = "copy"
    /\ Return(w, Ok(Copied(data[w], call[w].off, call[w].len)))
    /\ UNCHANGED <<calls, owner, poisoned, cache, position, inserted>>

\* extract fails; `?` drops the guard.
ExtractFails(w) ==
    /\ pc[w] = "extract"
    /\ owner' = NoWorker
    /\ Return(w, Failed)
    /\ UNCHANGED <<calls, poisoned, cache, position, inserted>>

\* extract panics: unwinding drops the guard and poisons the mutex.
Panic(w) ==
    /\ pc[w] = "extract"
    /\ owner' = NoWorker
    /\ poisoned' = TRUE
    /\ Goto(w, "dead")
    /\ call' = [call EXCEPT ![w] = NoCall]
    /\ data' = [data EXCEPT ![w] = << >>]
    /\ UNCHANGED <<answer, calls, cache, position, inserted>>

Start(w) ==
    \/ \E node \in Files, off \in Offsets, len \in Lengths : ReadFile(w, node, off, len)
    \/ ReadOther(w)
    \/ ReadRefused(w)

ReadStep(w) ==
    \/ Lock(w)
    \/ Hit(w)
    \/ Miss(w)
    \/ Extract(w)
    \/ Insert(w)
    \/ Copy(w)
    \/ ExtractFails(w)

Next == \E w \in Workers : Start(w) \/ ReadStep(w) \/ Panic(w)

Spec == Init /\ [][Next]_vars

\* A worker inside read_at is a running thread.  The mutex is not fair: WF
\* suffices because the calls of the other workers are bounded.
FairSpec == Spec /\ \A w \in Workers : WF_vars(ReadStep(w))

-----------------------------------------------------------------------------
Places == {"idle", "lock", "lookup", "extract", "copy", "dead"}

(***************************************************************************)
(* Types; and a worker is between lock and unlock exactly when it owns the *)
(* mutex.                                                                  *)
(***************************************************************************)
TypeOK ==
    /\ pc \in [Workers -> Places]
    /\ call \in [Workers -> [node : {0} \cup Files, off : Nat, len : Nat]]
    /\ data \in [Workers -> Seq(Nat)]
    /\ answer \in [Workers -> [status : {"ok", "failed"}, bytes : Seq(Nat)]]
    /\ calls \in [Workers -> Nat]
    /\ owner \in Workers \cup {NoWorker}
    /\ poisoned \in BOOLEAN
    /\ position \in Nat
    /\ DOMAIN cache \subseteq Files
    /\ inserted \in [Files -> Nat]
    /\ \A w \in Workers : pc[w] \in {"lookup", "extract"} <=> owner = w
    /\ \A w \in Workers : pc[w] \in {"lock", "lookup", "extract", "copy"} => call[w].node \in Files

(***************************************************************************)
(* While a worker extracts, the reader's position is the one its own reads *)
(* have brought it to, and what it has is a prefix of the entry's data: no *)
(* other worker's read, nor one that failed or panicked half way, moves    *)
(* the stream under it.                                                    *)
(***************************************************************************)
ReaderIsOwned ==
    \A w \in Workers :
        pc[w] = "extract" =>
            LET e == Found(call[w].node) IN
            /\ position = entries[e].start + Len(data[w])
            /\ Len(data[w]) <= entries[e].size
            /\ data[w] = SubSeq(Data(e), 1, Len(data[w]))

(***************************************************************************)
(* "Node id -> the entry's fully-decompressed bytes": the cache holds the  *)
(* whole data of each node in it, also after failures and panics.          *)
(***************************************************************************)
CacheIsTrue == \A node \in DOMAIN cache : cache[node] = Data(node)

(***************************************************************************)
(* "extracting once and caching by node id": however many workers ask for  *)
(* a file at once, its contents are decompressed and inserted once.        *)
(***************************************************************************)
ExtractsOnce == \A node \in Files : inserted[node] <= 1

(***************************************************************************)
(* "Reads are &self over an interior Mutex, so one handle serves N         *)
(* workers": the concurrent reads are reads one after the other of each    *)
(* node's own bytes.                                                       *)
(***************************************************************************)
Waiting(w) == [status |-> "reading", node |-> call[w].node,
                off |-> call[w].off, len |-> call[w].len]

Atomic ==
    INSTANCE AtomicReads
    WITH Contents <- [n \in Files |-> Data(n)],
         request <- [w \in Workers |->
            CASE pc[w] = "idle" -> [Waiting(w) EXCEPT !.status = "none"]
              [] pc[w] = "dead" -> [Waiting(w) EXCEPT !.status = "dead"]
              [] OTHER -> Waiting(w)]

ReadsAreAtomic == Atomic!Spec

(***************************************************************************)
(* Every read_at returns or panics, also when other workers have panicked  *)
(* while they held the mutex.                                              *)
(***************************************************************************)
ReadsComplete ==
    \A w \in Workers : pc[w] = "lock" ~> pc[w] \in {"idle", "dead"}
=============================================================================
