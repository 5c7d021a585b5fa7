---------------------------- MODULE DarVfs_proofs ----------------------------
(***************************************************************************)
(* For any number of workers, calls and entries: the mutex excludes, no    *)
(* extraction has the stream moved under it, and each file is extracted    *)
(* once.  When no two entries have the same path, the cache is also true   *)
(* (without that it holds the first entry of the path), and the workers    *)
(* implement AtomicReads.                                                  *)
(***************************************************************************)
EXTENDS DarVfs, SequenceTheorems, WellFoundedInduction, TLAPS

UniquePaths ==
    \A i, j \in DOMAIN entries : entries[i].path = entries[j].path => i = j

(***************************************************************************)
(* What a worker in the middle of an extraction has read, and where that   *)
(* has left the stream.                                                    *)
(***************************************************************************)
Reading(w) ==
    LET e == entries[Found(call[w].node)] IN
    /\ position = e.start + Len(data[w])
    /\ Len(data[w]) <= e.size
    /\ \A i \in 1..Len(data[w]) : data[w][i] = e.start + i - 1

\* The types, with names for the two sets of records.
CallType == [node : {0} \cup Files, off : Nat, len : Nat]
AnswerType == [status : {"ok", "failed"}, bytes : Seq(Nat)]

Types ==
    /\ pc \in [Workers -> Places]
    /\ call \in [Workers -> CallType]
    /\ data \in [Workers -> Seq(Nat)]
    /\ answer \in [Workers -> AnswerType]
    /\ calls \in [Workers -> Nat]
    /\ owner \in Workers \cup {NoWorker}
    /\ poisoned \in BOOLEAN
    /\ position \in Nat
    /\ DOMAIN cache \subseteq Files
    /\ inserted \in [Files -> Nat]

Excludes == \A w \in Workers : pc[w] \in {"lookup", "extract"} <=> owner = w
CallsAFile ==
    \A w \in Workers :
        pc[w] \in {"lock", "lookup", "extract", "copy"} => call[w].node \in Files
StartsEmpty == \A w \in Workers : pc[w] \in {"idle", "lock", "lookup"} => data[w] = << >>
ReadsOn == \A w \in Workers : pc[w] = "extract" => Reading(w)
Uncached == \A w \in Workers : pc[w] = "extract" => call[w].node \notin DOMAIN cache
CacheIsFirst == \A node \in DOMAIN cache : cache[node] = Data(Found(node))
InsertedOnce == \A n \in Files : inserted[n] = IF n \in DOMAIN cache THEN 1 ELSE 0

Inv ==
    /\ Types
    /\ Excludes
    /\ CallsAFile
    /\ StartsEmpty
    /\ ReadsOn
    /\ Uncached
    /\ CacheIsFirst
    /\ InsertedOnce

-----------------------------------------------------------------------------
LEMMA EntryFields ==
    ASSUME NEW e \in DOMAIN entries
    PROVE  entries[e].start \in Nat /\ entries[e].size \in Nat
<1> DEFINE R == [path : STRING, kind : {"Dir", "Symlink", "File"}, start : Nat, size : Nat]
<1>1. \A r \in R : r.start \in Nat /\ r.size \in Nat
  OBVIOUS
<1>2. entries \in Seq(R)
  BY VfsConstants DEF VfsConstants
<1> HIDE DEF R
<1>3. entries[e] \in R
  BY <1>2
<1>4. QED
  BY <1>1, <1>3

LEMMA LeastNatural ==
    ASSUME NEW T \in SUBSET Nat, T # {}
    PROVE  \E x \in T : \A y \in T : ~(y < x)
<1> DEFINE R == OpToRel(<, Nat)
<1>1. \A x, y \in Nat : x < y => <<x, y>> \in R
  BY DEF OpToRel
<1>2. IsWellFoundedOn(R, Nat)
  BY NatLessThanWellFounded
<1> HIDE DEF R
<1>3. PICK x \in T : \A y \in T : ~(<<y, x>> \in R)
  BY <1>2, WFMin
<1>4. QED
  BY <1>1, <1>3

(***************************************************************************)
(* extract(path) finds an entry: the first one with the node's path.       *)
(***************************************************************************)
LEMMA FoundIsFirst ==
    ASSUME NEW node \in Files
    PROVE  /\ Found(node) \in DOMAIN entries
           /\ entries[Found(node)].path = entries[node].path
<1> DEFINE Same == {e \in DOMAIN entries : entries[e].path = entries[node].path}
<1>1. node \in DOMAIN entries /\ DOMAIN entries = 1..Len(entries) /\ Len(entries) \in Nat
  BY VfsConstants DEF VfsConstants, Files
<1>2. Same \in SUBSET Nat /\ Same # {}
  BY <1>1
<1>3. PICK e \in Same : \A f \in Same : ~(f < e)
  BY <1>2, LeastNatural
<1>4. \A f \in 1..(e - 1) : entries[f].path # entries[node].path
  BY <1>1, <1>3
<1>5. QED
  BY <1>3, <1>4 DEF Found

LEMMA FoundIsNode ==
    ASSUME UniquePaths, NEW node \in Files
    PROVE  Found(node) = node
  BY FoundIsFirst DEF UniquePaths, Files

LEMMA DataOfEntry ==
    ASSUME NEW e \in DOMAIN entries
    PROVE  /\ Data(e) \in Seq(Nat)
           /\ Len(Data(e)) = entries[e].size
           /\ \A i \in 1..entries[e].size : Data(e)[i] = entries[e].start + i - 1
  BY EntryFields DEF Data

(***************************************************************************)
(* All that has been read of an entry is its data.                         *)
(***************************************************************************)
LEMMA ReadWhole ==
    ASSUME NEW e \in DOMAIN entries, NEW s \in Seq(Nat),
           Len(s) = entries[e].size,
           \A i \in 1..Len(s) : s[i] = entries[e].start + i - 1
    PROVE  s = Data(e)
  BY EntryFields, DataOfEntry, SeqEqual

-----------------------------------------------------------------------------
LEMMA TypesAreTypeOK == TypeOK <=> Types /\ Excludes /\ CallsAFile
  BY DEF TypeOK, Types, Excludes, CallsAFile, CallType, AnswerType

LEMMA Records ==
    /\ NoCall \in CallType
    /\ Failed \in AnswerType
    /\ \A s \in Seq(Nat) : Ok(s) \in AnswerType
    /\ \A node \in Files, off \in Nat, len \in Nat :
          /\ [node |-> node, off |-> off, len |-> len] \in CallType
          /\ [node |-> node, off |-> off, len |-> len].node = node
    /\ \A c \in CallType : c.off \in Nat /\ c.len \in Nat
<1>1. << >> \in Seq(Nat)
  OBVIOUS
<1>2. QED
  BY <1>1 DEF NoCall, Failed, Ok, CallType, AnswerType

(***************************************************************************)
(* No two workers hold the mutex.                                          *)
(***************************************************************************)
LEMMA OneOwner ==
    ASSUME Excludes, NEW w \in Workers, pc[w] \in {"lookup", "extract"},
           NEW u \in Workers, u # w
    PROVE  pc[u] \notin {"lookup", "extract"}
  BY DEF Excludes

-----------------------------------------------------------------------------
LEMMA InitInv == Init => Inv
<1> SUFFICES ASSUME Init PROVE Inv
  OBVIOUS
<1>1. Types
  <2>1. << >> \in Seq(Nat)
    OBVIOUS
  <2>2. call \in [Workers -> CallType] /\ answer \in [Workers -> AnswerType]
    BY <2>1, Records DEF Init
  <2>3. QED
    BY <2>1, <2>2 DEF Init, Types, Places
<1>2. Excludes /\ CallsAFile
  BY VfsConstants DEF VfsConstants, Init, Excludes, CallsAFile
<1>3. StartsEmpty /\ ReadsOn /\ Uncached
  BY DEF Init, StartsEmpty, ReadsOn, Uncached
<1>4. CacheIsFirst /\ InsertedOnce
  BY DEF Init, CacheIsFirst, InsertedOnce
<1>5. QED
  BY <1>1, <1>2, <1>3, <1>4 DEF Inv

(***************************************************************************)
(* A read_at begins: of a file, of a node that is none, of no node.        *)
(***************************************************************************)
LEMMA ReadFileKeepsInv ==
    ASSUME Inv, NEW w \in Workers,
           NEW node \in Files, NEW off \in Offsets, NEW len \in Lengths,
           ReadFile(w, node, off, len)
    PROVE  Inv'
<1> DEFINE asked == [node |-> node, off |-> off, len |-> len]
<1>1. asked \in CallType /\ asked.node = node
  BY Records, VfsConstants DEF VfsConstants
<1> HIDE DEF asked
<1>2. /\ pc[w] = "idle" /\ pc' = [pc EXCEPT ![w] = "lock"]
      /\ call' = [call EXCEPT ![w] = asked]
      /\ calls' = [calls EXCEPT ![w] = @ + 1]
      /\ UNCHANGED <<data, answer, owner, poisoned, cache, position, inserted>>
  BY DEF ReadFile, Calls, Goto, asked
<1>3. Types'
  BY <1>1, <1>2 DEF Inv, Types, Places
<1>4. Excludes' /\ CallsAFile'
  BY <1>1, <1>2 DEF Inv, Types, Excludes, CallsAFile
<1>5. StartsEmpty' /\ Uncached'
  BY <1>2 DEF Inv, Types, StartsEmpty, Uncached
<1>6. ReadsOn'
  BY <1>2 DEF Inv, Types, ReadsOn, Reading
<1>7. CacheIsFirst' /\ InsertedOnce'
  BY <1>2 DEF Inv, CacheIsFirst, InsertedOnce
<1>8. QED
  BY <1>3, <1>4, <1>5, <1>6, <1>7 DEF Inv

LEMMA NoFileKeepsInv ==
    ASSUME Inv, NEW w \in Workers, ReadOther(w) \/ ReadRefused(w) PROVE Inv'
<1>1. PICK a \in AnswerType : answer' = [answer EXCEPT ![w] = a]
  <2>1. << >> \in Seq(Nat)
    OBVIOUS
  <2>2. Ok(<< >>) \in AnswerType /\ Failed \in AnswerType
    BY <2>1, Records
  <2>3. QED
    BY <2>2 DEF ReadOther, ReadRefused
<1>2. /\ calls' = [calls EXCEPT ![w] = @ + 1]
      /\ UNCHANGED <<pc, call, data, owner, poisoned, cache, position, inserted>>
  BY DEF ReadOther, ReadRefused, Calls
<1>3. Types'
  BY <1>1, <1>2 DEF Inv, Types
<1>4. QED
  BY <1>2, <1>3 DEF Inv, Excludes, CallsAFile, StartsEmpty, ReadsOn, Reading, Uncached,
                    CacheIsFirst, InsertedOnce

LEMMA StartKeepsInv ==
    ASSUME Inv, NEW w \in Workers, Start(w) PROVE Inv'
  BY ReadFileKeepsInv, NoFileKeepsInv DEF Start

(***************************************************************************)
(* The mutex is taken, and the cache consulted.                            *)
(***************************************************************************)
LEMMA LockKeepsInv ==
    ASSUME Inv, NEW w \in Workers, Lock(w) PROVE Inv'
<1>1. Types'
  BY DEF Inv, Types, Lock, Goto, Places
<1>2. Excludes' /\ CallsAFile'
  BY VfsConstants DEF VfsConstants, Inv, Types, Excludes, CallsAFile, Lock, Goto
<1>3. StartsEmpty' /\ Uncached'
  BY DEF Inv, Types, StartsEmpty, Uncached, Lock, Goto
<1>4. ReadsOn'
  BY DEF Inv, Types, ReadsOn, Reading, Lock, Goto
<1>5. CacheIsFirst' /\ InsertedOnce'
  BY DEF Inv, CacheIsFirst, InsertedOnce, Lock
<1>6. QED
  BY <1>1, <1>2, <1>3, <1>4, <1>5 DEF Inv

LEMMA HitKeepsInv ==
    ASSUME Inv, NEW w \in Workers, Hit(w) PROVE Inv'
<1>1. cache[call[w].node] \in Seq(Nat)
  BY DataOfEntry, FoundIsFirst DEF Inv, Types, CacheIsFirst, Hit
<1>2. Types'
  BY <1>1 DEF Inv, Types, Hit, Goto, Places
<1>3. Excludes' /\ CallsAFile'
  BY VfsConstants DEF VfsConstants, Inv, Types, Excludes, CallsAFile, Hit, Goto
<1>4. StartsEmpty' /\ Uncached'
  BY DEF Inv, Types, StartsEmpty, Uncached, Hit, Goto
<1>5. ReadsOn'
  BY DEF Inv, Types, ReadsOn, Reading, Hit, Goto
<1>6. CacheIsFirst' /\ InsertedOnce'
  BY DEF Inv, CacheIsFirst, InsertedOnce, Hit
<1>7. QED
  BY <1>2, <1>3, <1>4, <1>5, <1>6 DEF Inv

(***************************************************************************)
(* The seek puts the stream at the start of the data of the node's entry.  *)
(***************************************************************************)
LEMMA MissKeepsInv ==
    ASSUME Inv, NEW w \in Workers, Miss(w) PROVE Inv'
<1>1. pc[w] = "lookup" /\ call[w].node \in Files /\ data[w] = << >>
  BY DEF Inv, CallsAFile, StartsEmpty, Miss
<1>2. position' = entries[Found(call[w].node)].start /\ position' \in Nat
  BY <1>1, FoundIsFirst, EntryFields DEF Miss
<1>3. entries[Found(call[w].node)].size \in Nat
  BY <1>1, FoundIsFirst, EntryFields
<1>4. Types'
  BY <1>2 DEF Inv, Types, Miss, Goto, Places
<1>5. Excludes' /\ CallsAFile'
  BY <1>1 DEF Inv, Types, Excludes, CallsAFile, Miss, Goto
<1>6. StartsEmpty' /\ Uncached'
  BY DEF Inv, Types, StartsEmpty, Uncached, Miss, Goto
<1>7. ReadsOn'
  <2>1. Reading(w)'
    BY <1>1, <1>2, <1>3 DEF Reading, Miss
  <2>2. \A u \in Workers \ {w} : pc'[u] # "extract"
    BY <1>1, OneOwner DEF Inv, Types, Miss, Goto
  <2>3. QED
    BY <2>1, <2>2 DEF ReadsOn
<1>8. CacheIsFirst' /\ InsertedOnce'
  BY DEF Inv, CacheIsFirst, InsertedOnce, Miss
<1>9. QED
  BY <1>4, <1>5, <1>6, <1>7, <1>8 DEF Inv

(***************************************************************************)
(* A read moves the stream as far as it lengthens what has been read.      *)
(***************************************************************************)
LEMMA ReadMore ==
    ASSUME NEW s \in Seq(Nat), NEW read \in Seq(Nat), NEW start \in Nat,
           \A i \in 1..Len(s) : s[i] = start + i - 1,
           \A i \in 1..Len(read) : read[i] = start + Len(s) + i - 1
    PROVE  /\ s \o read \in Seq(Nat)
           /\ Len(s \o read) = Len(s) + Len(read)
           /\ \A i \in 1..(Len(s) + Len(read)) : (s \o read)[i] = start + i - 1
<1>1. /\ s \o read \in Seq(Nat)
      /\ Len(s \o read) = Len(s) + Len(read)
      /\ \A i \in 1..(Len(s) + Len(read)) :
            (s \o read)[i] = IF i <= Len(s) THEN s[i] ELSE read[i - Len(s)]
  BY ConcatProperties
<1>2. ASSUME NEW i \in 1..(Len(s) + Len(read)) PROVE (s \o read)[i] = start + i - 1
  <2>1. Len(s) \in Nat /\ Len(read) \in Nat
    OBVIOUS
  <2>2. CASE i <= Len(s)
    BY <1>1, <2>1, <2>2
  <2>3. CASE ~(i <= Len(s))
    <3>1. i - Len(s) \in 1..Len(read) /\ start + Len(s) + (i - Len(s)) - 1 = start + i - 1
      BY <2>1, <2>3
    <3>2. QED
      BY <1>1, <2>3, <3>1
  <2>4. QED
    BY <2>2, <2>3
<1>3. QED
  BY <1>1, <1>2

LEMMA ExtractKeepsInv ==
    ASSUME Inv, NEW w \in Workers, Extract(w) PROVE Inv'
<1>1. /\ pc[w] = "extract" /\ call[w].node \in Files /\ data[w] \in Seq(Nat)
      /\ position \in Nat /\ Reading(w)
  BY DEF Inv, Types, CallsAFile, ReadsOn, Extract
<1> DEFINE start == entries[Found(call[w].node)].start
           size == entries[Found(call[w].node)].size
<1>2. start \in Nat /\ size \in Nat
  BY <1>1, FoundIsFirst, EntryFields
<1>3. /\ position = start + Len(data[w])
      /\ Len(data[w]) <= size
      /\ \A i \in 1..Len(data[w]) : data[w][i] = start + i - 1
  BY <1>1 DEF Reading
<1>4. PICK n \in 1..(size - Len(data[w])) :
        /\ data' = [data EXCEPT ![w] = data[w] \o [i \in 1..n |-> position + i - 1]]
        /\ position' = position + n
  BY <1>1 DEF Extract
<1> HIDE DEF start, size
<1>5. n \in Nat /\ Len(data[w]) + n <= size
  BY <1>1, <1>2
<1> DEFINE read == [i \in 1..n |-> position + i - 1]
           more == data[w] \o read
<1>6. \A i \in 1..n : position + i - 1 \in Nat
  BY <1>1, <1>5
<1>7. read \in Seq(Nat) /\ Len(read) = n /\ \A i \in 1..n : read[i] = position + i - 1
  <2>1. read \in [1..n -> Nat]
    BY <1>6
  <2>2. QED
    BY <1>5, <2>1
<1> HIDE DEF read
<1>8. data' = [data EXCEPT ![w] = more]
  BY <1>4 DEF read
<1>9. /\ more \in Seq(Nat)
      /\ Len(more) = Len(data[w]) + n
      /\ \A i \in 1..Len(more) : more[i] = start + i - 1
  <2> DEFINE d == data[w]
  <2>1. d \in Seq(Nat) /\ \A i \in 1..Len(d) : d[i] = start + i - 1
    BY <1>1, <1>3
  <2>2. \A i \in 1..Len(read) : read[i] = start + Len(d) + i - 1
    BY <1>3, <1>7
  <2> HIDE DEF d
  <2>3. /\ d \o read \in Seq(Nat)
        /\ Len(d \o read) = Len(d) + Len(read)
        /\ \A i \in 1..(Len(d) + Len(read)) : (d \o read)[i] = start + i - 1
    BY <1>2, <1>7, <2>1, <2>2, ReadMore
  <2>4. QED
    BY <1>7, <2>3 DEF d
<1> HIDE DEF more
<1>10. position' \in Nat /\ position' = start + Len(more)
  BY <1>1, <1>2, <1>3, <1>4, <1>5, <1>9
<1>11. Types'
  <2>1. data' \in [Workers -> Seq(Nat)]
    BY <1>8, <1>9 DEF Inv, Types
  <2>2. QED
    BY <1>10, <2>1 DEF Inv, Types, Extract
<1>12. Excludes' /\ CallsAFile' /\ Uncached'
  BY DEF Inv, Excludes, CallsAFile, Uncached, Extract
<1>13. StartsEmpty'
  BY <1>1, <1>8 DEF Inv, Types, StartsEmpty, Extract
<1>14. ReadsOn'
  <2>1. data'[w] = more
    BY <1>8 DEF Inv, Types
  <2>2. Len(more) <= size
    BY <1>5, <1>9
  <2>3. Reading(w)'
    BY <2>1, <2>2, <1>9, <1>10 DEF Reading, Extract, start, size
  <2>4. \A u \in Workers \ {w} : pc'[u] # "extract"
    BY <1>1, OneOwner DEF Inv, Extract
  <2>5. QED
    BY <2>3, <2>4 DEF ReadsOn
<1>15. CacheIsFirst' /\ InsertedOnce'
  BY DEF Inv, CacheIsFirst, InsertedOnce, Extract
<1>16. QED
  BY <1>11, <1>12, <1>13, <1>14, <1>15 DEF Inv

(***************************************************************************)
(* What is inserted is the whole entry, of a node not yet in the cache.    *)
(***************************************************************************)
LEMMA InsertKeepsInv ==
    ASSUME Inv, NEW w \in Workers, Insert(w) PROVE Inv'
<1> DEFINE node == call[w].node
<1>1. /\ pc[w] = "extract" /\ node \in Files /\ node \notin DOMAIN cache
      /\ data[w] \in Seq(Nat) /\ Reading(w)
  BY DEF Inv, Types, CallsAFile, ReadsOn, Uncached, Insert
<1>2. Len(data[w]) = entries[Found(node)].size
  BY DEF Insert
<1>3. data[w] = Data(Found(node))
  BY <1>1, <1>2, FoundIsFirst, ReadWhole DEF Reading
<1> HIDE DEF node
<1>4. /\ DOMAIN cache' = DOMAIN cache \cup {node}
      /\ cache'[node] = data[w]
      /\ \A n \in DOMAIN cache : n # node => cache'[n] = cache[n]
      /\ inserted' = [inserted EXCEPT ![node] = @ + 1]
      /\ owner' = NoWorker /\ pc' = [pc EXCEPT ![w] = "copy"]
      /\ UNCHANGED <<call, data, answer, calls, poisoned, position>>
  BY DEF Insert, Goto, node
<1>5. Types'
  BY <1>1, <1>4 DEF Inv, Types, Places
<1>6. Excludes' /\ CallsAFile'
  BY <1>1, <1>4, VfsConstants DEF VfsConstants, Inv, Types, Excludes, CallsAFile, node
<1>7. StartsEmpty'
  BY <1>4 DEF Inv, Types, StartsEmpty
<1>8. ReadsOn' /\ Uncached'
  <2>1. \A u \in Workers : pc'[u] # "extract"
    BY <1>1, <1>4, OneOwner DEF Inv, Types
  <2>2. QED
    BY <2>1 DEF ReadsOn, Uncached
<1>9. CacheIsFirst'
  BY <1>3, <1>4 DEF Inv, CacheIsFirst
<1>10. InsertedOnce'
  BY <1>1, <1>4 DEF Inv, Types, InsertedOnce
<1>11. QED
  BY <1>5, <1>6, <1>7, <1>8, <1>9, <1>10 DEF Inv

(***************************************************************************)
(* read_at copies to its buffer and returns.                               *)
(***************************************************************************)
LEMMA CopiedType ==
    ASSUME NEW s \in Seq(Nat), NEW off \in Nat, NEW len \in Nat
    PROVE  Copied(s, off, len) \in Seq(Nat)
<1> DEFINE n == IF len <= Len(s) - off THEN len ELSE Len(s) - off
<1>1. CASE off >= Len(s)
  <2>1. << >> \in Seq(Nat)
    OBVIOUS
  <2>2. QED
    BY <1>1, <2>1 DEF Copied
<1>2. CASE ~(off >= Len(s))
  <2>1. off + 1 \in 1..(Len(s) + 1) /\ off + n \in 0..Len(s)
    BY <1>2
  <2>2. SubSeq(s, off + 1, off + n) \in Seq(Nat)
    BY <2>1
  <2>3. QED
    BY <1>2, <2>2 DEF Copied
<1>3. QED
  BY <1>1, <1>2

LEMMA CopyKeepsInv ==
    ASSUME Inv, NEW w \in Workers, Copy(w) PROVE Inv'
<1>1. call[w].off \in Nat /\ call[w].len \in Nat /\ data[w] \in Seq(Nat)
  BY Records DEF Inv, Types
<1>2. PICK a \in AnswerType : answer' = [answer EXCEPT ![w] = a]
  BY <1>1, CopiedType, Records DEF Copy, Return
<1>3. /\ pc[w] = "copy" /\ pc' = [pc EXCEPT ![w] = "idle"]
      /\ call' = [call EXCEPT ![w] = NoCall] /\ data' = [data EXCEPT ![w] = << >>]
      /\ UNCHANGED <<calls, owner, poisoned, cache, position, inserted>>
  BY DEF Copy, Return, Goto
<1>4. << >> \in Seq(Nat) /\ NoCall \in CallType
  BY Records
<1>5. Types'
  BY <1>2, <1>3, <1>4 DEF Inv, Types, Places
<1>6. Excludes' /\ CallsAFile'
  BY <1>3 DEF Inv, Types, Excludes, CallsAFile
<1>7. StartsEmpty' /\ Uncached'
  BY <1>3 DEF Inv, Types, StartsEmpty, Uncached
<1>8. ReadsOn'
  BY <1>3 DEF Inv, Types, ReadsOn, Reading
<1>9. CacheIsFirst' /\ InsertedOnce'
  BY <1>3 DEF Inv, CacheIsFirst, InsertedOnce
<1>10. QED
  BY <1>5, <1>6, <1>7, <1>8, <1>9 DEF Inv

(***************************************************************************)
(* An extraction that fails or panics lets go of the mutex and leaves the  *)
(* cache as it was.                                                        *)
(***************************************************************************)
LEMMA GiveUpKeepsInv ==
    ASSUME Inv, NEW w \in Workers, ExtractFails(w) \/ Panic(w) PROVE Inv'
<1>1. /\ pc[w] = "extract" /\ owner' = NoWorker /\ poisoned' \in BOOLEAN
      /\ call' = [call EXCEPT ![w] = NoCall] /\ data' = [data EXCEPT ![w] = << >>]
      /\ UNCHANGED <<calls, cache, position, inserted>>
  BY DEF Inv, Types, ExtractFails, Panic, Return
<1>2. PICK place \in {"idle", "dead"} : pc' = [pc EXCEPT ![w] = place]
  BY DEF ExtractFails, Panic, Return, Goto
<1>3. answer' \in [Workers -> AnswerType]
  <2>1. Failed \in AnswerType
    BY Records
  <2>2. QED
    BY <2>1 DEF Inv, Types, ExtractFails, Panic, Return
<1>4. << >> \in Seq(Nat) /\ NoCall \in CallType
  BY Records
<1>5. Types'
  BY <1>1, <1>2, <1>3, <1>4 DEF Inv, Types, Places
<1>6. \A u \in Workers : pc'[u] \notin {"lookup", "extract"}
  BY <1>1, <1>2, OneOwner DEF Inv, Types
<1>7. Excludes' /\ CallsAFile'
  BY <1>1, <1>2, <1>6, VfsConstants DEF VfsConstants, Inv, Types, Excludes, CallsAFile
<1>8. StartsEmpty'
  BY <1>1, <1>2 DEF Inv, Types, StartsEmpty
<1>9. ReadsOn' /\ Uncached'
  BY <1>6 DEF ReadsOn, Uncached
<1>10. CacheIsFirst' /\ InsertedOnce'
  BY <1>1 DEF Inv, CacheIsFirst, InsertedOnce
<1>11. QED
  BY <1>5, <1>7, <1>8, <1>9, <1>10 DEF Inv

-----------------------------------------------------------------------------
LEMMA StepInv == ASSUME Inv, [Next]_vars PROVE Inv'
<1>1. CASE UNCHANGED vars
  BY <1>1 DEF vars, Inv, Types, Excludes, CallsAFile, StartsEmpty, ReadsOn, Reading,
              Uncached, CacheIsFirst, InsertedOnce
<1>2. ASSUME NEW w \in Workers, Start(w) \/ ReadStep(w) \/ Panic(w) PROVE Inv'
  BY <1>2, StartKeepsInv, LockKeepsInv, HitKeepsInv, MissKeepsInv, ExtractKeepsInv,
     InsertKeepsInv, CopyKeepsInv, GiveUpKeepsInv DEF ReadStep
<1>3. QED
  BY <1>1, <1>2 DEF Next

LEMMA Invariance == Spec => []Inv
<1>1. Init => Inv
  BY InitInv
<1>2. Inv /\ [Next]_vars => Inv'
  BY StepInv
<1>3. QED
  BY <1>1, <1>2, PTL DEF Spec

(***************************************************************************)
(* The types hold, and a worker is between lock and unlock exactly when it *)
(* owns the mutex.                                                         *)
(***************************************************************************)
THEOREM TypeCorrect == Spec => []TypeOK
<1>1. Inv => TypeOK
  BY TypesAreTypeOK DEF Inv
<1>2. QED
  BY <1>1, Invariance, PTL

(***************************************************************************)
(* However the reads of content() interleave with other workers' calls,    *)
(* failures and panics, an extraction reads on from its own last read.     *)
(***************************************************************************)
THEOREM StreamIsOwned == Spec => []ReaderIsOwned
<1>1. Inv => ReaderIsOwned
  <2> SUFFICES ASSUME Inv, NEW w \in Workers, pc[w] = "extract"
               PROVE  LET e == Found(call[w].node) IN
                      /\ position = entries[e].start + Len(data[w])
                      /\ Len(data[w]) <= entries[e].size
                      /\ data[w] = SubSeq(Data(e), 1, Len(data[w]))
    BY DEF ReaderIsOwned
  <2> DEFINE e == Found(call[w].node)
             d == data[w]
  <2>1. call[w].node \in Files /\ d \in Seq(Nat) /\ Reading(w)
    BY DEF Inv, Types, CallsAFile, ReadsOn
  <2>2. e \in DOMAIN entries
    BY <2>1, FoundIsFirst
  <2>3. Len(d) \in Nat /\ entries[e].size \in Nat /\ Len(d) <= entries[e].size
    BY <2>1, <2>2, EntryFields DEF Reading
  <2>4. /\ SubSeq(Data(e), 1, Len(d)) \in Seq(Nat)
        /\ Len(SubSeq(Data(e), 1, Len(d))) = Len(d)
        /\ \A i \in 1..Len(d) : SubSeq(Data(e), 1, Len(d))[i] = Data(e)[i]
    BY <2>1, <2>2, <2>3, DataOfEntry
  <2>5. \A i \in 1..Len(d) : Data(e)[i] = d[i]
    <3> SUFFICES ASSUME NEW i \in 1..Len(d) PROVE Data(e)[i] = d[i]
      OBVIOUS
    <3>1. d[i] = entries[e].start + i - 1
      BY <2>1 DEF Reading
    <3>2. i \in 1..entries[e].size
      BY <2>3
    <3>3. QED
      BY <2>2, <3>1, <3>2, DataOfEntry
  <2>6. d = SubSeq(Data(e), 1, Len(d))
    BY <2>1, <2>4, <2>5, SeqEqual
  <2>7. QED
    BY <2>1, <2>2, <2>6 DEF Reading
<1>2. QED
  BY <1>1, Invariance, PTL

(***************************************************************************)
(* Whatever content() has cached is the whole data of its node, when       *)
(* extract(path) can tell the entries apart.                               *)
(***************************************************************************)
THEOREM CacheStaysTrue == ASSUME UniquePaths PROVE Spec => []CacheIsTrue
<1>1. Inv => CacheIsTrue
  BY FoundIsNode DEF Inv, Types, CacheIsFirst, CacheIsTrue
<1>2. QED
  BY <1>1, Invariance, PTL

(***************************************************************************)
(* However many workers ask for a file, content() inserts it once.         *)
(***************************************************************************)
THEOREM ExtractionIsOnce == Spec => []ExtractsOnce
<1>1. Inv => ExtractsOnce
  BY DEF Inv, InsertedOnce, ExtractsOnce
<1>2. QED
  BY <1>1, Invariance, PTL

-----------------------------------------------------------------------------
(***************************************************************************)
(* The workers of DarVfs implement AtomicReads: when no two entries have   *)
(* the same path, every step of a read_at is a step of the abstract reads  *)
(* or no step at all, for any number of workers, calls and entries.        *)
(***************************************************************************)

(***************************************************************************)
(* What the refinement needs besides the invariant: a worker that is about *)
(* to copy has the whole data of its file, and one that is not reading has *)
(* no call.                                                                *)
(***************************************************************************)
CopiesWhole == \A w \in Workers : pc[w] = "copy" => data[w] = Data(Found(call[w].node))
RestsWithoutCall == \A w \in Workers : pc[w] \in {"idle", "dead"} => call[w] = NoCall

Ready == Inv /\ CopiesWhole /\ RestsWithoutCall

LEMMA ReadyInit == Init => Ready
  BY InitInv DEF Init, Ready, CopiesWhole, RestsWithoutCall

(***************************************************************************)
(* Only Hit and Insert bring a worker to its copy: with what is cached,    *)
(* which is true, or with what was read, which is whole.                   *)
(***************************************************************************)
LEMMA ReadyStep ==
    ASSUME Ready, [Next]_vars
    PROVE  Ready'
<1> USE DEF Ready, Inv, Types
<1>1. Inv'
  BY StepInv
<1>2. CASE UNCHANGED vars
  BY <1>1, <1>2 DEF vars, CopiesWhole, RestsWithoutCall
<1>3. ASSUME NEW w \in Workers, Start(w) \/ ReadStep(w) \/ Panic(w)
      PROVE  CopiesWhole' /\ RestsWithoutCall'
  <2>1. CASE Start(w)
    BY <2>1 DEF Start, ReadFile, ReadOther, ReadRefused, Calls, Goto, CopiesWhole,
                RestsWithoutCall
  <2>2. CASE Lock(w) \/ Miss(w) \/ Extract(w)
    BY <2>2 DEF Lock, Miss, Extract, Goto, CopiesWhole, RestsWithoutCall
  <2>3. CASE Hit(w)
    <3>1. cache[call[w].node] = Data(Found(call[w].node))
      BY <2>3 DEF Hit, CacheIsFirst
    <3>2. QED
      BY <2>3, <3>1 DEF Hit, Goto, CopiesWhole, RestsWithoutCall
  <2>4. CASE Insert(w)
    <3>1. /\ pc[w] = "extract" /\ Len(data[w]) = entries[Found(call[w].node)].size
          /\ pc' = [pc EXCEPT ![w] = "copy"] /\ UNCHANGED <<call, data>>
      BY <2>4 DEF Insert, Goto
    <3>2. call[w].node \in Files /\ data[w] \in Seq(Nat) /\ Reading(w)
      BY <3>1 DEF CallsAFile, ReadsOn
    <3>3. data[w] = Data(Found(call[w].node))
      BY <3>1, <3>2, FoundIsFirst, ReadWhole DEF Reading
    <3>4. QED
      BY <3>1, <3>3 DEF CopiesWhole, RestsWithoutCall
  <2>5. CASE Copy(w) \/ ExtractFails(w) \/ Panic(w)
    BY <2>5 DEF Copy, ExtractFails, Panic, Return, Goto, CopiesWhole, RestsWithoutCall
  <2>6. QED
    BY <1>3, <2>1, <2>2, <2>3, <2>4, <2>5 DEF ReadStep
<1>4. QED
  BY <1>1, <1>2, <1>3 DEF Next

-----------------------------------------------------------------------------
(***************************************************************************)
(* The abstract request of a worker, from where it is and what it was      *)
(* asked.                                                                  *)
(***************************************************************************)
RequestAt(place, asked) ==
    [status |-> IF place = "idle" THEN "none" ELSE IF place = "dead" THEN "dead" ELSE "reading",
     node |-> asked.node, off |-> asked.off, len |-> asked.len]

Requests == [w \in Workers |-> RequestAt(pc[w], call[w])]

\* The substitution that DarVfs gives for AtomicReads is Requests.
Substituted ==
    [w \in Workers |->
        CASE pc[w] = "idle" -> [Waiting(w) EXCEPT !.status = "none"]
          [] pc[w] = "dead" -> [Waiting(w) EXCEPT !.status = "dead"]
          [] OTHER -> Waiting(w)]

LEMMA SubstitutedIsRequests == Substituted = Requests
<1> SUFFICES ASSUME NEW w \in Workers
             PROVE  (CASE pc[w] = "idle" -> [Waiting(w) EXCEPT !.status = "none"]
                       [] pc[w] = "dead" -> [Waiting(w) EXCEPT !.status = "dead"]
                       [] OTHER -> Waiting(w)) = RequestAt(pc[w], call[w])
  BY DEF Substituted, Requests
<1>1. QED
  BY DEF Waiting, RequestAt

LEMMA SubstitutedNext == (Substituted = Requests)'
  BY SubstitutedIsRequests, PTL

LEMMA RequestChanges ==
    ASSUME Types, NEW w \in Workers, NEW place, NEW asked,
           pc' = [pc EXCEPT ![w] = place], call' = [call EXCEPT ![w] = asked]
    PROVE  Requests' = [Requests EXCEPT ![w] = RequestAt(place, asked)]
  BY DEF Requests, Types

LEMMA RequestStays ==
    ASSUME Types, NEW w \in Workers, NEW place,
           pc[w] \notin {"idle", "dead"}, place \notin {"idle", "dead"},
           pc' = [pc EXCEPT ![w] = place], UNCHANGED call
    PROVE  Requests' = Requests
<1> SUFFICES ASSUME NEW u \in Workers
             PROVE  RequestAt(pc'[u], call[u]) = RequestAt(pc[u], call[u])
  BY DEF Requests
<1>1. CASE u = w
  BY <1>1 DEF RequestAt, Types
<1>2. CASE u # w
  BY <1>2 DEF Types
<1>3. QED
  BY <1>1, <1>2

(***************************************************************************)
(* What read_at copies is what the abstract read answers.                  *)
(***************************************************************************)
LEMMA CopiedIsBytesAt ==
    ASSUME NEW s \in Seq(Nat), NEW off \in Nat, NEW len \in Nat
    PROVE  Copied(s, off, len) = Atomic!BytesAt(s, off, len)
<1>1. Len(s) \in Nat
  OBVIOUS
<1>2. CASE off >= Len(s)
  <2>1. Atomic!BytesAt(s, off, len) = SubSeq(s, off + 1, Len(s))
    BY <1>1, <1>2 DEF Atomic!BytesAt
  <2>2. SubSeq(s, off + 1, Len(s)) = << >>
    BY <1>1, <1>2
  <2>3. QED
    BY <1>2, <2>1, <2>2 DEF Copied
<1>3. CASE off < Len(s) /\ off + len <= Len(s)
  <2>1. len <= Len(s) - off /\ ~(off >= Len(s))
    BY <1>1, <1>3
  <2>2. QED
    BY <1>3, <2>1 DEF Copied, Atomic!BytesAt
<1>4. CASE off < Len(s) /\ ~(off + len <= Len(s))
  <2>1. ~(len <= Len(s) - off) /\ ~(off >= Len(s)) /\ off + (Len(s) - off) = Len(s)
    BY <1>1, <1>4
  <2>2. QED
    BY <1>4, <2>1 DEF Copied, Atomic!BytesAt
<1>5. QED
  BY <1>1, <1>2, <1>3, <1>4

-----------------------------------------------------------------------------
LEMMA InitRefines == Init => Atomic!Init
<1> SUFFICES ASSUME Init PROVE Atomic!Init
  OBVIOUS
<1>1. Requests = [w \in Workers |-> Atomic!None]
  BY DEF Init, Requests, RequestAt, NoCall, Atomic!None
<1>2. Substituted = [w \in Workers |-> Atomic!None]
  BY <1>1, SubstitutedIsRequests
<1>3. answer = [w \in Workers |-> Atomic!Ok(<< >>)]
  BY DEF Init, Ok, Atomic!Ok
<1>4. QED
  BY <1>2, <1>3 DEF Substituted, Atomic!Init

(***************************************************************************)
(* A step of one worker is a step of its abstract read, or none.           *)
(***************************************************************************)
LEMMA CallRefines ==
    ASSUME Ready, NEW w \in Workers, NEW node \in Files, NEW off \in Offsets,
           NEW len \in Lengths, ReadFile(w, node, off, len)
    PROVE  Atomic!Call(w, node, off, len)
<1> USE DEF Ready, Inv
<1>1. pc[w] = "idle" /\ call[w] = NoCall /\ answer' = answer
  BY DEF ReadFile, Calls, RestsWithoutCall
<1>2. Requests[w] = Atomic!None
  BY <1>1 DEF Requests, RequestAt, NoCall, Atomic!None
<1>3. Requests' = [Requests EXCEPT ![w] = Atomic!Reading(node, off, len)]
  <2>1. Requests' = [Requests EXCEPT ![w] =
                        RequestAt("lock", [node |-> node, off |-> off, len |-> len])]
    BY RequestChanges DEF ReadFile, Goto
  <2>2. QED
    BY <2>1 DEF RequestAt, Atomic!Reading
<1>4. Substituted = Requests /\ Substituted' = Requests'
  BY SubstitutedIsRequests, SubstitutedNext
<1>5. QED
  BY <1>1, <1>2, <1>3, <1>4 DEF Substituted, Atomic!Call

LEMMA OtherRefines ==
    ASSUME Ready, NEW w \in Workers, ReadOther(w) \/ ReadRefused(w)
    PROVE  Atomic!ReadOther(w)
<1> USE DEF Ready, Inv
<1>1. pc[w] = "idle" /\ call[w] = NoCall /\ Requests' = Requests
  BY DEF ReadOther, ReadRefused, Calls, RestsWithoutCall, Requests
<1>2. Requests[w] = Atomic!None
  BY <1>1 DEF Requests, RequestAt, NoCall, Atomic!None
<1>3. \E result \in {Atomic!Ok(<< >>), Atomic!Failed} : answer' = [answer EXCEPT ![w] = result]
  BY DEF ReadOther, ReadRefused, Ok, Failed, Atomic!Ok, Atomic!Failed
<1>4. Substituted = Requests /\ Substituted' = Requests'
  BY SubstitutedIsRequests, SubstitutedNext
<1>5. QED
  BY <1>1, <1>2, <1>3, <1>4 DEF Substituted, Atomic!ReadOther

LEMMA SilentRefines ==
    ASSUME Ready, NEW w \in Workers,
           Lock(w) \/ Hit(w) \/ Miss(w) \/ Extract(w) \/ Insert(w)
    PROVE  UNCHANGED <<Requests, answer>>
<1> USE DEF Ready, Inv
<1>1. CASE Extract(w)
  BY <1>1 DEF Extract, Requests
<1>2. CASE Lock(w) \/ Hit(w) \/ Miss(w) \/ Insert(w)
  <2>1. /\ pc[w] \notin {"idle", "dead"} /\ UNCHANGED <<call, answer>>
        /\ \E place \in {"lookup", "copy", "extract"} : pc' = [pc EXCEPT ![w] = place]
    BY <1>2 DEF Lock, Hit, Miss, Insert, Goto
  <2>2. QED
    BY <2>1, RequestStays
<1>3. QED
  BY <1>1, <1>2

(***************************************************************************)
(* A worker that returns has no request any more.                          *)
(***************************************************************************)
LEMMA ReturnsFromReading ==
    ASSUME Ready, NEW w \in Workers, NEW result, pc[w] \in {"extract", "copy"},
           Return(w, result)
    PROVE  /\ Requests[w].status = "reading"
           /\ Requests' = [Requests EXCEPT ![w] = Atomic!None]
<1> USE DEF Ready, Inv
<1>1. Requests' = [Requests EXCEPT ![w] = RequestAt("idle", NoCall)]
  BY RequestChanges DEF Return, Goto
<1>2. RequestAt("idle", NoCall) = Atomic!None
  BY DEF RequestAt, NoCall, Atomic!None
<1>3. Requests[w].status = "reading"
  BY DEF Requests, RequestAt
<1>4. QED
  BY <1>1, <1>2, <1>3

LEMMA CopyRefines ==
    ASSUME UniquePaths, Ready, NEW w \in Workers, Copy(w)
    PROVE  Atomic!Answer(w)
<1> USE DEF Ready, Inv
<1> DEFINE c == call[w]
<1>1. /\ pc[w] = "copy" /\ c.node \in Files /\ c.off \in Nat /\ c.len \in Nat
  BY Records DEF Copy, Types, CallsAFile
<1>2. data[w] = Data(c.node) /\ data[w] \in Seq(Nat)
  BY <1>1, FoundIsNode DEF CopiesWhole, Types
<1>3. Requests[w].node = c.node /\ Requests[w].off = c.off /\ Requests[w].len = c.len
  BY DEF Requests, RequestAt
<1>4. answer' = [answer EXCEPT ![w] = Atomic!Ok(Atomic!BytesAt(Data(c.node), c.off, c.len))]
  <2>1. answer' = [answer EXCEPT ![w] = Ok(Copied(data[w], c.off, c.len))]
    BY DEF Copy, Return
  <2>2. Copied(data[w], c.off, c.len) = Atomic!BytesAt(Data(c.node), c.off, c.len)
    BY <1>1, <1>2, CopiedIsBytesAt
  <2>3. QED
    BY <2>1, <2>2 DEF Ok, Atomic!Ok
<1>5. Requests[w].status = "reading" /\ Requests' = [Requests EXCEPT ![w] = Atomic!None]
  BY <1>1, ReturnsFromReading DEF Copy
<1>6. Substituted = Requests /\ Substituted' = Requests'
  BY SubstitutedIsRequests, SubstitutedNext
<1>7. answer' = [answer EXCEPT ![w] =
          Atomic!Ok(Atomic!BytesAt([n \in Files |-> Data(n)][Requests[w].node],
                                   Requests[w].off, Requests[w].len))]
  BY <1>1, <1>3, <1>4
<1>8. QED
  BY <1>5, <1>6, <1>7 DEF Substituted, Atomic!Answer

LEMMA FailRefines ==
    ASSUME Ready, NEW w \in Workers, ExtractFails(w)
    PROVE  Atomic!Fail(w)
<1>1. Requests[w].status = "reading" /\ Requests' = [Requests EXCEPT ![w] = Atomic!None]
  BY ReturnsFromReading DEF ExtractFails
<1>2. answer' = [answer EXCEPT ![w] = Atomic!Failed]
  BY DEF ExtractFails, Return, Failed, Atomic!Failed
<1>3. Substituted = Requests /\ Substituted' = Requests'
  BY SubstitutedIsRequests, SubstitutedNext
<1>4. QED
  BY <1>1, <1>2, <1>3 DEF Substituted, Atomic!Fail

LEMMA PanicRefines ==
    ASSUME Ready, NEW w \in Workers, Panic(w)
    PROVE  Atomic!Die(w)
<1> USE DEF Ready, Inv
<1>1. pc[w] = "extract" /\ answer' = answer
  BY DEF Panic
<1>2. Requests' = [Requests EXCEPT ![w] = Atomic!Dead]
  <2>1. Requests' = [Requests EXCEPT ![w] = RequestAt("dead", NoCall)]
    BY RequestChanges DEF Panic, Goto
  <2>2. RequestAt("dead", NoCall) = Atomic!Dead
    BY DEF RequestAt, NoCall, Atomic!Dead, Atomic!None
  <2>3. QED
    BY <2>1, <2>2
<1>3. Requests[w].status = "reading"
  BY <1>1 DEF Requests, RequestAt
<1>4. Substituted = Requests /\ Substituted' = Requests'
  BY SubstitutedIsRequests, SubstitutedNext
<1>5. QED
  BY <1>1, <1>2, <1>3, <1>4 DEF Substituted, Atomic!Die

-----------------------------------------------------------------------------
LEMMA StepRefines ==
    ASSUME UniquePaths, Ready, [Next]_vars
    PROVE  [Atomic!Next]_(Atomic!vars)
<1>1. CASE UNCHANGED vars
  <2>1. UNCHANGED <<Requests, answer>>
    BY <1>1 DEF vars, Requests
  <2>2. Substituted' = Substituted
    BY <2>1, SubstitutedIsRequests, SubstitutedNext
  <2>3. QED
    BY <2>1, <2>2 DEF Substituted, Atomic!vars
<1>2. ASSUME NEW w \in Workers, Start(w)
      PROVE  Atomic!Next
  BY <1>2, CallRefines, OtherRefines DEF Start, Atomic!Next
<1>3. ASSUME NEW w \in Workers, Copy(w) \/ ExtractFails(w) \/ Panic(w)
      PROVE  Atomic!Next
  BY <1>3, CopyRefines, FailRefines, PanicRefines DEF Atomic!Next
<1>4. ASSUME NEW w \in Workers, Lock(w) \/ Hit(w) \/ Miss(w) \/ Extract(w) \/ Insert(w)
      PROVE  UNCHANGED Atomic!vars
  <2>1. UNCHANGED <<Requests, answer>>
    BY <1>4, SilentRefines
  <2>2. Substituted' = Substituted
    BY <2>1, SubstitutedIsRequests, SubstitutedNext
  <2>3. QED
    BY <2>1, <2>2 DEF Substituted, Atomic!vars
<1>5. QED
  BY <1>1, <1>2, <1>3, <1>4 DEF Next, ReadStep

(***************************************************************************)
(* "Reads are &self over an interior Mutex, so one handle serves N         *)
(* workers": whatever the interleaving, the failures and the panics, the   *)
(* concurrent reads are reads one after the other of each file's own       *)
(* bytes, when extract(path) can tell the entries apart.                   *)
(***************************************************************************)
THEOREM ReadsRefine == ASSUME UniquePaths PROVE Spec => ReadsAreAtomic
<1>1. Ready /\ [Next]_vars => Ready'
  BY ReadyStep
<1>2. Ready /\ [Next]_vars => [Atomic!Next]_(Atomic!vars)
  BY StepRefines
<1>3. QED
  BY <1>1, <1>2, ReadyInit, InitRefines, PTL DEF Spec, ReadsAreAtomic, Atomic!Spec
=============================================================================
