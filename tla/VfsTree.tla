------------------------------- MODULE VfsTree -------------------------------
(***************************************************************************)
(* build_tree: the directory tree of a mounted archive, derived from the   *)
(* flat listing of full paths, and what read_dir and lookup make of it.    *)
(*                                                                         *)
(* Node 0 is a synthetic root and node i the i-th entry.  A first pass     *)
(* creates the nodes and maps every path to a node, a second one attaches  *)
(* every node to a parent; a step is one turn of either loop.  A path is   *)
(* the sequence of its names.                                              *)
(***************************************************************************)
EXTENDS Integers, Sequences, SequencesExt

CONSTANTS
    Names,     \* the names that occur
    Listings   \* the listings considered, see ListingsAreOfPaths

\* Every entry has a path of at least one name, its own.
ASSUME ListingsAreOfPaths ==
    /\ Listings \subseteq Seq([path : Seq(Names), kind : {"Dir", "File"}])
    /\ \A s \in Listings : \A i \in DOMAIN s : s[i].path # << >>

VARIABLES
    entries,   \* the listing the archive was opened with
    created,   \* how many entries have their node
    by_path,   \* the node a path was last mapped to
    wired,     \* how many nodes have been attached
    children   \* per node: the children read_dir lists, in order

vars == <<entries, created, by_path, wired, children>>

Path(node) == entries[node].path
Built == created = Len(entries) /\ wired = Len(entries)

-----------------------------------------------------------------------------
Init ==
    /\ entries \in Listings
    /\ created = 0
    /\ by_path = [p \in {} |-> 0]
    /\ wired = 0
    /\ children = [n \in {0} |-> << >>]

\* First loop: a path listed twice is mapped to its last node.
AddNode ==
    LET id == created + 1 IN
    /\ created < Len(entries)
    /\ created' = id
    /\ by_path' = [p \in DOMAIN by_path \cup {Path(id)} |->
                      IF p = Path(id) THEN id ELSE by_path[p]]
    /\ children' = [n \in 0..id |-> IF n = id THEN << >> ELSE children[n]]
    /\ UNCHANGED <<entries, wired>>

\* Faulty: the parent is the first name of the path.
parent_id_FirstName(node) ==
    LET parent_path == <<Path(node)[1]>> IN
    IF Len(Path(node)) > 1 /\ parent_path \in DOMAIN by_path
    THEN by_path[parent_path]
    ELSE 0

\* Faulty: the parent is looked up by the entry's own path.
parent_id_Self(node) ==
    IF Len(Path(node)) > 1 /\ Path(node) \in DOMAIN by_path
    THEN by_path[Path(node)]
    ELSE 0

\* The node of the path before the last separator, or else the root.
parent_id(node) ==
    LET parent_path == Front(Path(node)) IN
    IF Len(Path(node)) > 1 /\ parent_path \in DOMAIN by_path
    THEN by_path[parent_path]
    ELSE 0

\* Faulty: entry i is taken to be node i, counting from 0.
Wire_OffByOne ==
    LET child == wired IN
    /\ created = Len(entries)
    /\ wired < Len(entries)
    /\ wired' = wired + 1
    /\ children' = [children EXCEPT ![parent_id(wired + 1)] = Append(@, child)]
    /\ UNCHANGED <<entries, created, by_path>>

\* Faulty: every entry is also attached to the root.
Wire_RootToo ==
    LET child == wired + 1 IN
    /\ created = Len(entries)
    /\ wired < Len(entries)
    /\ wired' = child
    /\ children' = [n \in DOMAIN children |->
                      IF n \in {0, parent_id(child)} THEN Append(children[n], child)
                                                     ELSE children[n]]
    /\ UNCHANGED <<entries, created, by_path>>

\* Second loop.
Wire ==
    LET child == wired + 1 IN
    /\ created = Len(entries)
    /\ wired < Len(entries)
    /\ wired' = child
    /\ children' = [children EXCEPT ![parent_id(child)] = Append(@, child)]
    /\ UNCHANGED <<entries, created, by_path>>

Next == AddNode \/ Wire

Spec == Init /\ [][Next]_vars

-----------------------------------------------------------------------------
IsDir(node) == node = 0 \/ entries[node].kind = "Dir"

\* The nodes read_dir of a node lists; a node that is no directory is refused.
read_dir(node) == IF IsDir(node) THEN Range(children[node]) ELSE {}

\* lookup: the first child of that name, -1 when there is none or on refusal.
lookup(parent, name) ==
    LET named == {i \in DOMAIN children[parent] : Last(Path(children[parent][i])) = name} IN
    IF parent >= 0 /\ IsDir(parent) /\ named # {} THEN children[parent][Min(named)] ELSE -1

\* What a walk with read_dir from the root lists, one level deeper each time.
Listed ==
    LET reached[level \in 0..Len(entries)] ==
            IF level = 0 THEN {0}
            ELSE reached[level - 1] \cup UNION {read_dir(n) : n \in reached[level - 1]}
    IN reached[Len(entries)]

\* Where the successive lookups of a path's names lead.
Resolve(path) ==
    LET at[i \in 0..Len(path)] ==
            IF i = 0 THEN 0
            ELSE IF at[i - 1] = -1 THEN -1 ELSE lookup(at[i - 1], path[i])
    IN at[Len(path)]

\* The paths above a path.
Above(path) == {SubSeq(path, 1, i) : i \in 1..(Len(path) - 1)}
Paths == {Path(i) : i \in DOMAIN entries}
Unique(path) == \A i, j \in DOMAIN entries : Path(i) = path /\ Path(j) = path => i = j

(***************************************************************************)
(* Types; children holds ids of the node table only.                       *)
(***************************************************************************)
TypeOK ==
    /\ entries \in Listings
    /\ created \in 0..Len(entries)
    /\ wired \in 0..created
    /\ \A p \in DOMAIN by_path : by_path[p] \in 1..created
    /\ DOMAIN children = 0..created
    /\ \A n \in DOMAIN children : Range(children[n]) \subseteq 1..wired

(***************************************************************************)
(* A node is the child of a node of its parent's path, and of the root     *)
(* only when its path has no parent in the listing.                        *)
(***************************************************************************)
ParentsAreTrue ==
    \A n \in DOMAIN children, child \in 1..wired :
        child \in Range(children[n]) =>
            LET parent_path == Front(Path(child)) IN
            IF n = 0 THEN parent_path \notin Paths
            ELSE Path(n) = parent_path

(***************************************************************************)
(* Each attached node is one child of one node: the tree is a tree.        *)
(***************************************************************************)
ListedOnce ==
    \A child \in 1..wired :
        \E n \in DOMAIN children : \E i \in DOMAIN children[n] :
            /\ children[n][i] = child
            /\ \A m \in DOMAIN children : \A j \in DOMAIN children[m] :
                  children[m][j] = child => m = n /\ j = i

\* A listed path is the parent of others only if it is always a directory.
ParentsAreDirs(s) ==
    \A i, j \in DOMAIN s : Front(s[j].path) = s[i].path => s[i].kind = "Dir"

(***************************************************************************)
(* "attached to the root so it is never lost": a walk from the root with   *)
(* read_dir lists every entry of the catalogue.                            *)
(***************************************************************************)
EveryEntryIsListed == Built => Listed = 0..Len(entries)

(***************************************************************************)
(* An entry is found by looking up the names of its path one after the     *)
(* other, when the directories above it are listed and no path occurs      *)
(* twice.                                                                  *)
(***************************************************************************)
LookupFindsEntry ==
    Built /\ (\A p \in Paths : Unique(p) /\ Above(p) \subseteq Paths) =>
        \A i \in DOMAIN entries : Resolve(Path(i)) = i
=============================================================================
