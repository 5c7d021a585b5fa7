# Formal models of dar-forensic

A TLA+ development of the DAR (Disk ARchiver) reader in this repository: the
parser core in `core/src/lib.rs`, the mounted view in `core/src/vfs.rs` and the
audit layer in `forensic/src`. Modules are model-checked with TLC on small
instances; the modules named `*_proofs` hold theorems that TLAPS checks for
every value of the constants. `PROJECT.json` lists the runs, the definitions
with the source lines they translate, the hazards and the theorems.

## 1. Inventory

| Component | Code | State it keeps | Operations | Module |
|---|---|---|---|---|
| archive opening | `DarReader::open`, `read_format_value`, `read_compr_bs`, `inflate_catalogue` | the reader's fields | header, TLV list, best-effort fields, scan or terminateur, inflation, label, path | `DarOpen` |
| catalogue scan | `find_catalogue`, `find_catalogue_within`, `scan_window` | stream position, overlap buffer | jump to the tail, search chunk by chunk, fall back to the whole body | `CatalogueScan` |
| terminateur | `read_terminateur`, `read_infinint` | stream position | backward count of bits to the catalogue's offset | `Terminateur` |
| catalogue parser | `parse_catalog`, `join_path`, `meta_entry` | `depth`, `dir_stack`, `entries`, `complete` | one turn per entry: end of directory, directory, file, symlink, pipe, socket, stop | `Catalogue` |
| entry field grammar | `read_inode_base`, `read_timestamp`, `read_file_fields`, `read_crc`, `skip_fsa` | stream position | consume the fields a format version writes | `Fields` |
| slice stream | `open_slices`, `SliceReader`, `slice_header_len` | spans, position, total | find and open the slices, `read`, `seek` | `SliceReader` |
| extraction | `extract_to`, `verify`, `decode_blocks`, `CapWriter` | stream position, output so far | seek, bound, copy or decode, compare | `Extract` |
| mounted reads | `DarVfs::read_at`, `content`, `lock` | mutex, cache, the reader | look up, extract, insert, copy | `DarVfs` |
| mounted tree | `build_tree`, `read_dir`, `lookup` | node table | derive the tree from full paths | `VfsTree` |
| audit, bodyfile | `DarAudit::audit`, `write_bodyfile`, `bodyfile::line` | two sets of paths, the list of anomalies, the output | one turn per entry, sort by severity; one line per entry | `Report` |

How they interact: `open` reads the header, calls the scan (format 8 and later)
or the terminateur (before), and then the parser, which calls the field
grammar for each entry. `open_slices` puts the slice stream under all of that;
the rest of the reader only sees `Read + Seek`. `DarVfs` owns a reader behind a
mutex, builds its tree once from the parser's listing and calls `extract` on
cache misses. `audit` and `bodyfile` read the parser's listing.

What is hard in it: the arithmetic of windows, overlaps, unary counts and slice
boundaries under short reads; a grammar without separators in four generations;
one stream position shared by many threads; errors in the middle of a loop that
has already moved state; two counts of one nesting (`depth` and `dir_stack`);
lengths measured once and used later; paths used as identities; defaults that
stand in for what could not be read. Nothing is persisted, so there is no crash
recovery.

Correctness, per component: opening begins the parse at the first entry of a
genuine archive, refuses none and ends; the parser lists what was written and
knows when it has all of it; each field is read as what it was written; the
slice stream is the unsliced stream; extraction returns the whole declared data
or an error; concurrent reads are atomic reads of each file's own bytes; every
entry of the listing is in the tree, once, below its parent; a report says each
thing once and can be read back.

## 2. Modules

`DarOpen` extends `CatalogueScan` and `Terminateur` and takes their steps inside
its own. `SliceReader` refines `UnslicedArchive`, `DarVfs` refines
`AtomicReads`. The others stand alone: what one component hands to another (a
listing, a stream, an entry's fields) is what the next one starts from.

### DarOpen, with CatalogueScan and Terminateur (`open`)

`DarOpen` is `DarReader::open` stage by stage. A file of the model is what an
archive's header says and where things are in its body; each best-effort read
either gives what is written or the code's default, and the history variable
`degraded` remembers a default that stands for a failed read. `FindCatalogue` is
one step of the scan in `CatalogueScan`. `StreamFails` is a failing read at any
stage, `Refuse` what a damaged archive's numbers and strings may provoke.

`CatalogueScan` abstracts bytes to the positions where the two markers begin:
the `seqt_catalogue` escape and the archive's label. A step is one turn of
`scan_window`'s loop with a read of any size from 1 to CHUNK (`FindEscape`,
`FindLabel`, `KeepOverlap`), or a step of `find_catalogue_within` (`TooShort`,
`StartTail`, `FallBack`, `NotFound`). `kept` is the code's `overlap_len`, `start`
the beginning of the window in progress.

`Terminateur` is computed on bytes: `read_terminateur` and `read_infinint` as
operators, and what libdar writes (`WrittenTerminateur`) for the comparison.

An archive record carries `entries`, `infinint` and `genuine`, which only the
properties read. `CatalogueLayout` and `GenuineLayout` state what dar guarantees
about a genuine archive: where the markers are, that a compressed archive's
blocks are recorded in its header when its codec has a form without, that the
infinint before format 8 is the catalogue's offset. `InfinintLayout` states where
libdar puts the infinint and its terminateur. They are the premises of
the theorems, and `MCDarOpen` assumes each of the archives of the run, so that
TLC evaluates them there.

Run `open` makes three sweeps. The first places the markers everywhere in bodies
that end by byte 13, with an escape of 2 bytes, a label of 3, chunks of 3, an
overlap of 2 and a tail window of 6: markers straddle reads and the window's
edge, and the tail scan both hits and misses. The second varies the header: six
TLV lists (the data name equal to the slice's label, different, of the wrong
length, given before or after other TLVs), seven versions on both sides of
11.1, codecs, header flags and block sizes at and past their limit. The third
has archives of format 1 and 7 with terminateurs of every width up to 8 bits of
filling, damaged in each of their last bytes, or cut. `MAX_BITS` is 8 so that the
limit on the unary run is met.

What the properties except, because the code does it:

- With tape marks off, nothing keeps the bytes of an escape out of a stored
  file; the scan takes the first for the catalogue (`lib.rs:621`).
  `LocatesCatalogue` is stated for archives in which only the catalogue has
  markers.
- A compressed archive without tape marks is refused: its label is inside the
  codec stream and nothing marks the catalogue (`Unmarked`). README.md:105 of the
  repository has tape marks on or off both supported; that is so of uncompressed
  archives.
- A stream error in a best-effort read gives a default in place of a field, and
  the parse goes on with the wrong version, codec or block size (`degraded`).
- An archive whose header has fields the code does not parse together with a
  block size is read as one without blocks (`read_compr_bs`).

### Catalogue (`catalogue`)

One step is one entry of the stream. What dar wrote is a second actor rather
than a value: in the same step as the parser's `Read...`, a `Write...` action
records the entry's true path from the directories really open. Trees are
therefore not enumerated up front and have every shape of up to `MaxEntries`
entries and `MaxDepth` open directories. `StopEarly`, `EntryCut` and
`EntryMalformed` end the stream anywhere. `WriteStrayEnd` is no act of dar's: an
end of directory stands before any root, in a damaged archive or where the parse
began at a wrong place. `depth` and `dir_stack` are then at their limit, and the
code takes the mark for the end of the root (`lib.rs:1282`): the listing is empty
and `is_complete()` is true. `CompleteIffClosed` has this as its one exception,
remembered in the history variable `stray`. Bounds: 4 entries and 4 levels reach
a directory that is closed before its siblings are listed, nested twice.

Run `catalogue_nested_root` (finding) allows a sub-directory named `<ROOT>`: the
parser drops it and, at its end, pops its parent's name.

### Fields (`fields`)

The stream is a sequence of tokens, one per field, made by the writer's half of
the module (`WrittenEntry`) for a format; a read asks for a row of kinds of
field (`Call`) and gets them, meets the end, meets another kind (`misread`) or a
number that does not fit. The reader does not know the writer's token names:
`ReadsWhatWasWritten` compares what it lists with them.

Run `fields`: formats 1, 2, 7, 8, 9 and 11, which are both ends of every
generation; every type, filesystem attributes or none, every time unit and width of
CRC; each number at and
past its bound (`WORD` is 16, `SHORT` 8); entries alone and in pairs, since a field too many
shows in the next entry; the file cut after every token. A time of 2^63 seconds
or more is listed as a negative one, and the audit's `FutureTimestamp` misses it.

Run `fields_ea` (finding): full extended attributes are written behind the times
and never read, so every later field is out of step. Run `fields` has entries
without them.

The writer's entries are saved ones. It writes no partial status of filesystem
attributes and no file whose data was not saved, as a differential archive has:
what dar writes of those the repository only touches on
(`docs/implementation-notes.md:345` and `:360`), and the code has no case for
them, as `parse_catalog` masks the upper bits of the type byte and
`read_file_fields` reads every file as a saved one.

### Extract (`extract`)

The archive is a sequence of cells: a byte of data, of which a codec makes two,
a block header with its size, the end of a codec stream, or junk. `compression`
and `stored_size` are what `read_file_fields` makes of an entry's fields in
formats 1, 2 to 7 and 8 onwards. A call is `CallExtract` or `CallVerify`;
`Locate`, `RejectStart` and `RejectClaim` are the checks before any read;
`Copy` and `CopyEnds` the stored branch; `ReadSpan` and the block and stream
actions the compressed ones; `Compare` the final check of the size. `WithinCap`
is `CapWriter`. `StreamEnds` and `StreamFails` are both possible where a stream
breaks off, since decoders differ in that. `dar_crc` folds the low bits of the
data; the MC module computes the checksum dar stores in its own way. An archive
record carries what dar archived and where it put the headers of its blocks, for the
properties; `GenuineArchives` states what makes one genuine.

Run `extract` takes one file of four bytes in every format, codec and framing,
in one file or in slices, as dar wrote it and with one thing wrong (any cell of
its data, its size, stored size or offset), two calls in any combination, a
file that loses its end at any moment, and failing reads and writes. The second
call is what shows that nothing is left over from the first; `BlockSize` is a
block of two cells, so a block may be too large. `WholeIfDecoded` is stated of
compressed entries: `io::copy` returns the shorter count of a stored entry whose
file has shrunk, and `extract` drops it.

Run `extract_legacy` (finding): before format 8 a file that dar left
uncompressed in a compressed archive cannot be extracted.

### SliceReader and UnslicedArchive (`slices`)

`UnslicedArchive` is the promise of the doc comment: one file that answers
`seek` and `read_exact`. `SliceReader` models `open_slices` (`FindSlice` counts
up to the first number that is missing), `SliceReader::open` (one slice file per
step), `seek`, and the reads that `read_exact` makes: `Fill` is one file read
inside `SliceReader::read`'s loop, `ReadReturns` the three ways that loop ends,
`ReadIsShort` the retry in `read_exact`. Bytes are named by their position in
the archive, so a byte in the wrong place shows. `lost` means that the position
after a failed `read_exact` is unspecified and the caller must seek (as every
caller of the repository does).

Faults are a constant: `missing` (a slice file is not there), `error` (a failing
file read), `interrupt` (EINTR), `truncate` (a slice file shrinks after open),
`cut` (before open). Run `slices` has them all: one to three slices, one of them
empty, and reads of 1 and 3 bytes over archives of up to 6 bytes cross one and
two boundaries in one call. The refinement `ReadsAsUnsliced` has one exception,
the history variable `garbled`, after which `UnslicedArchive` promises nothing.
The run shows that there are these two ways into it and no third:

- a slice that was cut before it was opened shifts all later bytes, without an
  error (`lib.rs:797`);
- a read that has advanced past a slice boundary is interrupted, and the retry
  in `read_exact` resumes behind the bytes it never got (`lib.rs:840`).

A slice missing in the middle leaves an archive that ends before it, also
without an error (`lib.rs:888`); the catalogue is in the last slice, so that
opening such an archive fails later.

### DarVfs and AtomicReads (`vfs`)

`AtomicReads` is the promise: every `read_at` answers in one step with bytes of
its node, or fails. `DarVfs` has N workers over one mutex, one cache and one
stream position; steps are the lock, the look-up (`Hit`, `Miss` with
`extract_to`'s seek), each read (`Extract`), the insertion with the release,
and the copy. `ExtractFails` and `Panic` end an extraction at any point; after
a panic the mutex is poisoned and `Lock` takes it all the same. An extraction
that does not fail is whole, which is what `Extract` shows of compressed entries
and of stored ones whose file does not shrink.

Run `vfs`: two workers, two files of which one is read in two steps, two calls
each with offsets 0 and 1. That is enough for a hit, a miss, a wait at the
mutex, a failure and a panic in every order.

Run `vfs_duplicate` (finding): two entries with one path.

### VfsTree (`tree`)

A step is one turn of either loop of `build_tree`. `read_dir` and `lookup` are
operators on the result. The run takes all listings of up to 4 entries over 5
paths up to three names deep, in every order, with duplicates and orphans,
provided that a listed path with entries below it is a directory. Without that
premise `EveryEntryIsListed` does not hold: when a directory and a file share a
path, the second loop may attach the directory's entries to the file's node,
and `read_dir` refuses it. With duplicate directories `lookup` returns the first
of them while the entries hang below the last; `LookupFindsEntry` is stated for
listings of unique paths whose directories are all listed.

### Report (`report`)

`audit` is one step per entry (`Examine`) and the sort; `write_bodyfile` one step
per line (`WriteLine`), or a line the writer broke off (`WriteFails`). A path is a
sequence of characters, some of which are control characters or not UTF-8;
`lossy` is what the report shows of it, while duplicates are found among the
paths as stored. `LinesAreEntries` reads the output back with a reader of its own
rather than with the operators that wrote it: `Read` takes one character, closes a
field at a bar and a line at a line feed, and keeps what it has of an escape
(`begun`) until its `Meaning` is known; `After` is the reader after a whole text,
and `ShowsBit` says which of the twelve mode bits a permission string shows. A
control character's code is `Code`; a number is one character, `ToText`, that is
neither a control nor a bar nor a backslash, as its digits are.

Run `report`: catalogues of up to 3 of 11 entries, with paths that are absolute,
climbing, full of bars and backslashes, broken by a line feed or not UTF-8; and
one entry with each of the 4096 modes and each kind.

## 3. Runs

| Run | Checks | Shows |
|---|---|---|
| `open` | `NoMarkerPassed`, `MissingOnlyIfAbsent`, `LocatesCatalogue`, `ParsesTheEntries`, `GenuineOpens`, `LocatesInfinint`, `OpenEnds` | opening finds the first entry of every genuine archive, refuses none of them but the compressed without tape marks, and ends |
| `catalogue` | `ListsTheTree`, `CompleteIffClosed` | the listing is the tree; complete are the catalogues whose root was closed and one that begins with an end of directory |
| `fields` | `NeverMisreads`, `ReadsWhatWasWritten`, `ErrorsAreEarned` | each field is read as what it was written, and refused only for cause |
| `slices` | `SpansTileArchive`, `ReadsAsUnsliced`, `ReadEnds` | the slice stream refines the unsliced stream |
| `extract` | `SoundIsWhole`, `WholeIfDecoded`, `OutputIsCapped`, `OutputIsPrefix`, `CallEnds` | of a genuine archive the whole data comes out; of a compressed entry the whole or an error and of a stored one at worst its beginning, whatever is cut or fails; never more than declared |
| `vfs` | `ReaderIsOwned`, `CacheIsTrue`, `ExtractsOnce`, `ReadsAreAtomic`, `ReadsComplete` | concurrent reads are atomic, whatever fails |
| `tree` | `ParentsAreTrue`, `ListedOnce`, `EveryEntryIsListed`, `LookupFindsEntry` | the tree is the listing's |
| `report` | `ReportsExactly`, `WorstFirst`, `LinesAreEntries` | each observation once, in order; the bodyfile reads back |
| `catalogue_nested_root`, `fields_ea`, `extract_legacy`, `vfs_duplicate` | one property each, violated | the findings in `PROJECT.json` |

Every passing run also checks its module's `TypeOK`. Deadlock is not checked:
each of these is an operation that ends (or a bounded number of them). For every
property a mutant in the same module (`_OneShort`, `_NoSeek` and so on, each
under a comment that begins "Faulty") breaks it.

Fairness. `open`, a `read` of the slice stream and an extraction are sequential
functions: once called they take their next step (`WF` of that step), whatever
the streams return; faults are not fair. In `vfs` there is weak fairness per
worker inside `read_at` only. The standard mutex is not fair; weak fairness
suffices because each worker makes at most `MaxCalls` calls (a bound of the
model), so `ReadsComplete` says that nobody is blocked for ever, not that an
unfair mutex cannot starve a worker under an endless load.

## 4. Proofs

Each theorem is `Spec => []P` (or an implementation) for all values of the
constants under the named assumptions of its module; the argument is an
inductive invariant with one lemma per action.

`DarOpen_proofs`, first part, on `CatalogueScan` alone. Assumption:
`ScanConstants` (positive lengths, and an overlap of at least each marker's length less one). The inductive invariant is
`TypeOK` with the statement that everything between `start` and `pos` has been
seen: no whole marker lies in it, and the overlap kept is either OVERLAP bytes
or everything read since `start`. That second part is what makes the first
survive a step: a marker that ends in the newly read bytes begins inside the
buffer. `MissingIsAbsent` follows at the last window, which starts at the
origin; `ScanLocates` also needs `CatalogueLayout`.

`DarOpen_proofs`, second part. The scan's lemmas are about its steps and not its
specification, so that they are used again for the scan inside `open()`, which
starts it from another state (`OpenPassesNoMarker`, `OpenMissingIsAbsent`,
`OpenLocates`). `OpenParsesTheEntries` adds `Stages`: what each stage may rely on
(which generation the archive is of, that the version and codec are the file's
unless `degraded`, that the archive being scanned is the file, and where `at` is
at the label, the path and the parse). `OpenRefusesNone` adds `Knowledge`: the
label looked for is the last data name read, and the block size is what the
header records. It is needed because a refusal is a statement about what was
looked for, which `Stages` does not say. Both assume `CatalogueLayout` and
`GenuineLayout`. `TerminateurLeadsBack` assumes `InfinintLayout`, that the file
ends with what libdar writes for some number and width, and nothing of the size of
a group: `Trailer` says where in the written bytes the last bits are and that only
0xFF follows, by the division that the filling makes exact (`Division`), and
`LeadsBack` that the reader's count of them, times the group, is the way back.
Seven groups are left out because eight bits would stand behind a zero byte,
which the reader refuses.

`Catalogue_proofs`. Assumption: no entry is named `<ROOT>`. The inductive
invariant relates the parser's two counts to the directories really open:
`depth` is their number and `dir_stack` the names that count (`Prefix`). It is needed because `entries = written` alone says
nothing of the path the next entry gets. `RootIsFirst`, that nothing is written
before the root, is why a stray mark finds the listing empty. Lemmas say what `Front`, `Tail` and `Append` do to the prefix.

`SliceReader_proofs`. Assumption: `SlicerConstants`. The invariant (`Discovery`,
`FilesAreWhole`, `Chain`, `SpansAreData`): discovery has found all slices up to the
first missing one, no file has lost a byte while `intact`, each span starts where
the previous one ends, and while `intact` a span is its slice's data, the last one
with the flag behind it. `SpansTile` is the last two; the second is what makes a
new span satisfy them. `SlicesRefine`, that the stream implements `UnslicedArchive`,
needs two more: `OpenedWhole` (a stream that is open and not garbled has the span of
every slice found, which a later cut does not change) and `ReadSoFar` (what a
read has is the bytes of the archive just before `pos`). A complete read is then
`ReadExact`, a stopped one `UnexpectedEof` because before the end of the stream
some span holds `pos` (`SomeHolds`, by the least one that ends beyond it) and a
whole file still has the byte (`AvailableWhenWhole`); a cut is `Damage`, an
interrupted read with bytes in its buffer is `Garble`, and everything else
stutters.

`Extract_proofs`. A first invariant is `TypeOK`, `Branches` (each phase belongs to the
branch the entry's codec chose), `OutputIsCapped` and `DeclaredLength`, for archives
damaged in any way. `Branches` is needed because the cap is enforced in another place
in each branch: by the claim check in the stored one, by `WithinCap` in the others.
A second, `Faithful`, is about genuine archives: `AsWritten` says what dar makes of
the data (copied, one stream, or blocks behind headers), and `Progress` where in that
layout each phase of a call is: how many cells of which run are decoded, that the
output is what was archived up to there, and which header is next. `SoundIsWhole`
follows as no refusal applies to such a state (`NeverRefused`), `OutputIsPrefix` and
`WholeIfDecoded` as storage failures end a call or leave `Progress` true. Assumptions:
`ExtractConstants`, `GenuineArchives` (what `genuine` means, checked by TLC of the
archives of the run) and `NoneLeftUnpacked`, which run `extract_legacy` shows to be
needed. The checksum is an operator the proof does not look into.

`DarVfs_proofs`. Assumption: `VfsConstants`; any number of workers, calls and
entries. The inductive invariant adds to mutual exclusion what the lock holder
has read (a run of bytes from the start of the entry `extract` found) and where
that left the stream, that a node being extracted is not yet in the cache, and
that `inserted` is 1 for exactly the cached nodes. The first is needed because
`CacheIsTrue` alone says nothing of what is about to be inserted. All of it
holds with duplicate paths too, for the first entry of the path (which exists
because the naturals are well-founded: `LeastNatural`); only `CacheStaysTrue` and
the refinement assume `UniquePaths`, and run `vfs_duplicate` shows that they must.

The same module proves that `DarVfs` implements `AtomicReads`. The invariant is
strengthened once more (`CopiesWhole`: who is about to copy has the whole data of
its file). The initial state maps to the abstract one; `Copy` is `Answer`,
`ExtractFails` is `Fail`, `Panic` is `Die`, and the lock, the look-up, the reads
and the insertion are stutters: a read takes effect when it copies.

`VfsTree_proofs`. The invariant adds `MapIsExact`: `by_path` maps every path of the
nodes created so far to one of them that has it. `ParentsAreTrue` and
`ListedOnce` then survive a turn of the second loop, for every listing, with
duplicates and orphans. `NothingIsLost` and `PathsResolve` assume `ParentsAreDirs`
(above, the premise of the run) and go by the length of an entry's path: the nodes
whose paths are shorter bound the steps in which a walk reaches it. Walks are
recursive functions; that they exist is a lemma (`WalkExists`), by the least length
at which one would not.

`Fields_proofs`. Assumption: `FieldConstants`, and that no entry has full extended
attributes (`NoEa`; run `fields_ea` shows that the theorems need it). A stream
without separators gives an invariant nothing to hold on to but its own grammar, so
the invariant says what is ahead: `Ahead` is, for each point of the parser, the
tokens the writer still has to put after it, and `InStep` that the stream goes on
with exactly these, that the entry so far is what `Expected` says, and that no
token passed was past its bound. A step removes a row of tokens from the front of
`Ahead` (one lemma per action), and `Layout` says where in the concatenation each
entry begins. `ReadsWhatWasWritten` looks a field up among all the tokens written,
so the last lemmas show that a field's name occurs in one token of its entry.

`Report_proofs`. Assumption: `ReportConstants`. The sort is by counting: an
anomaly's place is 1 and the number of those before it, by rank and then by
position. `Places` says that places are a permutation (no two are equal, so by
counting each is taken), and `StableSort` that the list by places is sorted,
stable, and holds each anomaly as often as before (`CountSorted`). `Walk` and
`Tally` are the invariants of the walk: the sets hold the paths seen at least once and
at least twice among the entries passed, and each anomaly has been reported as often as
it was `Observed`. One turn adds one path (`OneMoreSeen`) and the observations
of one entry (`OneMoreObserved`); that several stored paths may look alike is
why `Tally` counts the stored ones behind each shown one. `InOrder` says that
what was reported so far is in the order of the entries, from which a stable
sort makes `WorstFirst`.

`Report_proofs`, second part, for `LinesAreEntries`. `ReportConstants` also says
that no two control characters have one code, that the characters the writer uses
itself are no controls, and that each number has a text. `After` is a recursion
over the text; its function exists by an induction that is spelled out
(`StepByStep`, from the least number that would break it), and `AfterConcat` says
that reading two texts in a row is reading the second where the first ends. From
there it is the grammar, from the inside out: one character's escape reads as that
character, whichever it is (`ReadEscape`: a backslash or bar, a control by its two
hexadecimal digits, `CodedBack`, or itself), hence an escaped name as the name
(`ReadName`), hence a line as eleven fields that describe the entry (`TakesLine`,
with `Permissions` for the twelve bits). The invariant `Bodyfile` is that what was
written reads as the entries passed and ends where a line begins; when the writer
fails, that the rest, which holds no line feed, adds no line (`AfterStays`).

Model-checked only: liveness (`OpenEnds`, `ReadEnds`, `CallEnds`,
`ReadsComplete`), which is out of the prover's reach, and the runs that expect a
violation.

## 5. Not modelled

- The codecs (gzip, bzip2, lzo, xz, zstd, lz4) are external crates; only their
  framing is the repository's, and `Extract` has it.
- Serialisation, fuzz targets, fixtures and CI hold no logic of the reader.
- `meta`, `extents` and `read_link` of the mounted view copy fields of an entry.
- The wording of notes, codes and messages in the audit.
- The wrapping of the seek target in `SliceReader::seek` is out of reach of its
  callers; the model keeps targets within `MaxPos`.

What would be next: extended attributes in `Fields`, once the reader reads them.
