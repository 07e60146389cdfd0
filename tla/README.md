# A model of dqlite-utils

`dqlite-utils` inspects the on-disk state of a dqlite node: it opens the node's
folder (raft metadata, snapshots, log segments) without stopping the node, shows
the log and the configuration, serves the node's databases at any log index
through a SQLite VFS, and writes new snapshots. This directory holds TLA+ models
of the parts with state and order in them, the TLC configurations that check
them, and TLAPS proofs that what the checks find on small instances holds for
every value of the constants. Paths below are relative to the repository; `tla/PROJECT.json` maps every definition
to its lines.

## 1. The system

| Component | Code | State it keeps | Operations |
|---|---|---|---|
| Folder model | `src/dqlite/mod.rs` 180–610, 640–950 | `DqliteDir`: metadata, snapshots (oldest first), segments (closed, then open) | `open`, `first_index`, `current_index`, `current_term` |
| Open VFS | `src/command/open/vfs.rs` | a private SQLite database (`dqlite_page`, `dqlite_database`, `dqlite_transaction`, `raft_log`, `raft_configuration`), `current_index`, open files with their pinned index | `from_dir` (snapshot, then log), `set_current_index`, `databases`, `open`, `read_at`, `size` |
| Program, shells, dispatch | `src/main.rs`, `src/command/mod.rs`, `src/interactive_reader.rs` | the `Context`: folder, loaded VFS, current `Shell` | start-up with retries, run a batch (`-c`), a pipe or a terminal |
| Open shell | `src/command/open/` | a connection with the databases of one index attached | `.open`, `.index`, `.databases`, `.close` |
| SQL command | `src/command/sql/mod.rs` | what the user attached, his transaction | any SQL on the shell's connection |
| Snapshot shell | `src/command/snapshot/` | an in-memory database with `servers` and `raft_metadata`, the user's attached databases | `.snapshot`, `.add-server`, `.set-*`, `.info`, `.finish`, `.abort` |
| Folder writer | `src/dqlite/mod.rs` 960–1490 | files of a folder being written | `DqliteDirCreator::create`, `DqliteSnapshotBuilder` |
| Segment files | `src/dqlite/mod.rs` 570–965, 1466–1533 | the words of a file; of each closed segment an open handle with its position | `DqliteSegment::open`, `entries`, `load_segment_file`, `DqliteLogEntryContent::parse`/`encode`, `DqliteSegmentBuilder`, `write_segments` |
| Snapshot data file | `src/dqlite/mod.rs` 130–165, 430–575, 1034–1175; `vfs.rs` 300–420 | an LZ4 frame with headers, main files and WALs; two read buffers | `write_snapshot_data`, `read_content`, `DatabaseLoader` |
| Inspection | `src/command/log.rs`, `config.rs`, `status.rs` | none | `.log`, `.config`, `.status` |
| Interactive input, help, arguments, pager, SQLite wrappers, FFI | `src/prompt.rs`, `src/command/help.rs`, `src/args.rs`, `src/utils.rs`, `src/rusqlite_ext/`, `src/dqlite/sys.rs` | terminal history, child process of the pager | I/O and declarations |

How they interact. `main` opens the folder once (`Context::open` →
`DqliteDir::open`), with the node possibly running beside it. `.log`, `.config`
and `.status` walk that `DqliteDir`. The first `.open` loads it into a
`DqliteVfs`, which outlives the shell; each `.open` and `.index` selects an
index in it and attaches its databases to the shell's connection, one `ATTACH`
each, and each `ATTACH` calls back `Vfs::open`. The user's SQL runs on that
connection, and reads end in `read_at`. The snapshot shell has a connection of
its own; `.finish` takes write locks on the user's databases, checks the tables,
hands everything to `DqliteDirCreator` and `DqliteSnapshotBuilder`, and rolls
back.

Hard behaviours. There are no threads of our own: what interleaves is the
program with the node that owns the folder, with other processes that use
databases attached for a snapshot, and with the user's own SQL on the connection
the commands use. The node may also crash and start again beside the program: it
leaves parts of batches in its segments, and then closes and removes files. Loading may fail at any row and be tried again; `.index` may
fail between two `DETACH`es; `.finish` may fail or be killed between two files.
Index arithmetic is done four times (loader, `.log`, `current_index`, segment
names) and must agree. Every hazard, with its line, is listed under `hazards` in
`PROJECT.json`, with the properties that would catch it or why none does.

What makes each component correct:

- *Open VFS*: at each selectable index every page reads as the snapshot and the
  log up to that index left it; loading never changes what was loaded; the past
  does not change under an open file; a failed load leaves nothing.
- *Open shell*: what is attached is of one index, whatever failed; success means
  all of it; the shell's end leaves nothing attached; a transaction of the user
  keeps reading what it has read.
- *Snapshot shell and writer*: `self` is a server, what is written is of one
  moment, a `.meta` file stands only beside the other files, whole, a failed `.finish` leaves
  its own folder empty and other people's files alone.
- *Live folder*: what is opened meets its snapshot and has each entry at its
  right index, and stays readable.
- *Segment files*: a read is as if made at one moment, or an error; an error has
  a reason; the names of closed segments count what is in them.
- *Data file*: what is read back is what SQLite showed; headers and contents are
  never confused.

## 2. Modules

| Module | Models | Checked by |
|---|---|---|
| `DqliteFolder` | the operators of `DqliteDir` on snapshots and segments: `FirstIndex`, `CurrentIndex`, `NumEntries` | through the others |
| `PointInTime` | abstract: a timeline of images, and files that never change | refined by `DqliteVfs` |
| `DqliteVfs` | loading and serving, row by row | `vfs`, `vfs_open_only`, `vfs_gap` |
| `Inspect` | `.log`, `.config` beside `DqliteVfs` | `vfs` |
| `Session` | one run of the program, the open shell and SQL in it | `session`, `session_latest` |
| `SnapshotShell` | the snapshot shell and `.finish` | `snapshot` |
| `LiveOpen` | opening the folder while the node runs | `live`, `live_hole` |
| `SegmentFile` | one segment file word by word: written by a node that crashes and restarts, or by `DqliteDirCreator`; read while it is written | `segments` |
| `SnapshotStream` | writing and reading the data file | `stream`, `stream_opposite`, `stream_stale` |
| `MC*` | instances for TLC | |
| `DqliteFolder_proofs` | lemmas about `Max`, `Min`, least numbers, `NumEntries`, `FlattenSeq` and the ways to cut a log | TLAPS |
| `DqliteVfs_proofs`, `Replay_proofs` | theorems about `DqliteVfs` and `Inspect` | TLAPS |
| `Session_proofs`, `SnapshotShell_proofs`, `LiveOpen_proofs`, `SegmentFile_proofs`, `SnapshotStream_proofs` | theorems about these modules | TLAPS |

Some definitions are marked `MUTANT of X`: variants of an action with a
plausible mistake in it. Nothing but `PROJECT.json` uses them; each shows that
the property it stands beside can fail.

### DqliteVfs

The variables named after tables are the tables of `SCHEMA` (`vfs.rs`); a
table with a primary key is a function from its key. `folder` is the
`DqliteDir`; `stage` says where `from_dir` is, and the cursor (`db`, `part`,
`pos`, `seg`, `ent`, `frm`, `index`) which item comes next. Actions are the
statements that change rows: `BeginSnapshot`/`BeginWithoutSnapshot`,
`LoadMainPage`, `LoadMainEnd`, `LoadWalFrame`, `LoadWalEmpty` (the early return),
`LoadWalEnd` (the `DELETE`), `FinishSnapshot`, `SkipSegment`, `SkipEntry`,
`InsertEntry`, `InsertFrame`, `NextEntry`, `EndSegment`, `FinishLoading`;
`LoadFails` may happen at each of them, drops the database and `LoadAgain`
starts over. Row ids are chosen as SQLite does, `MAX(rowid) + 1`, so ids of
deleted rows come back. Serving is `SetCurrentIndex`, `OpenFile` (which pins the
file to `ChangeIndex`, the last change of its database, and refuses a database
of size 0) and `CloseFile`; `ReadPage` is the query of `read_database_page`.
`write_at`, `truncate`, `sync` and the locks of the VFS change nothing and are
left out.

`PointInTime` says what this promises without tables: while loading, writes
come in log order and are visible from their index on; then the timeline is
fixed, and a file is the image of its database at the index that was selected
when it was opened. `DqliteVfs!ImplementsPointInTime` instantiates it with
`image[i]` as what `ReadPage` yields at `i`, `now` as the index being replayed
and `handles` as what the open files read, through the index they are *pinned*
to. The refinement therefore covers the hop from the selected to the pinned
index.

### Inspect

`.log` counts indexes backwards from `CurrentIndex`, `.config` looks for the
newest configuration in the log first, then in the newest snapshot; the loader
goes forwards from the oldest snapshot. Two action properties on the step
`FinishLoading` compare them.

### Session

`source`, `stage`, `status` are `main`: commands of `-c` are all parsed before
the first runs, a failing one ends a batch or a pipe with exit code 1, a line
that cannot be parsed ends a pipe with code 0, a terminal goes on. `shell`,
`attached`, `prompt`, `loaded` and `current_index` are the `Context`; `command`
and `todo` are the command in progress; `todo` holds positions in `Names`, the
order in which the VFS names its databases. `.open` and `.index` detach (`DetachNext`,
`DetachFails`) and attach (`AttachNext`, `AttachFails`, `AttachFailsOpen`) one
database a step. `Pin` stands for `DqliteVfs`, with what the proofs give about
it as `PinAssumption`. The user's SQL is `BeginTransaction`, `EndTransaction`,
`Read`, `Attach`, `Detach`; a database that has been read in a transaction is
locked, and `DETACH` of it fails.

### SnapshotShell

`tables` are the in-memory tables, with `saved` for `ROLLBACK`, the foreign key
from `self` and `ON UPDATE`/`ON DELETE`; `sql` is the state of the
connection; `finishing` is `.finish`: `BeginFinish` holds every check and the
`BEGIN IMMEDIATE`s, then one action per file (`WriteMetadata`, `WriteCluster`,
`WriteInfo`, `WriteHeader`, `WriteDatabase`, `CloseData`, `WriteMeta`), each of
which may fail, `Finish`, and `Cleanup`, which removes the folder only if
`.finish` made it. `Killed` ends the program between any two of them. Beside it
run `OthersWrite` (a process that writes to an attached database, if it gets the
lock), `OthersCreate` and `OthersRemove` (in the target folder).

### LiveOpen

The node (external, modelled from how `UvList` and the readers use its files):
`Prepare` makes an open segment, `BeginAppend`/`EndAppend` write to the active
one, `Advance` goes on to the next, `Finalize` renames or removes the oldest,
`TakeSnapshot` and `RemoveSegment` trim. `Crash` stops the node at any point;
then `Recover` closes or removes its open segments one by one, as raft does at
start-up, and `Restart` lets it run again. The reader: `ListFolder`, `OpenSnapshot`,
`OpenClosed` (opens the file, reads later), `ReadOpen` (reads at once),
`OpenFails` with the retry of `main`, `ReadEntries`. An entry is its own index,
so the index the reader gives it can be compared with the right one.

### SegmentFile

`LiveOpen` takes a read of an open segment for one step, and so that batches are
whole; here that is shown. A file is a sequence of words, and a checksum is the
words it is the checksum of. The node creates a segment (`CreateSegment`, `Extend`),
writes one batch at a time over zeros, its words in any order (`BeginBatch`,
`WriteWord`), cuts and renames it (`Finalize`), and may `Crash` and `Restart`.
Or, instead of a node, `WriteClosed` and `WriteOpen` write what a creator was
given through `add_batch` and `add_entries`. The reader is `OpenSegment`,
`Entries` (the same handle again), then `load_segment_file` in steps: `Seek`,
`ReadWords` (each `read` of `read_to_end`), `EndOfFile`, `CheckFormat`, and for
each batch `LoadBatch`, `CorruptBatch` or `ShortBatch`. `Parse` and `Encode` are
those of `DqliteLogEntryContent`. The variables `start` and `torn` only remember
what the properties compare with.

### SnapshotStream

The data file as a sequence of half-headers and half-pages, so that reads may
end inside either. The writer sizes all files (`AddSize`), announces the sum
(`WriteHeader`), sizes each again for its header (`WriteDatabaseHeader`,
`BeginMain`), copies (`WritePage`, `WriteWal`) and closes the frame
(`FinishEncoder`, which compares with the announced sum). `Checkpoint` by another
process may come in between. The reader is `Refill` (`BufferedReader.buf`),
`DecodeHeader`, `DecodeDatabase`, `Fill` (the `BufReader` over `Take`), and the
loader's `LoadMainPage`, `LoadMainEnd`, `LoadWalFrame`, `LoadWalEnd`.

## 3. Runs

| Run | Distinct states | Shows |
|---|---|---|
| `vfs` | 63,435 | Loading and serving every small folder with failures anywhere. `RowsReferToPages` (foreign keys hold and no page is shared, although ids are reused), `NoPageIsLeaked`, `ReadsReplayLog` (each page at each index equals the replay of the files, computed without tables), `PinnedReadsAreCurrent`, `ContiguousLogIsSelectable` (the selectable indexes are exactly the loaded ones), `IInv`, `LoadingEnds`, `ImplementsPointInTime`, and `.log` and `.config` agree with what was loaded |
| `session` | 5,993 | `NoFileIsLeft`, `OneIndexAtATime`, `SuccessIsComplete`, `TransactionsKeepTheirIndex`, `CommandsEnd` |
| `snapshot` | 253,168 | `SelfIsServer`, `MetaIsLast` (the other files are whole when there is a `.meta` file; that one may be cut short by a kill), `OneMoment`, `NothingLeftBehind`, `ExistingFilesStay` |
| `segments` | 459,574 | `ReadIsAtomic` (a read that succeeds yields whole batches, all that were there when it began), `TornIsRefused` (it saw all words of a batch or none), `RefusedForAReason`, `NamesCountEntries` (names of closed segments join up, and are right as long as each batch has one entry), `ReadingEnds` |
| `live` | 756,632 | With crashes and restarts of the node at any point: `RetriesStartOver` (what is opened is one listing, whole, with nothing of attempts that failed; errors come only after all attempts), `PrefixIsRight`, `LogMeetsSnapshot`, `OpenedStaysReadable`, `OpeningEnds` |
| `stream` | 26,024 | `NothingIsMisread`, `HeadersAreRight`, `SnapshotIsDatabase`, `StreamEnds` |

Runs that end in a counterexample, each a disagreement of the code with
something the repository says (`findings` quotes the lines):

| Run | What TLC finds |
|---|---|
| `vfs_open_only` | Without a closed segment `current_index` is one too high: in a folder without a snapshot and with two open segments, whose log ends at 3, index 4 can be selected. `.log` then prints numbers that belong to no entry. |
| `vfs_gap` | After a node installed a snapshot from its leader, the log does not continue the oldest snapshot; indexes between are accepted and read the old snapshot. |
| `session_latest` | `.open 2`, whose `ATTACH` fails, and then `.open` shows index 2 of a log up to 4 under the prompt `open@latest`. (A `.open 2` that succeeds and a `.close` leave the same behind; it is the longer way.) |
| `live_hole` | Two open segments are read at different moments; entries between are lost and later ones get wrong indexes. |
| `stream_opposite` | A checkpoint adds a page to one database and cuts one off another while they are copied: the announced sum is right and a header is not. |
| `stream_stale` | Frames behind the last reset of a WAL are copied and replayed, so old pages replace newer ones. |

Seen on the way, and in no run:

- After an `.index` that fails while attaching, the databases are of the new
  index or missing, but the prompt still names the old one. No text says what the
  prompt shows then.
- A timestamp before 1970, and a `self` that names no server (with foreign keys
  off), pass the checks of `.finish` and fail it after files are on disk
  (`TimestampFails`, `SelfFails` in `SnapshotShell`; `src/dqlite/mod.rs:1045`),
  although its help says "validate snapshot and write to disk"
  (`src/command/snapshot/finish.rs:31`). `MetaIsLast` and `NothingLeftBehind` hold
  all the same; in a folder that existed before, what was written stays, and the
  next `.finish` fails because of it.
- The example session of the repository's README adds a server, attaches a
  database and calls `.finish`, which answers `no 'self' server set`.
- `--max-retries` counts attempts; its help (`src/args.rs`) speaks of retries, so
  1 means none.
- Commands of `-c` are not trimmed: in `-c ".open; .index 3"` the second starts
  with a blank and is taken for SQL.
- `.quit` exits the process without destructors, so what the end of input does
  (saving the history, waiting for a pager) does not happen.

### Bounds, and why they are enough

- `vfs` (`MCDqliteVfs`): two databases of two pages, three contents (one of which
  holds database size 0, which is how a database is deleted), `MaxIndex` 7,
  `MaxFiles` 2. Snapshots at index 2: one whose WAL rewrites pages twice, one with
  a second database and without a WAL. All logs of three entries from four, cut
  into closed and open segments in each way, from index 1 (overlapping the
  snapshot) or 3 (just behind it), plus folders without a snapshot, folders with
  two snapshots and with changing configurations, and two that fail to load. Rows
  of different keys do not interact except through row ids, and for these two
  pages and a rewrite suffice.
- `session` (`MCSession`): three databases over three indexes (one that always
  changes, one created, one deleted), `MaxAttached` 2, so that SQLite's limit of
  attached databases is met; indexes 1 to 4 are asked for, 1 being out of range.
- `snapshot` (`MCSnapshotShell`): two servers, two databases, each in WAL mode or
  not with two page sizes, timestamps before, at and after the range
  (`MaxTimestamp` 0). Two of each are enough to disagree with one another.
- `live` (`MCLiveOpen`): `MaxIndex` 4 entries, `MaxCounter` 4 open segments, two
  at a time, `MaxRetries` 2: a snapshot, a removal, a second snapshot and an open
  segment beside them fit in. Crashes are not bounded: each is followed by a
  restart with fewer open segments.
- `segments` (`MCSegmentFile`): logs of two batches of one and two entries, one
  with an entry of an unknown type, one that starts with the zeros of a barrier;
  segments of 12 or 13 words, where the last batch ends at the end of the file,
  one word before it (the short read), or further; blocks of 4 words. Reads
  return any number of words. Creators have up to two closed and two open
  segments, with an empty open one among them.
- `stream` (`MCSnapshotStream`): up to two databases of up to three pages; reads
  return 1 to `Chunk` 3 units, which is more than a header (2) and no more than a
  frame (3), so that each buffer can hold parts of two items.

### Fairness

Each `FairSpec` asks only that the program itself goes on: the step of the
loader (`LoadStep`, and its failure where nothing else is possible), of the
command in progress (`CommandStep`), of the reader
(`ReaderStep`), of the writer and reader (`WriteStep`, `ReadStep`; in `SegmentFile` of the
reader only). These are
straight-line code of one running thread. Nothing is asked of users, of the
node, or of other processes, and each liveness property holds whatever they do.
Of `SnapshotShell` none is stated: `.finish` is a fixed sequence of steps.

### Assumptions of the models

- `DqliteVfs`: `FolderAssumption` is what parsing and `UvList`'s sorting
  guarantee (the comment in the module says which part is raft's: the log is not
  behind the oldest snapshot). `NamesAssumption`: no snapshot names a database
  twice; a snapshot is made of dqlite's registry, which has each name once, and
  the loader does not look. Logs begin with a configuration, as raft's do.
- `Session`: `PinAssumption` is what the theorems about `DqliteVfs` say of the
  indexes it pins files to; it takes names from a `UNION`, so none comes twice.
  The user attaches databases of his own; that he names the VFS in an `ATTACH`
  and so opens one of its databases himself is left out.
- `SnapshotShell`: addresses and roles are left out; one target folder;
  `remove_dir_all` succeeds; `BEGIN` by the user only while no leftovers are in
  the folder and the kill only inside `.finish` (both cut states that add nothing);
  foreign keys are turned off, never on again; no read-only files. The foreign key
  is checked at each statement: `PRAGMA defer_foreign_keys`, which puts that off
  to the `COMMIT`, is left out. It ends with the transaction, and `.finish`
  refuses inside one, so it never sees a `self` that the key would not allow.
- `LiveOpen`: `UvList` sees one moment; raft closes its open segments before it
  stores a snapshot, keeps two snapshots and enough of the log behind them, and
  at start-up closes what it finds open. All from the C library, which is not in
  the repository.
- `SegmentFile`: raft writes a segment batch by batch over zeros, and what has
  been written is not lost in a crash; at start-up it drops a part of a batch and
  closes the segment; `uvLoadEntriesBatch` needs two words to start a batch, and
  its error for fewer is not `CORRUPT`; checksums tell any two contents apart.
  Reads and writes do not fail, a word is not split, and the format is 1.
  `SegmentAssumption`: batches are not empty (raft appends none, `add_batch` is
  given none in the repository), and neither are closed segments
  (`with_closed_segment` asserts it); a segment and a block have two words or
  more; the types of a later dqlite (`Later`) are none of those the tool knows.
- `SnapshotStream`: finishing the LZ4 frame checks the announced content size;
  `.finish`'s write lock keeps WALs from being reset or appended to, and a
  checkpoint needs no write lock. A database that grows beside one that shrinks
  by the same amount is not among the inputs of `stream`, which keeps to what
  `OneWay` says below; `stream_opposite` has it, and shows that it defeats
  `HeadersAreRight`.

## 4. Proofs

Each theorem holds for every value of the constants that the module's `ASSUME`s
admit: any number of folders, databases, pages, entries, servers, segments or
retries. Every invariant below was checked by TLC before it was proved. `MaxExists`
and `MaxIs` (`DqliteFolder_proofs`) say what the library's `Max` chooses, by well-founded
induction on a fixed order; everything else rests on the library's theorems about
finite sets and sequences. Where a proof needs induction over data, it takes the
set of the numbers for which the claim fails, of which `LeastNumber` gives the least:
so `FlattenAppend` and `FlattenPrefix` say what the fold `FlattenSeq` does to sequences
of any length, and `SumsAgree` compares running sums.

### DqliteVfs: the tables (`DqliteVfs_proofs`)

| Theorem | Statement |
|---|---|
| `Invariance` | `Spec => []IInv` |
| `TypeCorrect` | `Spec => []TypeOK` |
| `ForeignKeysHold` | `Spec => []RowsReferToPages` |
| `PinningIsSound` | `Spec => []PinnedReadsAreCurrent` |
| `Implementation` | `Spec => ImplementsPointInTime` |
| `NothingLeaks` | `Spec => []NoPageIsLeaked` |

*The invariant.* `RowsReferToPages` is not inductive: that a new row gets a fresh
page needs the ids to have a maximum and rows to refer to existing pages
(`Tables`); that `load_wal`'s `DELETE` breaks nothing needs that no log row
exists yet and that stages follow each other (`Staged`); that an inserted log row
has a new key, and that a read at an earlier index does not see it, needs that
the log is loaded upwards (`Upwards`). `IInv` is `TypeOK`, `RowsReferToPages` and
these three; TLC checks it in `vfs`.

*The argument.* `FreshId` says that SQLite's row ids are new.
`InsertSnapshotRow`, `InsertTransactionRow` and `DeletePages` show that the three
kinds of change to the tables keep the invariant; `SnapshotStepInv`,
`SegmentStepInv` and `ServingStepInv` apply them action by action. `PinnedReads`
shows that no page of a database changes between its pinned index and the
selected one. For the refinement, `SnapshotReads` and `FrameReads` say how one
inserted row changes what is read at every index, `InvisibleSteps` which steps
stutter (the `DELETE` among them: no read finds a page it removes), and
`AdvanceSteps`, `WriteSteps` and `ServeSteps` map the others.

*No leak.* `load_wal` returns before the `DELETE` when there is no WAL, which is
right only because main files name each page once: `OneRowPerPage` says that
while a main file is loaded every page has a row, and whose rows there are
already. It needs `NamesAssumption`: a second database of the same name would
leave the pages of the first behind.

### DqliteVfs and Inspect: what the rows say (`Replay_proofs`)

| Theorem | Statement |
|---|---|
| `EveryIndexIsLoaded` | `Spec => [](NamedRight(folder) => ContiguousLogIsSelectable)` |
| `ReplayIsServed` | `Spec => [](NumberedByRaft => ReadsReplayLog)` |
| `LogIsWhatIsLoaded` | `Spec /\ NamedRight(folder) => LogShowsWhatIsLoaded` |
| `ConfigIsWhatIsLoaded` | `Spec /\ NamedRight(folder) /\ ConfigurationsOfRaft => ConfigIsTheOneLoaded` |

*The hypotheses* are about the folder, which never changes (`FolderStays`), and say
what raft writes and the code relies on without looking: `NamedRight`, the name
of a closed segment counts its entries; `NumberedByRaft`, in addition the code
begins to count where raft does (it does not with only open segments behind two
snapshots) and a log without a snapshot
begins with a configuration; `ConfigurationsOfRaft`, one configuration is in
force at each index, changes of the log set it and snapshots have it, and the log
goes on from the newest snapshot. All folders of the model with a contiguous log
satisfy them; those without one are the subject of `vfs_open_only` and `vfs_gap`.

*The argument.* The four ways to number entries are all compared with raft's.
`LogInv` is that of the loader: `AtCursor` (the index at the cursor is raft's
number of the entry there, also after whole segments were skipped by their names)
and `LogRows` (`raft_log` has the numbers behind the snapshot and before the
cursor, and no others). `CurrentIndexIsLast` is `current_index`, which adds the
entries of open segments to the end of the last closed one;
`LogCountsBackwards` is `.log`. `NumberFacts`, `NumbersDiffer` and
`NumbersOrdered` say that numbers go on across segments and never come twice.
`RowInv` then says of the rows of `dqlite_transaction` that they are the frames
of the entries that were inserted, with their data, and of no others;
`SnapshotInv` that of each database of the snapshot as much is loaded as the
cursor says, the last frame of the WAL winning over earlier ones and over the
main file; `ConfigurationInv` the same of `raft_configuration`. `WrittenIsRow`
turns `RowInv` into the definition of `Written`, from which `ReplayIsServed`
follows: the newest row up to an index is the newest entry that wrote the page.

### Session (`Session_proofs`)

| Theorem | Statement |
|---|---|
| `Invariance`, `TypeCorrect` | `Spec => []IInv`, `Spec => []TypeOK` |
| `ConnectionEndsWithShell` | `Spec => []NoFileIsLeft` |
| `NeverTwoIndexes` | `Spec => []OneIndexAtATime` |
| `SuccessShowsTheIndex` | `Spec => SuccessIsComplete` |
| `ReadsAreRepeatable` | `Spec => TransactionsKeepTheirIndex` |

`OneIndexAtATime` is not inductive. `Flow` says which command can run in which
shell; `Connected`, that names are attached once, locks are on what is attached
and only a transaction holds them; `Attaching`, that while databases are being
attached each of the selected index is either there or in `todo`, which is what
makes success complete, and that while they are being detached all are in
`todo`. A lemma each for the program (`ProgramInv`), the choice of an index
(`SelectInv`), `DETACH`, `ATTACH`, the shells and the user's SQL.

### SnapshotShell (`SnapshotShell_proofs`)

| Theorem | Statement |
|---|---|
| `Invariance`, `TypeCorrect` | `Spec => []IInv`, `Spec => []TypeOK` |
| `SelfStaysServer` | `Spec => []SelfIsServer` |
| `MetaComesLast` | `Spec => []MetaIsLast` |
| `CopiesAreOfOneMoment` | `Spec => []OneMoment` |
| `FailureLeavesNothing` | `Spec => []NothingLeftBehind` |
| `OthersFilesStay` | `Spec => ExistingFilesStay` |

`SelfIsServer` survives a `ROLLBACK` because the saved tables satisfy it
(`SavedSelf`); that the folder looks like a snapshot only at the end needs which
files are there at each phase (`FilesInOrder`), and that the copies agree needs
that the write locks are held from before the first is written (`Copied`).

### LiveOpen (`LiveOpen_proofs`)

| Theorem | Statement |
|---|---|
| `Invariance`, `TypeCorrect` | `Spec => []IInv`, `Spec => []TypeOK` |
| `PrefixIsAlwaysRight` | `Spec => []PrefixIsRight` |
| `RetriesAlwaysStartOver` | `Spec => []RetriesStartOver` |
| `LogAlwaysMeetsSnapshot` | `Spec => []LogMeetsSnapshot` |
| `HandlesOutliveFiles` | `Spec => []OpenedStaysReadable` |

One half of the invariant is about the node: its log has no hole, whichever
files it is cut into and wherever the node crashed (`LogIsContiguous`,
`OpensInOrder`, `LogReachesSnapshot`). The other is about the reader, which works
down a list that ages: `Listing` (the list was contiguous when it was made),
`FirstOpenFollows` (the first open segment of the list, if it still exists under
its name, is still the one that follows the closed ones, because open segments are
closed in order), `DirFollowsList` and `PrefixIsNumbered` (what was opened is a
prefix of the list, file by file, and has the right numbers), `Attempts` (one has
been made, and a further one only below the limit).

### SnapshotStream (`SnapshotStream_proofs`)

| Theorem | Statement |
|---|---|
| `TypeCorrect` | `Spec => []TypeOK` |
| `HeadersRight` | `Spec /\ OneWay => []HeadersAreRight` |
| `NotMisread` | `Spec => [](SizesMatch => NothingIsMisread)` |
| `NeverMisread` | `Spec /\ OneWay => []NothingIsMisread` |
| `SnapshotRead` | `Spec /\ FreshWals => [](SizesMatch => SnapshotIsDatabase)` |
| `SnapshotAlwaysRead` | `Spec /\ OneWay /\ FreshWals => []SnapshotIsDatabase` |

*The hypotheses* are about the databases at the start and are the negations of what
is known to go wrong. `OneWay`: checkpoints either let all main files grow or cut all
of them, as no main file is larger than its size or none is smaller (otherwise the
announced sum need not notice, see `stream_opposite`).
`FreshWals`: all frames of a journal are of its last reset (otherwise see
`stream_stale`).

*The argument.* A *layout* says of each database what was announced for it, what
its header says, how many pages were copied and where it starts, with running sums
of what was announced. `LInv`, the inductive invariant, is `TInv` (the types, and that
the two buffers are consecutive pieces of the file) and that there is a layout the
file keeps to (`Layout`) and in which the reader has a place (`Read`): every unit of
the file is where the layout says, with the page it says unless the journal has
a newer one, and what is loaded is what is in front of the cursor, the last
frame of each page winning. A step of the writer extends the layout (the lemmas
`Lay...`), one of the reader moves the cursor (`Read...`); while `Pass` moves units from
one buffer to the other the cursor stays. This proves `NotMisread` and `SnapshotRead` for a
file whose headers are right. That they are is the accounting: in one direction,
what was announced for a database is at most (or at least) what was copied, and so
is the size in its header, which was taken between the two (`Directed`); the frame could be closed only if the sums agree, and then all
terms do (`SumsAgree`).

### SegmentFile (`SegmentFile_proofs`)

| Theorem | Statement |
|---|---|
| `TypeCorrect` | `Spec => []TypeOK` |
| `ReadsAreAtomic` | `Spec => []ReadIsAtomic` |
| `TornReadsAreRefused` | `Spec => []TornIsRefused` |
| `RefusalsHaveAReason` | `Spec => []RefusedForAReason` |
| `NamesAreCounts` | `Spec => []NamesCountEntries` |

They hold for any logs, any lengths of segments and any input of a creator that
`SegmentAssumption` admits.

*The format.* Nothing can be said of a read without what stands at each place of a
segment. The lemmas up to `SegmentIs` say that, by least counterexamples: flattened
sequences lie one behind the other (`FlatEnds`); a batch is a checksum, a count, a
header for each entry and their data (`BatchIs`); a segment is the format and its
batches (`Laid`). The other direction is the parser's: in a buffer that holds all
words of a batch at the offset, `uvLoadEntriesBatch` is neither short nor
corrupt, finds its end (`BatchIsRead`), and yields entries that `Parse` takes
back to what `Encode` was given (`RawEntriesAre`), unless the tool does not know
their type.

*The inductive invariant.* `IInv` has one part for each actor. A file fits its
segment: each word is the segment's or zero (`FilesFit`). A node has begun
as many batches as have room (`NodeOK`); a creator has named its closed segments
without a gap (`CreatorOK`). The reader's part is the reason the properties
are not inductive themselves: its buffer is a mixture of moments, of which no
state keeps a copy. What relates it to the file is that writers only go on
(`Onward`: words are added, whole batches stay, and what is cut are zeros or
a part of a batch). So each word of the buffer that is not zero is
still in the file while the file is that long, a batch that is whole in the buffer is whole in
the file, and the batches the file had when the read began are in the buffer when
it ends (`Seen`). From there on only the buffer counts: `Made` says that the
entries loaded are those of the batches up to the offset, that a success is at
the last whole batch with zeros behind it, and why there was an error. `ReadingGoesOn`
shows once for all writers that they keep `Seen` and `Made`.

*Names.* The invariant relates each closed segment only to the one before it; that
its first index counts all entries before it follows in `NamesAreCounts` by the
least segment of which it is wrong.

### Only model-checked

- Liveness (`LoadingEnds`, `CommandsEnd`, `OpeningEnds`, `StreamEnds`,
  `ReadingEnds`): fairness and `ENABLED` are beyond the prover here.

## 5. Not modelled

- What a command entry is made of beyond its type and one value, and the codecs
  of dqlite and raft for it: C code; the models take what it yields.
- Terminal input, completion, prompt colours, help texts, clap's argument
  parsing, the pager: I/O without state that a property could be about.
- `file_control.rs`, `config.rs`, `files.rs` of `rusqlite_ext`: wrappers of
  single SQLite calls, apart from the reading of an attached file's bytes.
- `sys.rs` and `build.rs`: declarations and build.

## 6. Plan

Order of work: the VFS first, as everything a user sees comes from it; then the
shells that use it; then what other processes do to it; then the proofs.

1. Done: the modules above and their runs.
2. Done: theorems about `DqliteVfs`, `Inspect`, `Session`, `SnapshotShell`,
   `LiveOpen`, `SnapshotStream` and `SegmentFile`: all their safety and action
   properties.
3. `Session` against an abstract point-in-time connection, as a refinement.
4. `LiveOpen` with `SegmentFile` in place of its reads in one step: what an open
   segment yields there is what `ReadsAreAtomic` says of a read here.
