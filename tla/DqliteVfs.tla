------------------------------ MODULE DqliteVfs -----------------------------
(***************************************************************************)
(* DqliteVfs (src/src/command/open/vfs.rs): loading a dqlite folder into a *)
(* private SQLite database, one row at a time, and serving from its tables *)
(* read-only database files at any log index.  The variables named after   *)
(* tables are the tables of SCHEMA; a table with a primary key is a        *)
(* function from the key.                                                  *)
(***************************************************************************)
EXTENDS DqliteFolder, FiniteSets

CONSTANTS Folders,        \* the folders that may be opened
          Database, PageNumber, Content, NoPage, Size, MaxIndex,
          Configuration,  \* raft configurations
          MaxFiles        \* bound: files open at a time

ASSUME IndexAssumption == MaxIndex \in Nat

ASSUME ContentAssumption ==
  /\ NoPage \notin Content
  /\ Size \in [Content -> Nat]
  /\ 1 \in PageNumber
  /\ PageNumber \subseteq Nat

Frame == [page : PageNumber, data : Content]

(* What DqliteLogEntryContent::parse makes of an entry.  Barriers and the open,
   undo and checkpoint commands are "other"; of frames the transaction, truncate
   and is_commit are dropped, as nothing looks at them. *)
EntryOK(entry) ==
  \/ /\ entry.type = "frames"
     /\ entry.name \in Database
     /\ entry.frames \in Seq(Frame)
  \/ /\ entry.type = "change"
     /\ entry.configuration \in Configuration
  \/ entry.type = "other"

DatabaseOK(db) ==
  /\ db.name \in Database
  /\ db.main \in Seq(Content)
  /\ DOMAIN db.main \subseteq PageNumber
  /\ db.wal \in Seq(Frame)

(* What the parsing of the files and the order of UvList guarantee, and one
   thing that is up to raft: the log is not behind the oldest snapshot. *)
ASSUME FolderAssumption ==
  \A f \in Folders :
    /\ f.snapshots \in Seq(Range(f.snapshots))
    /\ f.segments \in Seq(Range(f.segments))
    /\ \A n \in DOMAIN f.snapshots :
         LET snapshot == f.snapshots[n]
         IN /\ snapshot.index \in 1..MaxIndex
            /\ snapshot.configuration \in Configuration
            /\ snapshot.databases \in Seq(Range(snapshot.databases))
            /\ \A d \in DOMAIN snapshot.databases :
                 DatabaseOK(snapshot.databases[d])
    /\ \A s \in DOMAIN f.segments :
         LET segment == f.segments[s]
         IN /\ segment.entries \in Seq(Range(segment.entries))
            /\ IsClosed(segment) => segment.first \in Nat /\ segment.end \in Nat
            /\ \A e \in DOMAIN segment.entries : EntryOK(segment.entries[e])
    /\ \A s, t \in DOMAIN f.segments :
         s < t /\ IsClosed(f.segments[t]) =>
           IsClosed(f.segments[s]) /\ f.segments[s].end <= f.segments[t].end
    /\ FirstIndex(f) \in Nat \ {0}
    /\ CurrentIndex(f) \in 1..MaxIndex
    /\ f.snapshots # <<>> => CurrentIndex(f) >= f.snapshots[1].index

(* The registry of dqlite, which is what a snapshot is made of, has each name
   once; the loader does not check it. *)
ASSUME NamesAssumption ==
  \A f \in Folders : \A s \in DOMAIN f.snapshots :
    LET databases == f.snapshots[s].databases
    IN \A d, e \in DOMAIN databases : databases[d].name = databases[e].name => d = e

Index == 0..MaxIndex

VARIABLES
  folder,              \* the DqliteDir
  stage,               \* where from_dir is, or "serving"
  db, part, pos,       \* read_content: database, part of it, items read
  seg, ent, frm,       \* load_segments_from: segment, entry, frames inserted
  index,               \* load_segments_from: the index of the next entry
  dqlite_page,         \* id -> data
  dqlite_database,     \* <<database, page_number>> -> page_id
  dqlite_transaction,  \* <<log_idx, database, page_number>> -> page_id
  raft_log,            \* the idx of its rows
  raft_configuration,  \* log_idx (0 for NULL) -> configuration
  first_index, last_index, current_index,
  files                \* open files: [name, raft_index]

tables == <<dqlite_page, dqlite_database, dqlite_transaction, raft_log,
            raft_configuration>>
cursor == <<db, part, pos, seg, ent, frm, index>>
served == <<last_index, current_index, files>>
vars == <<folder, stage, cursor, tables, first_index, served>>

Loading == stage \in {"start", "snapshot", "segments"}

-----------------------------------------------------------------------------
(* MUTANT of Changes: the entry at raft_index itself is left out. *)
ChangesBefore(name, page, raft_index) ==
  {i \in 1..raft_index - 1 : <<i, name, page>> \in DOMAIN dqlite_transaction}

(* read_database_page: the row of the newest log entry up to raft_index, if
   any, else the row of the snapshot. *)
Changes(name, page, raft_index) ==
  {i \in 1..raft_index : <<i, name, page>> \in DOMAIN dqlite_transaction}

ReadPage(name, page, raft_index) ==
  LET changes == Changes(name, page, raft_index)
  IN IF changes # {}
     THEN dqlite_page[dqlite_transaction[<<Max(changes), name, page>>]]
     ELSE IF <<name, page>> \in DOMAIN dqlite_database
          THEN dqlite_page[dqlite_database[<<name, page>>]]
          ELSE NoPage

(* read_database_size: a database without a first page has size 0. *)
ReadSize(name, raft_index) ==
  LET header == ReadPage(name, 1, raft_index)
  IN IF header = NoPage THEN 0 ELSE Size[header]

(* DqliteVfs::databases: what exists at the selected index. *)
Databases == {name \in Database : ReadSize(name, current_index) > 0}

(* MUTANT of ChangesOf: only changes of the first page count. *)
HeaderChangesOf(name, raft_index) ==
  {i \in 1..raft_index : <<i, name, 1>> \in DOMAIN dqlite_transaction}

(* MUTANT of ChangeIndex: no fallback for a database no entry wrote to. *)
ChangeIndexOrNone(name, raft_index) == Max({-1} \cup HeaderChangesOf(name, raft_index))

(* get_change_index, or first_index where it finds nothing: the last index up
   to raft_index whose entry wrote to the database. *)
ChangesOf(name, raft_index) ==
  {i \in 1..raft_index :
     \E page \in PageNumber : <<i, name, page>> \in DOMAIN dqlite_transaction}

ChangeIndex(name, raft_index) ==
  LET changes == ChangesOf(name, raft_index)
  IN IF changes # {} THEN Max(changes) ELSE first_index

(* MUTANT of NextId: rows are counted, as if none was ever deleted. *)
NumPages == Cardinality(DOMAIN dqlite_page) + 1

(* The id SQLite gives to a row inserted into dqlite_page: its primary key has
   no AUTOINCREMENT, so ids of deleted rows may come back. *)
NextId == Max({0} \cup DOMAIN dqlite_page) + 1

Extend(f, x, y) == [z \in DOMAIN f \cup {x} |-> IF z = x THEN y ELSE f[z]]
Empty == [x \in {} |-> x]

-----------------------------------------------------------------------------
Init ==
  /\ folder \in Folders
  /\ stage = "start"
  /\ db = 1 /\ part = "main" /\ pos = 0
  /\ seg = 1 /\ ent = 0 /\ frm = 0
  /\ index = 0
  /\ dqlite_page = Empty
  /\ dqlite_database = Empty
  /\ dqlite_transaction = Empty
  /\ raft_log = {}
  /\ raft_configuration = Empty
  /\ first_index = 0 /\ last_index = 0 /\ current_index = 0
  /\ files = {}

-----------------------------------------------------------------------------
(* load_first_snapshot: the oldest snapshot, or none if the log starts at 1. *)
HasSnapshot == folder.snapshots # <<>>
SnapshotDatabases == folder.snapshots[1].databases

BeginSnapshot ==
  /\ stage = "start"
  /\ HasSnapshot
  /\ stage' = "snapshot"
  /\ first_index' = folder.snapshots[1].index
  /\ raft_configuration' = Extend(raft_configuration, 0, folder.snapshots[1].configuration)
  /\ UNCHANGED <<folder, cursor, served, dqlite_page, dqlite_database,
                 dqlite_transaction, raft_log>>

BeginWithoutSnapshot ==
  /\ stage = "start"
  /\ ~HasSnapshot
  /\ FirstIndex(folder) = 1
  /\ stage' = "segments"
  /\ first_index' = 1
  /\ index' = FirstIndex(folder)
  /\ UNCHANGED <<folder, db, part, pos, seg, ent, frm, tables, served>>

(* INSERT a page, then REPLACE the row of the snapshot that refers to it. *)
InsertSnapshotPage(name, page, data) ==
  /\ dqlite_page' = Extend(dqlite_page, NextId, data)
  /\ dqlite_database' = Extend(dqlite_database, <<name, page>>, NextId)
  /\ UNCHANGED <<dqlite_transaction, raft_log, raft_configuration>>

LoadMainPage ==
  /\ stage = "snapshot"
  /\ db \in DOMAIN SnapshotDatabases
  /\ part = "main"
  /\ pos < Len(SnapshotDatabases[db].main)
  /\ InsertSnapshotPage(SnapshotDatabases[db].name, pos + 1, SnapshotDatabases[db].main[pos + 1])
  /\ pos' = pos + 1
  /\ UNCHANGED <<folder, stage, db, part, seg, ent, frm, index, first_index, served>>

LoadMainEnd ==
  /\ stage = "snapshot"
  /\ db \in DOMAIN SnapshotDatabases
  /\ part = "main"
  /\ pos = Len(SnapshotDatabases[db].main)
  /\ part' = "wal"
  /\ pos' = 0
  /\ UNCHANGED <<folder, stage, db, seg, ent, frm, index, tables, first_index, served>>

NextDatabase ==
  /\ db' = db + 1
  /\ part' = "main"
  /\ pos' = 0

LoadWalEmpty ==
  /\ stage = "snapshot"
  /\ db \in DOMAIN SnapshotDatabases
  /\ part = "wal"
  /\ SnapshotDatabases[db].wal = <<>>
  /\ NextDatabase
  /\ UNCHANGED <<folder, stage, seg, ent, frm, index, tables, first_index, served>>

LoadWalFrame ==
  /\ stage = "snapshot"
  /\ db \in DOMAIN SnapshotDatabases
  /\ part = "wal"
  /\ pos < Len(SnapshotDatabases[db].wal)
  /\ LET frame == SnapshotDatabases[db].wal[pos + 1]
     IN InsertSnapshotPage(SnapshotDatabases[db].name, frame.page, frame.data)
  /\ pos' = pos + 1
  /\ UNCHANGED <<folder, stage, db, part, seg, ent, frm, index, first_index, served>>

(* MUTANT of DeleteUnreferencedPages: the DELETE is forgotten. *)
KeepAllPages == UNCHANGED <<dqlite_page, dqlite_transaction>>

(* The pages no row of dqlite_database refers to are deleted, and the rows of
   dqlite_transaction that refer to them with them (ON DELETE CASCADE). *)
DeleteUnreferencedPages ==
  LET referenced == Range(dqlite_database)
  IN /\ dqlite_page' = Restrict(dqlite_page, DOMAIN dqlite_page \cap referenced)
     /\ dqlite_transaction' =
          Restrict(dqlite_transaction,
                   {k \in DOMAIN dqlite_transaction : dqlite_transaction[k] \in referenced})

LoadWalEnd ==
  /\ stage = "snapshot"
  /\ db \in DOMAIN SnapshotDatabases
  /\ part = "wal"
  /\ pos = Len(SnapshotDatabases[db].wal)
  /\ pos > 0
  /\ DeleteUnreferencedPages
  /\ NextDatabase
  /\ UNCHANGED <<folder, stage, seg, ent, frm, index, dqlite_database, raft_log,
                 raft_configuration, first_index, served>>

FinishSnapshot ==
  /\ stage = "snapshot"
  /\ db = Len(SnapshotDatabases) + 1
  /\ stage' = "segments"
  /\ index' = FirstIndex(folder)
  /\ UNCHANGED <<folder, db, part, pos, seg, ent, frm, tables, first_index, served>>

-----------------------------------------------------------------------------
(* load_segments_from: every entry after first_index, in order. *)
CurrentSegment == folder.segments[seg]
CurrentEntry == CurrentSegment.entries[ent + 1]

AtSegment == stage = "segments" /\ seg \in DOMAIN folder.segments
AtEntry == AtSegment /\ ent < Len(CurrentSegment.entries)
(* MUTANT of Skipped: the start of the segment is compared, not its end. *)
StartsEarly == IsClosed(CurrentSegment) /\ CurrentSegment.first <= first_index

Skipped == IsClosed(CurrentSegment) /\ CurrentSegment.end <= first_index

SkipSegment ==
  /\ AtSegment
  /\ Skipped
  /\ seg' = seg + 1
  /\ index' = CurrentSegment.end + 1
  /\ UNCHANGED <<folder, stage, db, part, pos, ent, frm, tables, first_index, served>>

(* MUTANT of SkipEntry: the cursor stays where it is. *)
StayAtEntry == AtEntry /\ ~Skipped /\ index <= first_index /\ UNCHANGED vars

SkipEntry ==
  /\ AtEntry
  /\ ~Skipped
  /\ index <= first_index
  /\ ent' = ent + 1
  /\ index' = index + 1
  /\ UNCHANGED <<folder, stage, db, part, pos, seg, frm, tables, first_index, served>>

(* The row of the entry in raft_log, and of a Change in raft_configuration. *)
InsertEntry ==
  /\ AtEntry
  /\ ~Skipped
  /\ index > first_index
  /\ index \notin raft_log
  /\ raft_log' = raft_log \cup {index}
  /\ raft_configuration' =
       IF CurrentEntry.type = "change"
       THEN Extend(raft_configuration, index, CurrentEntry.configuration)
       ELSE raft_configuration
  /\ UNCHANGED <<folder, stage, cursor, dqlite_page, dqlite_database,
                 dqlite_transaction, first_index, served>>

FramesLeft == CurrentEntry.type = "frames" /\ frm < Len(CurrentEntry.frames)

RowOf(frame) == <<index, CurrentEntry.name, frame.page>>

InsertFrame ==
  /\ AtEntry
  /\ index \in raft_log
  /\ FramesLeft
  /\ LET frame == CurrentEntry.frames[frm + 1]
     IN /\ RowOf(frame) \notin DOMAIN dqlite_transaction
        /\ dqlite_page' = Extend(dqlite_page, NextId, frame.data)
        /\ dqlite_transaction' = Extend(dqlite_transaction, RowOf(frame), NextId)
  /\ frm' = frm + 1
  /\ UNCHANGED <<folder, stage, db, part, pos, seg, ent, index, dqlite_database,
                 raft_log, raft_configuration, first_index, served>>

NextEntry ==
  /\ AtEntry
  /\ index \in raft_log
  /\ ~FramesLeft
  /\ ent' = ent + 1
  /\ frm' = 0
  /\ index' = index + 1
  /\ UNCHANGED <<folder, stage, db, part, pos, seg, tables, first_index, served>>

EndSegment ==
  /\ AtSegment
  /\ ent = Len(CurrentSegment.entries)
  /\ ~Skipped
  /\ seg' = seg + 1
  /\ ent' = 0
  /\ UNCHANGED <<folder, stage, db, part, pos, frm, index, tables, first_index, served>>

(* The transaction is committed and the struct built: the newest index is
   selected. *)
FinishLoading ==
  /\ stage = "segments"
  /\ seg = Len(folder.segments) + 1
  /\ stage' = "serving"
  /\ last_index' = CurrentIndex(folder)
  /\ current_index' = CurrentIndex(folder)
  /\ UNCHANGED <<folder, cursor, tables, first_index, files>>

(* MUTANT of LoadFails: only the pages are rolled back. *)
LoadFailsHalfway ==
  /\ Loading
  /\ stage' = "failed"
  /\ dqlite_page' = Empty
  /\ dqlite_database' = Empty
  /\ dqlite_transaction' = Empty
  /\ UNCHANGED <<folder, cursor, raft_log, raft_configuration, first_index, served>>

(* Any step may find a file it cannot read or parse, or a row whose key is
   taken: from_dir returns the error and drops the connection with its rolled
   back transaction. *)
LoadFails ==
  /\ Loading
  /\ stage' = "failed"
  /\ dqlite_page' = Empty
  /\ dqlite_database' = Empty
  /\ dqlite_transaction' = Empty
  /\ raft_log' = {}
  /\ raft_configuration' = Empty
  /\ UNCHANGED <<folder, cursor, first_index, served>>

(* .open again, with a connection of its own. *)
LoadAgain ==
  /\ stage = "failed"
  /\ stage' = "start"
  /\ db' = 1 /\ part' = "main" /\ pos' = 0
  /\ seg' = 1 /\ ent' = 0 /\ frm' = 0
  /\ index' = 0
  /\ first_index' = 0
  /\ UNCHANGED <<folder, tables, served>>

-----------------------------------------------------------------------------
(* MUTANT of SetCurrentIndex: the open files move along. *)
SetEveryIndex(i) ==
  /\ stage = "serving"
  /\ i \in first_index..last_index
  /\ current_index' = i
  /\ files' = {[file EXCEPT !.raft_index = i] : file \in files}
  /\ UNCHANGED <<folder, stage, cursor, tables, first_index, last_index>>

SetCurrentIndex(i) ==
  /\ stage = "serving"
  /\ i >= first_index
  /\ i <= last_index
  /\ current_index' = i
  /\ UNCHANGED <<folder, stage, cursor, tables, first_index, last_index, files>>

(* Vfs::open of a main database file: it is pinned to the last index, up to
   the selected one, that changed the database. *)
OpenFile(name) ==
  /\ stage = "serving"
  /\ Cardinality(files) < MaxFiles
  /\ LET raft_index == ChangeIndex(name, current_index)
     IN /\ ReadSize(name, raft_index) > 0
        /\ files' = files \cup {[name |-> name, raft_index |-> raft_index]}
  /\ UNCHANGED <<folder, stage, cursor, tables, first_index, last_index, current_index>>

CloseFile(file) ==
  /\ stage = "serving"
  /\ files' = files \ {file}
  /\ UNCHANGED <<folder, stage, cursor, tables, first_index, last_index, current_index>>

LoadStep ==
  \/ BeginSnapshot \/ BeginWithoutSnapshot
  \/ LoadMainPage \/ LoadMainEnd
  \/ LoadWalEmpty \/ LoadWalFrame \/ LoadWalEnd \/ FinishSnapshot
  \/ SkipSegment \/ SkipEntry \/ InsertEntry \/ InsertFrame \/ NextEntry \/ EndSegment
  \/ FinishLoading

Next ==
  \/ LoadStep
  \/ LoadFails
  \/ LoadAgain
  \/ \E i \in Index : SetCurrentIndex(i)
  \/ \E name \in Database : OpenFile(name)
  \/ \E file \in files : CloseFile(file)

Spec == Init /\ [][Next]_vars

(* Where from_dir cannot go on: there is no snapshot and the log starts late,
   or the row of the frame is there already. *)
CannotLoad ==
  \/ stage = "start" /\ ~HasSnapshot /\ FirstIndex(folder) # 1
  \/ /\ AtEntry
     /\ index \in raft_log
     /\ FramesLeft
     /\ RowOf(CurrentEntry.frames[frm + 1]) \in DOMAIN dqlite_transaction

(* from_dir is a loop on one thread: it goes on as long as it can, and returns
   the error when it cannot. *)
FairSpec == Spec /\ WF_vars(LoadStep) /\ WF_vars(LoadFails /\ CannotLoad)

-----------------------------------------------------------------------------
(* What the folder says is on a page, read off its files without tables. *)
Frames(entry, name) ==
  IF entry.type = "frames" /\ entry.name = name THEN Range(entry.frames) ELSE {}

Written(i, name, page) ==
  {frame.data : frame \in
     {fr \in UNION {UNION {Frames(folder.segments[s].entries[e], name) :
                             e \in {x \in DOMAIN folder.segments[s].entries :
                                      RaftIndex(folder, s, x) = i}} :
                      s \in DOMAIN folder.segments} :
        fr.page = page}}

SnapshotPage(name, page) ==
  LET is == {d \in DOMAIN SnapshotDatabases : SnapshotDatabases[d].name = name}
      contents == SnapshotDatabases[CHOOSE d \in is : TRUE]
      frames == {f \in DOMAIN contents.wal : contents.wal[f].page = page}
  IN CASE ~HasSnapshot \/ is = {} -> NoPage
       [] OTHER -> CASE frames # {} -> contents.wal[Max(frames)].data
                     [] frames = {} /\ page \in DOMAIN contents.main -> contents.main[page]
                     [] OTHER -> NoPage

Replayed(name, page, i) ==
  LET base == IF HasSnapshot THEN folder.snapshots[1].index ELSE 0
      writers == {j \in base + 1..i : Written(j, name, page) # {}}
  IN IF writers = {} THEN SnapshotPage(name, page)
     ELSE CHOOSE data \in Written(Max(writers), name, page) : TRUE

-----------------------------------------------------------------------------
(* The inductive invariant behind the theorems of DqliteVfs_proofs. *)
Tables ==
  /\ DOMAIN dqlite_page # {} =>
       \E id \in DOMAIN dqlite_page : \A other \in DOMAIN dqlite_page : other <= id
  /\ dqlite_database \in [DOMAIN dqlite_database -> DOMAIN dqlite_page]
  /\ dqlite_transaction \in [DOMAIN dqlite_transaction -> DOMAIN dqlite_page]

(* No row before its stage: the log is loaded over a complete snapshot. *)
Staged ==
  /\ stage \in {"start", "failed"} =>
       DOMAIN dqlite_page = {} /\ DOMAIN dqlite_database = {}
  /\ stage \in {"start", "failed", "snapshot"} =>
       DOMAIN dqlite_transaction = {} /\ raft_log = {}
  /\ stage = "start" => first_index = 0
  /\ stage \in {"snapshot", "segments", "serving"} => first_index > 0
  /\ stage = "snapshot" => HasSnapshot
  /\ stage \in {"snapshot", "segments"} =>
       first_index = IF HasSnapshot THEN folder.snapshots[1].index ELSE 1
  /\ stage = "serving" => current_index \in first_index..last_index
  /\ stage # "serving" => files = {}

(* The log is loaded upwards from first_index, and no segment is skipped once
   an entry was loaded. *)
Upwards ==
  /\ \A k \in DOMAIN dqlite_transaction : k[1] \in raft_log
  /\ \A i \in raft_log : first_index < i
  /\ stage = "segments" => \A i \in raft_log : i <= index
  /\ stage = "segments" /\ raft_log # {} =>
       \A s \in DOMAIN folder.segments :
         s >= seg /\ IsClosed(folder.segments[s]) => folder.segments[s].end > first_index

-----------------------------------------------------------------------------
(* Every variable keeps to its type: ids and indexes in range, open files on
   indexes that exist. *)
TypeOK ==
  /\ folder \in Folders
  /\ stage \in {"start", "snapshot", "segments", "serving", "failed"}
  /\ db \in Nat /\ part \in {"main", "wal"} /\ pos \in Nat
  /\ seg \in Nat /\ ent \in Nat /\ frm \in Nat /\ index \in Nat
  /\ DOMAIN dqlite_page \subseteq Nat
  /\ dqlite_page \in [DOMAIN dqlite_page -> Content]
  /\ DOMAIN dqlite_database \subseteq Database \X PageNumber
  /\ DOMAIN dqlite_transaction \subseteq Nat \X Database \X PageNumber
  /\ raft_log \subseteq Nat
  /\ raft_configuration \in [DOMAIN raft_configuration -> Configuration]
  /\ DOMAIN raft_configuration \subseteq Nat
  /\ {first_index, last_index, current_index} \subseteq Index
  /\ files \subseteq [name : Database, raft_index : Index]

(* The foreign keys hold although pages are deleted while the snapshot is
   loaded and their ids may be given out again: every row refers to a page,
   and no page is shared by two rows, so that no row is ever left with the
   contents of another. *)
RowsReferToPages ==
  /\ Range(dqlite_database) \cup Range(dqlite_transaction) \subseteq DOMAIN dqlite_page
  /\ Range(dqlite_database) \cap Range(dqlite_transaction) = {}
  /\ IsInjective(dqlite_database)
  /\ IsInjective(dqlite_transaction)

(* TypeOK and RowsReferToPages made inductive: rows only refer to earlier
   stages' work, and are written at ever higher indexes. *)
IInv == TypeOK /\ Tables /\ RowsReferToPages /\ Staged /\ Upwards

(* Loading leaves no page behind that no index can show, even though load_wal
   returns before the DELETE when a database has no WAL. *)
NoPageIsLeaked ==
  stage \in {"segments", "serving"} =>
    DOMAIN dqlite_page = Range(dqlite_database) \cup Range(dqlite_transaction)

(* At every index a user may select, each page of each database reads as the
   snapshot and the log up to that index left it. *)
ReadsReplayLog ==
  stage = "serving" =>
    \A i \in first_index..last_index, name \in Database, page \in PageNumber :
      ReadPage(name, page, i) = Replayed(name, page, i)

(* A file is pinned to the last change of its database instead of the selected
   index: an index the user could have selected, not after the one he did, at
   which every page reads the same.  This is what lets Vfs::open check the size
   at the pinned index only, and what PRAGMA raft_last_update reports. *)
PinnedReadsAreCurrent ==
  stage = "serving" =>
    \A name \in Database, i \in first_index..last_index :
      LET pinned == ChangeIndex(name, i)
      IN /\ pinned \in first_index..i
         /\ \A page \in PageNumber : ReadPage(name, page, pinned) = ReadPage(name, page, i)

(* Every index set_current_index accepts is that of the snapshot or of an
   entry that was loaded, and the newest entry can be selected. *)
SelectableIsLoaded ==
  stage = "serving" => first_index..last_index = {first_index} \cup raft_log

(* The log is one raft could go on from: it has a closed segment, and none of
   its entries is missing after the snapshot that is loaded. *)
LogIsContiguous ==
  \/ folder.segments = <<>>
  \/ /\ IsClosed(folder.segments[1])
     /\ HasSnapshot => folder.segments[1].first <= folder.snapshots[1].index + 1

(* SelectableIsLoaded, for the folders of which it is true: skipping segments,
   skipping the entries the snapshot covers and counting the entries of open
   segments agree on where the log ends. *)
ContiguousLogIsSelectable == LogIsContiguous => SelectableIsLoaded

(* Loading comes to an end, with the folder served or with an error. *)
LoadingEnds == (stage = "start") ~> (stage \in {"serving", "failed"})

(* The tables implement a timeline of images (PointInTime): replaying an entry
   never changes what earlier indexes read, selecting an index and opening
   files never changes what a file already open reads. *)
Image(i) == [k \in Database \X PageNumber |->
               IF stage # "start" /\ i >= first_index THEN ReadPage(k[1], k[2], i) ELSE NoPage]

Handle(file) ==
  [name |-> file.name,
   content |-> [page \in PageNumber |-> ReadPage(file.name, page, file.raft_index)]]

Now == Max({0} \cup raft_log \cup
           (IF stage \in {"start", "failed"} THEN {} ELSE {first_index}))

Timeline == INSTANCE PointInTime WITH
  serving <- stage = "serving",
  now <- Now,
  image <- [i \in Index |-> Image(i)],
  selected <- current_index,
  handles <- {Handle(file) : file \in files}

ImplementsPointInTime == Timeline!Spec
=============================================================================
