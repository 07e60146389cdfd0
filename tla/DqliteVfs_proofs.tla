-------------------------- MODULE DqliteVfs_proofs --------------------------
(***************************************************************************)
(* Proofs about DqliteVfs, for every set of folders its assumptions admit: *)
(* IInv is inductive, the foreign keys hold, a pinned file reads what the  *)
(* selected index reads, and the tables implement PointInTime.             *)
(***************************************************************************)
EXTENDS DqliteVfs, DqliteFolder_proofs

-----------------------------------------------------------------------------
(* SQLite's choice of a row id is a fresh one. *)
LEMMA FreshId ==
  ASSUME NEW S, S \subseteq Nat, S # {} => \E b \in S : \A x \in S : x <= b
  PROVE  /\ Max({0} \cup S) + 1 \in Nat \ S
         /\ \A x \in S : x <= Max({0} \cup S) + 1
<1> DEFINE S0 == {0} \cup S
<1>1. PICK b \in Nat : \A x \in S : x <= b
  <2>1. CASE S = {}
    BY <2>1
  <2>2. CASE S # {}
    BY <2>2
  <2> QED BY <2>1, <2>2
<1>2. /\ Max(S0) \in S0
      /\ \A x \in S0 : x <= Max(S0)
  <2>1. S0 \subseteq Nat /\ S0 # {} /\ \A x \in S0 : x <= b
    BY <1>1
  <2> HIDE DEF S0
  <2> QED BY <2>1, MaxExists
<1>3. ASSUME NEW k \in S0, \A x \in S0 : x <= k
      PROVE  k + 1 \in Nat \ S /\ \A x \in S : x <= k + 1
  BY <1>3
<1> QED BY <1>2, <1>3

-----------------------------------------------------------------------------
(* What FolderAssumption says of the items the loader reads. *)
LEMMA SnapshotFacts ==
  ASSUME folder \in Folders, HasSnapshot
  PROVE  /\ folder.snapshots[1].index \in 1..MaxIndex
         /\ folder.snapshots[1].configuration \in Configuration
         /\ CurrentIndex(folder) >= folder.snapshots[1].index
         /\ Len(SnapshotDatabases) \in Nat
         /\ \A d \in DOMAIN SnapshotDatabases : DatabaseOK(SnapshotDatabases[d])
<1>1. 1 \in DOMAIN folder.snapshots
  BY FolderAssumption DEF HasSnapshot
<1>2. folder.snapshots[1].databases \in Seq(Range(folder.snapshots[1].databases))
  BY <1>1, FolderAssumption
<1>3. Len(SnapshotDatabases) \in Nat
  BY <1>2 DEF SnapshotDatabases
<1> QED BY <1>1, <1>3, FolderAssumption DEF HasSnapshot, SnapshotDatabases

LEMMA MainFacts ==
  ASSUME folder \in Folders, HasSnapshot, NEW d \in DOMAIN SnapshotDatabases,
         NEW n \in Nat, n < Len(SnapshotDatabases[d].main)
  PROVE  /\ SnapshotDatabases[d].name \in Database
         /\ n + 1 \in PageNumber
         /\ SnapshotDatabases[d].main[n + 1] \in Content
BY SnapshotFacts DEF DatabaseOK

LEMMA WalFacts ==
  ASSUME folder \in Folders, HasSnapshot, NEW d \in DOMAIN SnapshotDatabases,
         NEW n \in Nat, n < Len(SnapshotDatabases[d].wal)
  PROVE  /\ SnapshotDatabases[d].name \in Database
         /\ SnapshotDatabases[d].wal[n + 1].page \in PageNumber
         /\ SnapshotDatabases[d].wal[n + 1].data \in Content
<1>1. SnapshotDatabases[d].wal[n + 1] \in Frame
  BY SnapshotFacts DEF DatabaseOK
<1> QED BY <1>1, SnapshotFacts DEF DatabaseOK, Frame

LEMMA SegmentFacts ==
  ASSUME folder \in Folders, NEW s \in DOMAIN folder.segments
  PROVE  /\ IsClosed(folder.segments[s]) =>
              folder.segments[s].first \in Nat /\ folder.segments[s].end \in Nat
         /\ folder.segments[s].entries \in Seq(Range(folder.segments[s].entries))
         /\ \A e \in DOMAIN folder.segments[s].entries :
              EntryOK(folder.segments[s].entries[e])
         /\ s \in Nat
         /\ \A t \in DOMAIN folder.segments :
              s < t /\ IsClosed(folder.segments[t]) =>
                /\ IsClosed(folder.segments[s])
                /\ folder.segments[s].end <= folder.segments[t].end
<1>1. DOMAIN folder.segments \subseteq Nat
  BY FolderAssumption
<1> QED BY <1>1, FolderAssumption

LEMMA EntryFacts ==
  ASSUME folder \in Folders, AtEntry, ent \in Nat
  PROVE  EntryOK(CurrentEntry)
<1>1. ent + 1 \in DOMAIN CurrentSegment.entries
  BY SegmentFacts DEF AtEntry, AtSegment, CurrentSegment
<1> QED BY <1>1, SegmentFacts DEF AtEntry, AtSegment, CurrentSegment, CurrentEntry

LEMMA FrameFacts ==
  ASSUME folder \in Folders, AtEntry, FramesLeft, ent \in Nat, frm \in Nat
  PROVE  /\ CurrentEntry.name \in Database
         /\ CurrentEntry.frames[frm + 1].page \in PageNumber
         /\ CurrentEntry.frames[frm + 1].data \in Content
<1>1. CurrentEntry.name \in Database /\ CurrentEntry.frames \in Seq(Frame)
  BY EntryFacts DEF EntryOK, FramesLeft
<1>2. CurrentEntry.frames[frm + 1] \in Frame
  BY <1>1 DEF FramesLeft
<1> QED BY <1>1, <1>2 DEF Frame

LEMMA IdFacts ==
  ASSUME TypeOK, Tables
  PROVE  /\ NextId \in Nat \ DOMAIN dqlite_page
         /\ \A id \in DOMAIN dqlite_page : id <= NextId
BY FreshId DEF TypeOK, Tables, NextId

LEMMA ExtendInjective ==
  ASSUME NEW f, NEW x, NEW y, IsInjective(f), y \notin Range(f)
  PROVE  /\ IsInjective(Extend(f, x, y))
         /\ Range(Extend(f, x, y)) \subseteq Range(f) \cup {y}
BY DEF Extend, IsInjective, Range

-----------------------------------------------------------------------------
(* The tables after each kind of change to them. *)
TablesOK ==
  /\ DOMAIN dqlite_page \subseteq Nat
  /\ dqlite_page \in [DOMAIN dqlite_page -> Content]
  /\ DOMAIN dqlite_database \subseteq Database \X PageNumber
  /\ DOMAIN dqlite_transaction \subseteq Nat \X Database \X PageNumber
  /\ Tables
  /\ RowsReferToPages

(* Inserting a page and a row, or replacing a row, of dqlite_database. *)
LEMMA InsertSnapshotRow ==
  ASSUME TypeOK, Tables, RowsReferToPages,
         NEW name \in Database, NEW page \in PageNumber, NEW data \in Content,
         InsertSnapshotPage(name, page, data)
  PROVE  TablesOK'
<1> DEFINE id == NextId
<1>1. id \in Nat /\ id \notin DOMAIN dqlite_page /\ \A other \in DOMAIN dqlite_page : other <= id
  BY IdFacts
<1> HIDE DEF id
<1>2. /\ dqlite_page' = Extend(dqlite_page, id, data)
      /\ dqlite_database' = Extend(dqlite_database, <<name, page>>, id)
      /\ dqlite_transaction' = dqlite_transaction
  BY DEF InsertSnapshotPage, id
<1>3. /\ DOMAIN dqlite_page' = DOMAIN dqlite_page \cup {id}
      /\ dqlite_page' \in [DOMAIN dqlite_page' -> Content]
  BY <1>2 DEF Extend, TypeOK
<1>4. /\ DOMAIN dqlite_database' \subseteq Database \X PageNumber
      /\ dqlite_database' \in [DOMAIN dqlite_database' -> DOMAIN dqlite_page']
  BY <1>2, <1>3 DEF Extend, TypeOK, Tables
<1>5. Tables'
  <2>1. dqlite_transaction' \in [DOMAIN dqlite_transaction' -> DOMAIN dqlite_page']
    BY <1>2, <1>3 DEF Tables
  <2>2. id \in DOMAIN dqlite_page' /\ \A other \in DOMAIN dqlite_page' : other <= id
    BY <1>1, <1>3
  <2> QED BY <1>4, <2>1, <2>2 DEF Tables
<1>6. RowsReferToPages'
  <2>1. /\ id \notin Range(dqlite_database)
        /\ id \notin Range(dqlite_transaction)
    BY <1>1 DEF RowsReferToPages
  <2>2. /\ IsInjective(dqlite_database')
        /\ Range(dqlite_database') \subseteq Range(dqlite_database) \cup {id}
    BY <1>2, <2>1, ExtendInjective DEF RowsReferToPages
  <2> QED BY <1>2, <1>3, <2>1, <2>2 DEF RowsReferToPages
<1>7. DOMAIN dqlite_page' \subseteq Nat
  BY <1>1, <1>3 DEF TypeOK
<1> QED BY <1>2, <1>3, <1>4, <1>5, <1>6, <1>7 DEF TablesOK, TypeOK

(* Inserting a page and a row of dqlite_transaction. *)
LEMMA InsertTransactionRow ==
  ASSUME TypeOK, Tables, RowsReferToPages,
         NEW row \in Nat \X Database \X PageNumber, NEW data \in Content,
         dqlite_page' = Extend(dqlite_page, NextId, data),
         dqlite_transaction' = Extend(dqlite_transaction, row, NextId),
         UNCHANGED dqlite_database
  PROVE  TablesOK'
<1> DEFINE id == NextId
<1>1. id \in Nat /\ id \notin DOMAIN dqlite_page /\ \A other \in DOMAIN dqlite_page : other <= id
  BY IdFacts
<1>2. /\ dqlite_page' = Extend(dqlite_page, id, data)
      /\ dqlite_transaction' = Extend(dqlite_transaction, row, id)
      /\ dqlite_database' = dqlite_database
  OBVIOUS
<1> HIDE DEF id
<1>3. /\ DOMAIN dqlite_page' = DOMAIN dqlite_page \cup {id}
      /\ dqlite_page' \in [DOMAIN dqlite_page' -> Content]
  BY <1>2 DEF Extend, TypeOK
<1>4. /\ DOMAIN dqlite_transaction' \subseteq Nat \X Database \X PageNumber
      /\ dqlite_transaction' \in [DOMAIN dqlite_transaction' -> DOMAIN dqlite_page']
  BY <1>2, <1>3 DEF Extend, TypeOK, Tables
<1>5. Tables'
  <2>1. dqlite_database' \in [DOMAIN dqlite_database' -> DOMAIN dqlite_page']
    BY <1>2, <1>3 DEF Tables
  <2>2. id \in DOMAIN dqlite_page' /\ \A other \in DOMAIN dqlite_page' : other <= id
    BY <1>1, <1>3
  <2> QED BY <1>4, <2>1, <2>2 DEF Tables
<1>6. RowsReferToPages'
  <2>1. /\ id \notin Range(dqlite_database)
        /\ id \notin Range(dqlite_transaction)
    BY <1>1 DEF RowsReferToPages
  <2>2. /\ IsInjective(dqlite_transaction')
        /\ Range(dqlite_transaction') \subseteq Range(dqlite_transaction) \cup {id}
    BY <1>2, <2>1, ExtendInjective DEF RowsReferToPages
  <2> QED BY <1>2, <1>3, <2>1, <2>2 DEF RowsReferToPages
<1>7. DOMAIN dqlite_page' \subseteq Nat
  BY <1>1, <1>3 DEF TypeOK
<1> QED BY <1>2, <1>3, <1>4, <1>5, <1>6, <1>7 DEF TablesOK, TypeOK

(* The DELETE of load_wal, when there is no row of dqlite_transaction yet. *)
LEMMA DeletePages ==
  ASSUME TypeOK, Tables, RowsReferToPages, DOMAIN dqlite_transaction = {},
         DeleteUnreferencedPages, UNCHANGED dqlite_database
  PROVE  /\ TablesOK'
         /\ DOMAIN dqlite_transaction' = {}
         /\ \A id \in Range(dqlite_database) :
              id \in DOMAIN dqlite_page' /\ dqlite_page'[id] = dqlite_page[id]
<1>1. /\ DOMAIN dqlite_page' = DOMAIN dqlite_page \cap Range(dqlite_database)
      /\ \A id \in DOMAIN dqlite_page' : dqlite_page'[id] = dqlite_page[id]
      /\ dqlite_page' \in [DOMAIN dqlite_page' -> Content]
  BY DEF DeleteUnreferencedPages, Restrict, TypeOK
<1>2. DOMAIN dqlite_transaction' = {} /\ Range(dqlite_transaction') = {}
  BY DEF DeleteUnreferencedPages, Restrict, Range
<1>3. dqlite_transaction' \in [DOMAIN dqlite_transaction' -> DOMAIN dqlite_page']
  BY <1>2 DEF DeleteUnreferencedPages, Restrict
<1>4. DOMAIN dqlite_page' = Range(dqlite_database)
  BY <1>1 DEF RowsReferToPages
<1>5. dqlite_database' \in [DOMAIN dqlite_database' -> DOMAIN dqlite_page']
  BY <1>4 DEF Range, Tables
<1>6. Tables'
  <2>1. SUFFICES ASSUME DOMAIN dqlite_page' # {}
                 PROVE  \E id \in DOMAIN dqlite_page' :
                          \A other \in DOMAIN dqlite_page' : other <= id
    BY <1>3, <1>5 DEF Tables
  <2>2. PICK b \in DOMAIN dqlite_page : \A other \in DOMAIN dqlite_page : other <= b
    BY <1>1, <2>1 DEF Tables
  <2> DEFINE S == DOMAIN dqlite_page'
  <2>3. S \subseteq Nat /\ S # {} /\ b \in Nat /\ \A other \in S : other <= b
    BY <1>1, <2>1, <2>2 DEF TypeOK
  <2> HIDE DEF S
  <2>4. Max(S) \in S /\ \A other \in S : other <= Max(S)
    BY <2>3, MaxExists
  <2> QED BY <2>4 DEF S
<1>7. RowsReferToPages'
  BY <1>2, <1>4 DEF RowsReferToPages, IsInjective
<1>8. DOMAIN dqlite_page' \subseteq Nat
  BY <1>1 DEF TypeOK
<1> QED BY <1>1, <1>2, <1>4, <1>6, <1>7, <1>8 DEF TablesOK, TypeOK

-----------------------------------------------------------------------------
(* IInv is inductive. *)
LEMMA InitInv == Init => IInv
<1> SUFFICES ASSUME Init PROVE IInv
  OBVIOUS
<1>1. TypeOK
  BY IndexAssumption DEF Init, TypeOK, Empty, Index
<1>2. Tables /\ RowsReferToPages
  BY DEF Init, Tables, RowsReferToPages, Empty, Range, IsInjective
<1>3. Staged /\ Upwards
  BY DEF Init, Staged, Upwards, Empty
<1> QED BY <1>1, <1>2, <1>3 DEF IInv

(* Steps that leave the tables of pages and their rows alone. *)
LEMMA SameTables ==
  ASSUME IInv, UNCHANGED <<dqlite_page, dqlite_database, dqlite_transaction>>
  PROVE  TablesOK'
BY DEF IInv, TypeOK, Tables, RowsReferToPages, TablesOK

(* The steps of load_first_snapshot. *)
LEMMA SnapshotStepInv ==
  ASSUME IInv,
         \/ BeginSnapshot \/ BeginWithoutSnapshot
         \/ LoadMainPage \/ LoadMainEnd
         \/ LoadWalEmpty \/ LoadWalFrame \/ LoadWalEnd \/ FinishSnapshot
  PROVE  IInv'
<1> USE DEF served, cursor
<1>1. CASE BeginSnapshot
  <2>1. TablesOK'
    BY <1>1, SameTables DEF BeginSnapshot
  <2>2. TypeOK'
    BY <1>1, <2>1, SnapshotFacts, IndexAssumption
       DEF BeginSnapshot, IInv, TypeOK, TablesOK, Extend, Index
  <2>3. Staged'
    BY <1>1, <2>1, SnapshotFacts DEF BeginSnapshot, IInv, Staged, TypeOK, HasSnapshot
  <2>4. Upwards'
    BY <1>1 DEF BeginSnapshot, IInv, Staged, Upwards
  <2> QED BY <2>1, <2>2, <2>3, <2>4 DEF IInv, TablesOK
<1>2. CASE BeginWithoutSnapshot
  <2>1. TablesOK'
    BY <1>2, SameTables DEF BeginWithoutSnapshot, tables
  <2>2. TypeOK'
    <3>1. 1 \in Index
      BY <1>2, IndexAssumption, FolderAssumption DEF IInv, TypeOK, Index
    <3> QED BY <1>2, <2>1, <3>1
            DEF BeginWithoutSnapshot, IInv, TypeOK, TablesOK, tables
  <2>3. Staged' /\ Upwards'
    BY <1>2 DEF BeginWithoutSnapshot, IInv, Staged, Upwards, tables, HasSnapshot
  <2> QED BY <2>1, <2>2, <2>3 DEF IInv, TablesOK
<1>3. CASE LoadMainPage
  <2>1. TablesOK'
    BY <1>3, MainFacts, InsertSnapshotRow DEF LoadMainPage, IInv, TypeOK, Staged
  <2>2. TypeOK'
    <3>1. /\ pos' = pos + 1
          /\ UNCHANGED <<folder, stage, db, part, seg, ent, frm, index, first_index,
                         last_index, current_index, files, raft_log, raft_configuration>>
      BY <1>3 DEF LoadMainPage, InsertSnapshotPage
    <3> QED BY <2>1, <3>1 DEF IInv, TypeOK, TablesOK
  <2>3. Staged' /\ Upwards'
    BY <1>3 DEF LoadMainPage, InsertSnapshotPage, IInv, Staged, Upwards, HasSnapshot
  <2> QED BY <2>1, <2>2, <2>3 DEF IInv, TablesOK
<1>4. CASE LoadMainEnd \/ LoadWalEmpty
  <2>1. TablesOK'
    BY <1>4, SameTables DEF LoadMainEnd, LoadWalEmpty, tables
  <2>2. TypeOK'
    BY <1>4, <2>1 DEF LoadMainEnd, LoadWalEmpty, NextDatabase, IInv, TypeOK, TablesOK, tables
  <2>3. Staged' /\ Upwards'
    BY <1>4 DEF LoadMainEnd, LoadWalEmpty, IInv, Staged, Upwards, tables, HasSnapshot
  <2> QED BY <2>1, <2>2, <2>3 DEF IInv, TablesOK
<1>5. CASE LoadWalFrame
  <2>1. TablesOK'
    BY <1>5, WalFacts, InsertSnapshotRow DEF LoadWalFrame, IInv, TypeOK, Staged
  <2>2. TypeOK'
    <3>1. /\ pos' = pos + 1
          /\ UNCHANGED <<folder, stage, db, part, seg, ent, frm, index, first_index,
                         last_index, current_index, files, raft_log, raft_configuration>>
      BY <1>5 DEF LoadWalFrame, InsertSnapshotPage
    <3> QED BY <2>1, <3>1 DEF IInv, TypeOK, TablesOK
  <2>3. Staged' /\ Upwards'
    BY <1>5 DEF LoadWalFrame, InsertSnapshotPage, IInv, Staged, Upwards, HasSnapshot
  <2> QED BY <2>1, <2>2, <2>3 DEF IInv, TablesOK
<1>6. CASE LoadWalEnd
  <2>1. TablesOK' /\ DOMAIN dqlite_transaction' = {}
    BY <1>6, DeletePages DEF LoadWalEnd, IInv, Staged
  <2>2. TypeOK'
    BY <1>6, <2>1 DEF LoadWalEnd, NextDatabase, IInv, TypeOK, TablesOK
  <2>3. Staged' /\ Upwards'
    BY <1>6, <2>1 DEF LoadWalEnd, IInv, Staged, Upwards, HasSnapshot
  <2> QED BY <2>1, <2>2, <2>3 DEF IInv, TablesOK
<1>7. CASE FinishSnapshot
  <2>1. TablesOK'
    BY <1>7, SameTables DEF FinishSnapshot, tables
  <2>2. TypeOK'
    BY <1>7, <2>1, FolderAssumption DEF FinishSnapshot, IInv, TypeOK, TablesOK, tables
  <2>3. Staged' /\ Upwards'
    BY <1>7 DEF FinishSnapshot, IInv, Staged, Upwards, tables, HasSnapshot
  <2> QED BY <2>1, <2>2, <2>3 DEF IInv, TablesOK
<1> QED BY <1>1, <1>2, <1>3, <1>4, <1>5, <1>6, <1>7

(* The steps of load_segments_from. *)
LEMMA SegmentStepInv ==
  ASSUME IInv,
         \/ SkipSegment \/ SkipEntry \/ InsertEntry \/ InsertFrame \/ NextEntry
         \/ EndSegment \/ FinishLoading \/ LoadFails \/ LoadAgain
  PROVE  IInv'
<1> USE DEF served, cursor
<1>1. CASE SkipSegment
  <2>1. TablesOK'
    BY <1>1, SameTables DEF SkipSegment, tables
  <2>2. folder.segments[seg].end \in Nat /\ folder.segments[seg].end <= first_index
    BY <1>1, SegmentFacts
       DEF SkipSegment, AtSegment, Skipped, CurrentSegment, IInv, TypeOK
  <2>3. TypeOK'
    BY <1>1, <2>1, <2>2 DEF SkipSegment, CurrentSegment, IInv, TypeOK, TablesOK, tables
  <2>4. Staged'
    BY <1>1 DEF SkipSegment, AtSegment, IInv, Staged, tables, HasSnapshot
  <2>5. raft_log = {}
    BY <1>1, <2>2
       DEF SkipSegment, AtSegment, Skipped, CurrentSegment, IInv, TypeOK, Upwards, Index
  <2>6. Upwards'
    BY <1>1, <2>5 DEF SkipSegment, IInv, Upwards, tables
  <2> QED BY <2>1, <2>3, <2>4, <2>6 DEF IInv, TablesOK
<1>2. CASE SkipEntry \/ NextEntry \/ EndSegment
  <2>1. TablesOK'
    BY <1>2, SameTables DEF SkipEntry, NextEntry, EndSegment, tables
  <2>2. TypeOK'
    BY <1>2, <2>1 DEF SkipEntry, NextEntry, EndSegment, IInv, TypeOK, TablesOK, tables
  <2>3. Staged'
    BY <1>2 DEF SkipEntry, NextEntry, EndSegment, IInv, Staged, tables, HasSnapshot
  <2>4. Upwards'
    <3>1. /\ stage = "segments" /\ seg' \in {seg, seg + 1} /\ index' \in {index, index + 1}
          /\ UNCHANGED <<stage, folder, raft_log, dqlite_transaction, first_index>>
      BY <1>2 DEF SkipEntry, NextEntry, EndSegment, AtEntry, AtSegment, tables
    <3>2. /\ \A i \in raft_log : i <= index'
          /\ \A s \in DOMAIN folder.segments : s >= seg' => s >= seg
      BY <3>1, SegmentFacts DEF IInv, TypeOK, Upwards
    <3> QED BY <3>1, <3>2 DEF IInv, Upwards
  <2> QED BY <2>1, <2>2, <2>3, <2>4 DEF IInv, TablesOK
<1>3. CASE InsertEntry
  <2>1. TablesOK'
    BY <1>3, SameTables DEF InsertEntry
  <2>2. TypeOK'
    <3>1. /\ DOMAIN raft_configuration' \subseteq Nat
          /\ raft_configuration' \in [DOMAIN raft_configuration' -> Configuration]
      BY <1>3, EntryFacts DEF InsertEntry, EntryOK, Extend, IInv, TypeOK
    <3> QED BY <1>3, <2>1, <3>1 DEF InsertEntry, IInv, TypeOK, TablesOK
  <2>3. Staged'
    BY <1>3 DEF InsertEntry, AtEntry, AtSegment, IInv, Staged, HasSnapshot
  <2>4. \A s \in DOMAIN folder.segments :
          s >= seg /\ IsClosed(folder.segments[s]) => folder.segments[s].end > first_index
    <3> SUFFICES ASSUME NEW s \in DOMAIN folder.segments, s >= seg,
                        IsClosed(folder.segments[s])
                 PROVE  folder.segments[s].end > first_index
      OBVIOUS
    <3>1. seg \in DOMAIN folder.segments /\ folder \in Folders /\ first_index \in Nat
      BY <1>3 DEF InsertEntry, AtEntry, AtSegment, IInv, TypeOK, Index
    <3>2. IsClosed(folder.segments[seg]) => folder.segments[seg].end > first_index
      BY <1>3, <3>1, SegmentFacts DEF InsertEntry, Skipped, CurrentSegment
    <3>3. s = seg \/ s > seg
      BY <3>1, SegmentFacts
    <3> QED BY <3>1, <3>2, <3>3, SegmentFacts
  <2>5. Upwards'
    BY <1>3, <2>4 DEF InsertEntry, AtEntry, AtSegment, IInv, TypeOK, Upwards, Index
  <2> QED BY <2>1, <2>2, <2>3, <2>5 DEF IInv, TablesOK
<1>4. CASE InsertFrame
  <2> DEFINE frame == CurrentEntry.frames[frm + 1]
  <2>1. /\ RowOf(frame) \in Nat \X Database \X PageNumber
        /\ frame.data \in Content
    BY <1>4, FrameFacts DEF InsertFrame, RowOf, IInv, TypeOK
  <2>2. TablesOK'
    BY <1>4, <2>1, InsertTransactionRow DEF InsertFrame, IInv
  <2>3. TypeOK'
    <3>1. /\ frm' = frm + 1
          /\ UNCHANGED <<folder, stage, db, part, pos, seg, ent, index, first_index,
                         last_index, current_index, files, raft_log, raft_configuration>>
      BY <1>4 DEF InsertFrame
    <3> QED BY <2>2, <3>1 DEF IInv, TypeOK, TablesOK
  <2>4. Staged'
    BY <1>4 DEF InsertFrame, AtEntry, AtSegment, IInv, Staged, HasSnapshot
  <2>5. \A k \in DOMAIN dqlite_transaction' : k[1] \in raft_log'
    BY <1>4, <2>1 DEF InsertFrame, Extend, RowOf, IInv, Upwards
  <2>6. Upwards'
    BY <1>4, <2>5 DEF InsertFrame, IInv, Upwards
  <2> QED BY <2>2, <2>3, <2>4, <2>6 DEF IInv, TablesOK
<1>5. CASE FinishLoading
  <2>1. TablesOK'
    BY <1>5, SameTables DEF FinishLoading, tables
  <2>2. CurrentIndex(folder) \in Index
    BY IndexAssumption, FolderAssumption DEF IInv, TypeOK, Index
  <2>3. TypeOK'
    BY <1>5, <2>1, <2>2 DEF FinishLoading, IInv, TypeOK, TablesOK, tables
  <2>4. current_index' \in first_index'..last_index'
    <3>1. CurrentIndex(folder) >= first_index
      <4>1. CASE HasSnapshot
        BY <1>5, <4>1, SnapshotFacts DEF FinishLoading, IInv, Staged, TypeOK
      <4>2. CASE ~HasSnapshot
        BY <1>5, <4>2, <2>2, FolderAssumption DEF FinishLoading, IInv, Staged, TypeOK
      <4> QED BY <4>1, <4>2
    <3> QED BY <1>5, <2>2, <3>1 DEF FinishLoading, IInv, TypeOK, Index
  <2>5. Staged' /\ Upwards'
    BY <1>5, <2>4 DEF FinishLoading, IInv, Staged, Upwards, tables, HasSnapshot
  <2> QED BY <2>1, <2>3, <2>5 DEF IInv, TablesOK
<1>6. CASE LoadFails
  <2>1. /\ DOMAIN dqlite_page' = {} /\ dqlite_page' \in [{} -> Content]
        /\ DOMAIN dqlite_database' = {} /\ Range(dqlite_database') = {}
        /\ DOMAIN dqlite_transaction' = {} /\ Range(dqlite_transaction') = {}
        /\ DOMAIN raft_configuration' = {} /\ raft_configuration' \in [{} -> Configuration]
    BY <1>6 DEF LoadFails, Empty, Range
  <2>2. /\ dqlite_database' \in [{} -> DOMAIN dqlite_page']
        /\ dqlite_transaction' \in [{} -> DOMAIN dqlite_page']
    BY <1>6 DEF LoadFails, Empty
  <2>3. RowsReferToPages'
    BY <2>1 DEF RowsReferToPages, IsInjective
  <2>4. TypeOK'
    BY <1>6, <2>1 DEF LoadFails, IInv, TypeOK
  <2>5. Staged' /\ Upwards'
    BY <1>6, <2>1 DEF LoadFails, Loading, IInv, Staged, Upwards, HasSnapshot
  <2> QED BY <2>1, <2>2, <2>3, <2>4, <2>5 DEF IInv, Tables
<1>7. CASE LoadAgain
  <2>1. TablesOK'
    BY <1>7, SameTables DEF LoadAgain, tables
  <2>2. TypeOK'
    BY <1>7, <2>1, IndexAssumption DEF LoadAgain, IInv, TypeOK, TablesOK, tables, Index
  <2>3. Staged' /\ Upwards'
    BY <1>7 DEF LoadAgain, IInv, Staged, Upwards, tables, HasSnapshot
  <2> QED BY <2>1, <2>2, <2>3 DEF IInv, TablesOK
<1> QED BY <1>1, <1>2, <1>3, <1>4, <1>5, <1>6, <1>7

(* A database is unchanged between the pinned index and the selected one: for
   no page is there a row of dqlite_transaction in between. *)
LEMMA PinnedReads ==
  ASSUME IInv, stage = "serving", NEW name \in Database,
         NEW i \in Nat, i >= first_index
  PROVE  /\ ChangeIndex(name, i) \in first_index..i
         /\ \A page \in PageNumber : ReadPage(name, page, ChangeIndex(name, i)) = ReadPage(name, page, i)
<1> DEFINE S == ChangesOf(name, i)
           pinned == ChangeIndex(name, i)
<1>1. first_index \in Nat /\ \A k \in DOMAIN dqlite_transaction : first_index < k[1]
  BY DEF IInv, Staged, Upwards, TypeOK, Index
<1>2. S \subseteq Nat /\ \A x \in S : first_index < x /\ x <= i
  <2>1. ASSUME NEW x \in S
        PROVE  x \in 1..i /\ first_index < x
    <3>1. PICK page \in PageNumber : <<x, name, page>> \in DOMAIN dqlite_transaction
      BY DEF ChangesOf
    <3> QED BY <1>1, <3>1 DEF ChangesOf
  <2> QED BY <2>1
<1>3. pinned \in first_index..i /\ \A x \in S : x <= pinned
  <2>1. CASE S = {}
    <3>1. pinned = first_index
      BY <2>1 DEF ChangeIndex
    <3> QED BY <1>1, <2>1, <3>1
  <2>2. CASE S # {}
    <3>1. pinned = Max(S)
      BY <2>2 DEF ChangeIndex
    <3> HIDE DEF S, pinned
    <3>2. pinned \in S /\ \A x \in S : x <= pinned
      BY <1>2, <2>2, <3>1, MaxExists
    <3>3. \A k \in S : k \in first_index..i
      BY <1>1, <1>2
    <3> QED BY <3>2, <3>3
  <2> QED BY <2>1, <2>2
<1>4. ASSUME NEW page \in PageNumber
      PROVE  Changes(name, page, pinned) = Changes(name, page, i)
  <2>1. \A x \in Changes(name, page, i) : x \in S
    BY <1>4 DEF Changes, ChangesOf
  <2> HIDE DEF S, pinned
  <2> QED BY <1>1, <1>3, <2>1 DEF Changes
<1> QED BY <1>3, <1>4 DEF ReadPage

(* The steps of a loaded folder. *)
LEMMA ServingStepInv ==
  ASSUME IInv,
         \/ \E i \in Index : SetCurrentIndex(i)
         \/ \E name \in Database : OpenFile(name)
         \/ \E file \in files : CloseFile(file)
  PROVE  IInv'
<1> USE DEF served, cursor, tables
<1>1. CASE \E i \in Index : SetCurrentIndex(i)
  <2>1. PICK i \in Index : SetCurrentIndex(i)
    BY <1>1
  <2>2. TablesOK'
    BY <2>1, SameTables DEF SetCurrentIndex
  <2>3. TypeOK'
    BY <2>1, <2>2 DEF SetCurrentIndex, IInv, TypeOK, TablesOK
  <2>4. Staged' /\ Upwards'
    BY <2>1, IndexAssumption DEF SetCurrentIndex, IInv, Staged, Upwards, HasSnapshot, TypeOK, Index
  <2> QED BY <2>2, <2>3, <2>4 DEF IInv, TablesOK
<1>2. CASE \E name \in Database : OpenFile(name)
  <2>1. PICK name \in Database : OpenFile(name)
    BY <1>2
  <2>2. TablesOK'
    BY <2>1, SameTables DEF OpenFile
  <2>3. ChangeIndex(name, current_index) \in Index
    <3>1. stage = "serving" /\ {first_index, last_index, current_index} \subseteq Nat
      BY <2>1 DEF OpenFile, IInv, TypeOK, Index
    <3>2. current_index >= first_index
      BY <3>1 DEF IInv, Staged
    <3>3. ChangeIndex(name, current_index) \in first_index..current_index
      BY <3>1, <3>2, PinnedReads
    <3> QED BY <3>1, <3>3, IndexAssumption DEF IInv, TypeOK, Index
  <2>4. TypeOK'
    BY <2>1, <2>2, <2>3 DEF OpenFile, IInv, TypeOK, TablesOK
  <2>5. Staged' /\ Upwards'
    BY <2>1 DEF OpenFile, IInv, Staged, Upwards, HasSnapshot
  <2> QED BY <2>2, <2>4, <2>5 DEF IInv, TablesOK
<1>3. CASE \E file \in files : CloseFile(file)
  <2>1. PICK file \in files : CloseFile(file)
    BY <1>3
  <2>2. TablesOK'
    BY <2>1, SameTables DEF CloseFile
  <2>3. TypeOK' /\ Staged' /\ Upwards'
    BY <2>1, <2>2 DEF CloseFile, IInv, TypeOK, TablesOK, Staged, Upwards, HasSnapshot
  <2> QED BY <2>2, <2>3 DEF IInv, TablesOK
<1> QED BY <1>1, <1>2, <1>3

LEMMA StutterInv == IInv /\ UNCHANGED vars => IInv'
<1> SUFFICES ASSUME IInv, UNCHANGED vars PROVE IInv'
  OBVIOUS
<1>1. TablesOK'
  BY SameTables DEF vars, tables
<1>2. TypeOK' /\ Staged' /\ Upwards'
  BY <1>1 DEF vars, cursor, tables, served, IInv, TypeOK, TablesOK, Staged, Upwards, HasSnapshot
<1> QED BY <1>1, <1>2 DEF IInv, TablesOK

(* The strengthened invariant: type correctness, the foreign keys, the stages
   of from_dir and the upward order in which the log is inserted. *)
THEOREM Invariance == Spec => []IInv
<1>1. IInv /\ [Next]_vars => IInv'
  <2> SUFFICES ASSUME IInv, [Next]_vars PROVE IInv'
    OBVIOUS
  <2> QED BY SnapshotStepInv, SegmentStepInv, ServingStepInv, StutterInv DEF Next, LoadStep
<1> QED BY InitInv, <1>1, PTL DEF Spec

(* Every variable keeps its type. *)
THEOREM TypeCorrect == Spec => []TypeOK
<1>1. IInv => TypeOK
  BY DEF IInv
<1> QED BY Invariance, <1>1, PTL

(* No row of the loader's database ever refers to a deleted page or shares
   one, whatever pages load_wal deletes and whatever ids SQLite reuses. *)
THEOREM ForeignKeysHold == Spec => []RowsReferToPages
<1>1. IInv => RowsReferToPages
  BY DEF IInv
<1> QED BY Invariance, <1>1, PTL

(* Pinning a file to the last change of its database shows what is at the
   selected index, at every page and every index that can be selected. *)
THEOREM PinningIsSound == Spec => []PinnedReadsAreCurrent
<1>1. IInv => PinnedReadsAreCurrent
  <2> SUFFICES ASSUME IInv, stage = "serving",
                      NEW name \in Database, NEW i \in first_index..last_index
               PROVE  LET pinned == ChangeIndex(name, i)
                      IN /\ pinned \in first_index..i
                         /\ \A page \in PageNumber :
                              ReadPage(name, page, pinned) = ReadPage(name, page, i)
    BY DEF PinnedReadsAreCurrent
  <2>1. i \in Nat /\ i >= first_index
    BY DEF IInv, TypeOK, Index
  <2> QED BY <2>1, PinnedReads
<1> QED BY Invariance, <1>1, PTL

-----------------------------------------------------------------------------
(* No page is leaked.  While a snapshot is loaded every page has its row, but
   for those that the WAL of the current database has replaced; the main file
   never replaces one. *)
PagesHaveRows == DOMAIN dqlite_page = Range(dqlite_database) \cup Range(dqlite_transaction)

OneRowPerPage ==
  /\ stage = "start" => db = 1 /\ part = "main" /\ pos = 0
  /\ stage = "snapshot" =>
       /\ part = "wal" => db \in DOMAIN SnapshotDatabases /\ pos <= Len(SnapshotDatabases[db].wal)
       /\ part = "main" \/ pos = 0 => PagesHaveRows
       /\ \A k \in DOMAIN dqlite_database : \E d \in DOMAIN SnapshotDatabases :
            /\ SnapshotDatabases[d].name = k[1]
            /\ d < db \/ (d = db /\ (part = "main" => k[2] <= pos))
  /\ NoPageIsLeaked

LEMMA NamesDiffer ==
  ASSUME folder \in Folders, HasSnapshot,
         NEW d \in DOMAIN SnapshotDatabases, NEW e \in DOMAIN SnapshotDatabases,
         SnapshotDatabases[d].name = SnapshotDatabases[e].name
  PROVE  d = e
<1>1. 1 \in DOMAIN folder.snapshots
  BY FolderAssumption DEF HasSnapshot
<1> QED BY <1>1, NamesAssumption DEF SnapshotDatabases

LEMMA OneRowPerPageStep ==
  ASSUME IInv, OneRowPerPage, [Next]_vars
  PROVE  OneRowPerPage'
<1> USE DEF served, cursor, tables
<1>1. CASE BeginSnapshot
  <2>1. DOMAIN dqlite_page' = {} /\ DOMAIN dqlite_database' = {} /\ DOMAIN dqlite_transaction' = {}
    BY <1>1 DEF BeginSnapshot, IInv, Staged
  <2> QED BY <1>1, <2>1 DEF BeginSnapshot, OneRowPerPage, PagesHaveRows, NoPageIsLeaked, Range
<1>2. CASE BeginWithoutSnapshot
  <2>1. DOMAIN dqlite_page' = {} /\ DOMAIN dqlite_database' = {} /\ DOMAIN dqlite_transaction' = {}
    BY <1>2 DEF BeginWithoutSnapshot, IInv, Staged
  <2> QED BY <1>2, <2>1 DEF BeginWithoutSnapshot, OneRowPerPage, NoPageIsLeaked, Range
<1>3. CASE LoadMainPage
  <2> DEFINE name == SnapshotDatabases[db].name
             row == <<name, pos + 1>>
             id == NextId
  <2>1. /\ stage = "snapshot" /\ stage' = stage /\ part = "main" /\ part' = part
        /\ db \in DOMAIN SnapshotDatabases /\ db' = db /\ pos' = pos + 1 /\ pos \in Nat
        /\ folder' = folder /\ folder \in Folders /\ HasSnapshot
        /\ DOMAIN SnapshotDatabases \subseteq Nat
    BY <1>3, SnapshotFacts DEF LoadMainPage, IInv, TypeOK, Staged
  <2>2. /\ DOMAIN dqlite_page' = DOMAIN dqlite_page \cup {id}
        /\ dqlite_database' = Extend(dqlite_database, row, id)
        /\ DOMAIN dqlite_database' = DOMAIN dqlite_database \cup {row}
        /\ dqlite_transaction' = dqlite_transaction
    BY <1>3 DEF LoadMainPage, InsertSnapshotPage, Extend
  <2>3. row \notin DOMAIN dqlite_database
    <3>1. SUFFICES ASSUME row \in DOMAIN dqlite_database PROVE FALSE
      OBVIOUS
    <3>2. PICK d \in DOMAIN SnapshotDatabases :
            /\ SnapshotDatabases[d].name = name
            /\ d < db \/ (d = db /\ pos + 1 <= pos)
      BY <2>1, <3>1 DEF OneRowPerPage
    <3>3. d = db
      BY <2>1, <3>2, NamesDiffer
    <3> QED BY <2>1, <3>2, <3>3
  <2> HIDE DEF row, id
  <2>4. PagesHaveRows'
    <3>2. Range(dqlite_database') = Range(dqlite_database) \cup {id}
      BY <2>2, <2>3 DEF Extend, Range
    <3>3. PagesHaveRows
      BY <2>1 DEF OneRowPerPage
    <3>4. Range(dqlite_transaction') = Range(dqlite_transaction)
      BY <2>2
    <3> QED BY <2>2, <3>2, <3>3, <3>4 DEF PagesHaveRows
  <2>5. ASSUME NEW k \in DOMAIN dqlite_database'
        PROVE  \E d \in DOMAIN SnapshotDatabases' :
                 /\ SnapshotDatabases'[d].name = k[1]
                 /\ d < db' \/ (d = db' /\ (part' = "main" => k[2] <= pos'))
    <3>1. SnapshotDatabases' = SnapshotDatabases
      BY <2>1 DEF SnapshotDatabases
    <3>2. CASE k = row
      BY <2>1, <3>1, <3>2 DEF row
    <3>3. CASE k \in DOMAIN dqlite_database
      <4>1. PICK d \in DOMAIN SnapshotDatabases :
              /\ SnapshotDatabases[d].name = k[1]
              /\ d < db \/ (d = db /\ k[2] <= pos)
        BY <2>1, <3>3 DEF OneRowPerPage
      <4>2. k[2] \in Nat
        BY <3>3, ContentAssumption DEF IInv, TypeOK
      <4> QED BY <2>1, <3>1, <4>1, <4>2
    <3> QED BY <2>2, <3>2, <3>3
  <2> QED BY <2>1, <2>4, <2>5 DEF OneRowPerPage, NoPageIsLeaked
<1>4. CASE LoadMainEnd
  <2>1. /\ stage = "snapshot" /\ stage' = stage /\ part = "main" /\ part' = "wal" /\ pos' = 0
        /\ db \in DOMAIN SnapshotDatabases /\ db' = db /\ folder' = folder
        /\ UNCHANGED <<dqlite_page, dqlite_database, dqlite_transaction>>
    BY <1>4 DEF LoadMainEnd
  <2>2. Len(SnapshotDatabases[db].wal) \in Nat
    BY <2>1, SnapshotFacts DEF DatabaseOK, IInv, TypeOK, Staged
  <2>3. SnapshotDatabases' = SnapshotDatabases
    BY <2>1 DEF SnapshotDatabases
  <2> QED BY <2>1, <2>2, <2>3 DEF OneRowPerPage, PagesHaveRows, NoPageIsLeaked
<1>5. CASE LoadWalEmpty \/ LoadWalEnd
  <2>1. /\ stage = "snapshot" /\ stage' = stage /\ part = "wal" /\ part' = "main" /\ pos' = 0
        /\ db \in DOMAIN SnapshotDatabases /\ db' = db + 1 /\ folder' = folder
        /\ dqlite_database' = dqlite_database
        /\ DOMAIN SnapshotDatabases \subseteq Nat
    BY <1>5, SnapshotFacts
       DEF LoadWalEmpty, LoadWalEnd, NextDatabase, IInv, TypeOK, Staged
  <2>2. SnapshotDatabases' = SnapshotDatabases
    BY <2>1 DEF SnapshotDatabases
  <2>3. PagesHaveRows'
    <3>1. CASE LoadWalEmpty
      <4>1. pos = 0
        BY <2>1, <3>1 DEF LoadWalEmpty, OneRowPerPage, IInv, TypeOK
      <4> QED BY <2>1, <3>1, <4>1 DEF LoadWalEmpty, OneRowPerPage, PagesHaveRows
    <3>2. CASE LoadWalEnd
      <4>1. DOMAIN dqlite_transaction' = {} /\ DOMAIN dqlite_transaction = {}
        BY <3>2 DEF LoadWalEnd, DeleteUnreferencedPages, Restrict, IInv, Staged
      <4>2. DOMAIN dqlite_page' = DOMAIN dqlite_page \cap Range(dqlite_database)
        BY <3>2 DEF LoadWalEnd, DeleteUnreferencedPages, Restrict
      <4>3. Range(dqlite_transaction') = {}
        BY <4>1 DEF Range
      <4> QED BY <2>1, <4>2, <4>3 DEF PagesHaveRows, IInv, RowsReferToPages
    <3> QED BY <1>5, <3>1, <3>2
  <2>4. ASSUME NEW k \in DOMAIN dqlite_database
        PROVE  \E d \in DOMAIN SnapshotDatabases : SnapshotDatabases[d].name = k[1] /\ d < db + 1
    <3>1. PICK d \in DOMAIN SnapshotDatabases : SnapshotDatabases[d].name = k[1] /\ (d < db \/ d = db)
      BY <2>1 DEF OneRowPerPage
    <3> QED BY <2>1, <3>1
  <2> QED BY <2>1, <2>2, <2>3, <2>4 DEF OneRowPerPage, NoPageIsLeaked
<1>6. CASE LoadWalFrame
  <2> DEFINE frame == SnapshotDatabases[db].wal[pos + 1]
             row == <<SnapshotDatabases[db].name, frame.page>>
  <2>1. /\ stage = "snapshot" /\ stage' = stage /\ part = "wal" /\ part' = part
        /\ db \in DOMAIN SnapshotDatabases /\ db' = db /\ pos' = pos + 1 /\ pos \in Nat
        /\ pos < Len(SnapshotDatabases[db].wal)
        /\ folder' = folder
    BY <1>6 DEF LoadWalFrame, IInv, TypeOK
  <2>2. SnapshotDatabases' = SnapshotDatabases
    BY <2>1 DEF SnapshotDatabases
  <2>3. DOMAIN dqlite_database' = DOMAIN dqlite_database \cup {row}
    BY <1>6 DEF LoadWalFrame, InsertSnapshotPage, Extend
  <2>4. Len(SnapshotDatabases[db].wal) \in Nat
    BY <2>1, SnapshotFacts DEF DatabaseOK, IInv, TypeOK, Staged
  <2>5. ASSUME NEW k \in DOMAIN dqlite_database'
        PROVE  \E d \in DOMAIN SnapshotDatabases :
                 SnapshotDatabases[d].name = k[1] /\ (d < db \/ d = db)
    <3>1. CASE k = row
      BY <2>1, <3>1
    <3>2. CASE k \in DOMAIN dqlite_database
      BY <2>1, <3>2 DEF OneRowPerPage
    <3> QED BY <2>3, <3>1, <3>2
  <2> QED BY <2>1, <2>2, <2>4, <2>5 DEF OneRowPerPage, NoPageIsLeaked
<1>7. CASE FinishSnapshot
  <2>1. /\ stage = "snapshot" /\ stage' = "segments" /\ db = Len(SnapshotDatabases) + 1
        /\ UNCHANGED <<dqlite_page, dqlite_database, dqlite_transaction>>
    BY <1>7 DEF FinishSnapshot
  <2>2. db \notin DOMAIN SnapshotDatabases
    <3>1. Len(SnapshotDatabases) \in Nat /\ DOMAIN SnapshotDatabases = 1..Len(SnapshotDatabases)
      <4>1. 1 \in DOMAIN folder.snapshots /\ folder \in Folders
        BY <2>1, FolderAssumption DEF IInv, TypeOK, Staged, HasSnapshot
      <4>2. folder.snapshots[1].databases \in Seq(Range(folder.snapshots[1].databases))
        BY <4>1, FolderAssumption
      <4> QED BY <4>2 DEF SnapshotDatabases
    <3> QED BY <2>1, <3>1
  <2>3. PagesHaveRows
    BY <2>1, <2>2 DEF OneRowPerPage, IInv, TypeOK
  <2> QED BY <2>1, <2>3 DEF OneRowPerPage, PagesHaveRows, NoPageIsLeaked
<1>8. CASE InsertFrame
  <2> DEFINE row == RowOf(CurrentEntry.frames[frm + 1])
             id == NextId
  <2>1. /\ stage = "segments" /\ stage' = stage
        /\ row \notin DOMAIN dqlite_transaction
        /\ dqlite_transaction' = Extend(dqlite_transaction, row, id)
        /\ DOMAIN dqlite_page' = DOMAIN dqlite_page \cup {id}
        /\ dqlite_database' = dqlite_database
    BY <1>8 DEF InsertFrame, AtEntry, AtSegment, Extend
  <2> HIDE DEF row, id
  <2>2. Range(dqlite_transaction') = Range(dqlite_transaction) \cup {id}
    BY <2>1 DEF Extend, Range
  <2> QED BY <2>1, <2>2 DEF OneRowPerPage, NoPageIsLeaked
<1>9. CASE \/ SkipSegment \/ SkipEntry \/ InsertEntry \/ NextEntry \/ EndSegment \/ FinishLoading
  <2>1. /\ stage = "segments" /\ stage' \in {"segments", "serving"}
        /\ UNCHANGED <<dqlite_page, dqlite_database, dqlite_transaction>>
    BY <1>9 DEF SkipSegment, SkipEntry, InsertEntry, NextEntry, EndSegment, FinishLoading,
                AtEntry, AtSegment
  <2> QED BY <2>1 DEF OneRowPerPage, NoPageIsLeaked
<1>10. CASE LoadFails \/ LoadAgain
  BY <1>10 DEF LoadFails, LoadAgain, OneRowPerPage, NoPageIsLeaked
<1>11. CASE \/ \E i \in Index : SetCurrentIndex(i)
            \/ \E name \in Database : OpenFile(name)
            \/ \E file \in files : CloseFile(file)
  <2>1. /\ stage = "serving" /\ stage' = "serving"
        /\ UNCHANGED <<dqlite_page, dqlite_database, dqlite_transaction>>
    BY <1>11 DEF SetCurrentIndex, OpenFile, CloseFile
  <2> QED BY <2>1 DEF OneRowPerPage, NoPageIsLeaked
<1>12. CASE UNCHANGED vars
  BY <1>12 DEF vars, OneRowPerPage, PagesHaveRows, NoPageIsLeaked, SnapshotDatabases
<1> QED BY <1>1, <1>2, <1>3, <1>4, <1>5, <1>6, <1>7, <1>8, <1>9, <1>10, <1>11, <1>12
        DEF Next, LoadStep

LEMMA OneRowPerPageInvariance == Spec => []OneRowPerPage
<1>1. Init => OneRowPerPage
  BY DEF Init, OneRowPerPage, NoPageIsLeaked
<1> QED BY <1>1, OneRowPerPageStep, Invariance, PTL DEF Spec

(* No page is left that no index can show, although load_wal deletes nothing
   for a database without a WAL. *)
THEOREM NothingLeaks == Spec => []NoPageIsLeaked
<1>1. OneRowPerPage => NoPageIsLeaked
  BY DEF OneRowPerPage
<1> QED BY <1>1, OneRowPerPageInvariance, PTL

-----------------------------------------------------------------------------
(* The refinement of PointInTime.  First where the replay is: nowhere before
   the snapshot, then at its index, then at the entry being inserted. *)
LEMMA NowFacts ==
  ASSUME IInv
  PROVE  /\ stage \in {"start", "failed"} => Now = 0
         /\ stage = "snapshot" => Now = first_index
         /\ stage = "segments" /\ index \in raft_log => Now = index
         /\ stage = "segments" /\ first_index < index /\ index \notin raft_log => Now < index
<1> DEFINE base == IF stage \in {"start", "failed"} THEN {} ELSE {first_index}
           S == {0} \cup raft_log \cup base
<1>1. Now = Max(S)
  BY DEF Now
<1>2. S \subseteq Nat /\ first_index \in Nat /\ index \in Nat /\ raft_log \subseteq Nat
  BY DEF IInv, TypeOK, Index
<1>3. ASSUME stage \in {"start", "failed"} PROVE Now = 0
  <2>1. S = {0}
    BY <1>3 DEF IInv, Staged
  <2> QED BY <1>1, <2>1, MaxIs
<1>4. ASSUME stage = "snapshot" PROVE Now = first_index
  <2>1. S = {0, first_index}
    BY <1>4 DEF IInv, Staged
  <2> QED BY <1>1, <1>2, <2>1, MaxIs
<1>5. ASSUME stage \in {"segments", "serving"}
      PROVE  \A i \in raft_log : first_index < i
  BY DEF IInv, Upwards
<1>6. ASSUME stage = "segments", index \in raft_log PROVE Now = index
  <2>1. index \in S /\ \A i \in S : i <= index
    BY <1>2, <1>5, <1>6 DEF IInv, Upwards
  <2> HIDE DEF S
  <2> QED BY <1>1, <1>2, <2>1, MaxIs
<1>7. ASSUME stage = "segments", first_index < index, index \notin raft_log
      PROVE  Now < index
  <2>1. S # {} /\ \A i \in S : i < index
    BY <1>2, <1>7 DEF IInv, Upwards
  <2> HIDE DEF S
  <2>2. Max(S) \in S
    <3>1. \A i \in S : i <= index
      BY <1>2, <2>1
    <3> QED BY <1>2, <2>1, <3>1, MaxExists
  <2> QED BY <1>1, <2>1, <2>2
<1> QED BY <1>3, <1>4, <1>6, <1>7

(* What a read at index i finds after each change of the tables. *)
LEMMA SameReads ==
  ASSUME UNCHANGED <<dqlite_page, dqlite_database, dqlite_transaction>>
  PROVE  \A name, page, i : ReadPage(name, page, i)' = ReadPage(name, page, i)
BY DEF ReadPage, Changes

LEMMA EmptyReads ==
  ASSUME DOMAIN dqlite_database = {}, DOMAIN dqlite_transaction = {}
  PROVE  \A name, page, i : ReadPage(name, page, i) = NoPage
BY DEF ReadPage, Changes

(* REPLACE of a row of the snapshot: that page changes at every index. *)
LEMMA SnapshotReads ==
  ASSUME IInv, DOMAIN dqlite_transaction = {},
         NEW name \in Database, NEW page \in PageNumber, NEW data \in Content,
         InsertSnapshotPage(name, page, data)
  PROVE  \A n \in Database, p \in PageNumber, i \in Nat :
           ReadPage(n, p, i)' =
             IF <<n, p>> = <<name, page>> THEN data ELSE ReadPage(n, p, i)
<1> DEFINE id == NextId
<1>1. id \notin DOMAIN dqlite_page
  BY IdFacts DEF IInv
<1> HIDE DEF id
<1>2. /\ dqlite_page' = Extend(dqlite_page, id, data)
      /\ dqlite_database' = Extend(dqlite_database, <<name, page>>, id)
      /\ dqlite_transaction' = dqlite_transaction
  BY DEF InsertSnapshotPage, id
<1> SUFFICES ASSUME NEW n \in Database, NEW p \in PageNumber, NEW i \in Nat
             PROVE  ReadPage(n, p, i)' =
                      IF <<n, p>> = <<name, page>> THEN data ELSE ReadPage(n, p, i)
  OBVIOUS
<1>3. Changes(n, p, i) = {} /\ Changes(n, p, i)' = {}
  BY <1>2 DEF Changes
<1>4. CASE <<n, p>> = <<name, page>>
  <2>1. <<n, p>> \in DOMAIN dqlite_database' /\ dqlite_database'[<<n, p>>] = id
    BY <1>2, <1>4 DEF Extend
  <2>2. dqlite_page'[id] = data
    BY <1>2 DEF Extend
  <2> QED BY <1>3, <1>4, <2>1, <2>2 DEF ReadPage
<1>5. CASE <<n, p>> # <<name, page>>
  <2>1. CASE <<n, p>> \in DOMAIN dqlite_database
    <3>1. dqlite_database[<<n, p>>] \in DOMAIN dqlite_page
      BY <2>1 DEF IInv, Tables
    <3>2. <<n, p>> \in DOMAIN dqlite_database'
          /\ dqlite_database'[<<n, p>>] = dqlite_database[<<n, p>>]
      BY <1>2, <1>5, <2>1 DEF Extend
    <3>3. dqlite_page'[dqlite_database[<<n, p>>]] = dqlite_page[dqlite_database[<<n, p>>]]
      BY <1>1, <1>2, <3>1 DEF Extend
    <3> QED BY <1>3, <1>5, <2>1, <3>2, <3>3 DEF ReadPage
  <2>2. CASE <<n, p>> \notin DOMAIN dqlite_database
    <3>1. <<n, p>> \notin DOMAIN dqlite_database'
      BY <1>2, <1>5, <2>2 DEF Extend
    <3> QED BY <1>3, <1>5, <2>2, <3>1 DEF ReadPage
  <2> QED BY <2>1, <2>2
<1> QED BY <1>4, <1>5

(* INSERT of a frame of the entry at index: that page changes from index on. *)
LEMMA FrameReads ==
  ASSUME IInv, stage = "segments", index \in raft_log,
         NEW name \in Database, NEW page \in PageNumber, NEW data \in Content,
         <<index, name, page>> \notin DOMAIN dqlite_transaction,
         dqlite_page' = Extend(dqlite_page, NextId, data),
         dqlite_transaction' = Extend(dqlite_transaction, <<index, name, page>>, NextId),
         UNCHANGED dqlite_database
  PROVE  \A n \in Database, p \in PageNumber, i \in Nat :
           ReadPage(n, p, i)' =
             IF <<n, p>> = <<name, page>> /\ i >= index THEN data ELSE ReadPage(n, p, i)
<1> DEFINE id == NextId
           row == <<index, name, page>>
<1>1. id \notin DOMAIN dqlite_page
  BY IdFacts DEF IInv
<1>2. /\ dqlite_page' = Extend(dqlite_page, id, data)
      /\ dqlite_transaction' = Extend(dqlite_transaction, row, id)
      /\ dqlite_database' = dqlite_database
  OBVIOUS
<1> HIDE DEF id
<1>3. /\ DOMAIN dqlite_transaction' = DOMAIN dqlite_transaction \cup {row}
      /\ dqlite_transaction'[row] = id
      /\ \A k \in DOMAIN dqlite_transaction : dqlite_transaction'[k] = dqlite_transaction[k]
  BY <1>2 DEF Extend
<1>4. /\ dqlite_page'[id] = data
      /\ \A other \in DOMAIN dqlite_page : dqlite_page'[other] = dqlite_page[other]
  BY <1>1, <1>2 DEF Extend
<1>5. index \in Nat \ {0} /\ first_index \in Nat /\ \A j \in raft_log : j \in Nat /\ j <= index
  BY DEF IInv, TypeOK, Upwards, Index
<1> SUFFICES ASSUME NEW n \in Database, NEW p \in PageNumber, NEW i \in Nat
             PROVE  ReadPage(n, p, i)' =
                      IF <<n, p>> = <<name, page>> /\ i >= index THEN data ELSE ReadPage(n, p, i)
  OBVIOUS
<1>6. CASE <<n, p>> = <<name, page>> /\ i >= index
  <2> DEFINE S == Changes(n, p, i)'
  <2>1. index \in S
    BY <1>3, <1>5, <1>6 DEF Changes
  <2>2. S \subseteq Nat /\ \A j \in S : j <= index
    <3>1. ASSUME NEW j \in S PROVE j \in Nat /\ j <= index
      <4>1. <<j, n, p>> \in DOMAIN dqlite_transaction \cup {row} /\ j \in Nat
        BY <1>3 DEF Changes
      <4>2. j = index \/ j \in raft_log
        BY <4>1 DEF IInv, Upwards
      <4> QED BY <1>5, <4>1, <4>2
    <3> QED BY <3>1
  <2>3. Max(S) = index
    <3> HIDE DEF S
    <3> QED BY <2>1, <2>2, MaxIs
  <2> QED BY <1>3, <1>4, <1>6, <2>1, <2>3 DEF ReadPage
<1>7. CASE ~(<<n, p>> = <<name, page>> /\ i >= index)
  <2>1. Changes(n, p, i)' = Changes(n, p, i)
    BY <1>3, <1>5, <1>7 DEF Changes
  <2>2. ASSUME Changes(n, p, i) # {}
        PROVE  <<Max(Changes(n, p, i)), n, p>> \in DOMAIN dqlite_transaction
    <3> DEFINE S == Changes(n, p, i)
    <3>1. S \subseteq Nat /\ S # {} /\ \A j \in S : j <= i
      BY <2>2 DEF Changes
    <3>2. Max(S) \in S
      <4> HIDE DEF S
      <4> QED BY <3>1, MaxExists
    <3> QED BY <3>2 DEF Changes
  <2>3. \A k \in DOMAIN dqlite_transaction :
          dqlite_page'[dqlite_transaction'[k]] = dqlite_page[dqlite_transaction[k]]
    BY <1>3, <1>4 DEF IInv, Tables
  <2>4. \A k \in DOMAIN dqlite_database :
          dqlite_page'[dqlite_database'[k]] = dqlite_page[dqlite_database[k]]
    BY <1>2, <1>4 DEF IInv, Tables
  <2> QED BY <1>2, <1>7, <2>1, <2>2, <2>3, <2>4 DEF ReadPage
<1> QED BY <1>6, <1>7

-----------------------------------------------------------------------------
(* The state of PointInTime that a state of the tables stands for. *)
Images == [i \in Index |-> Image(i)]
Handles == {Handle(file) : file \in files}
Abstract == <<stage = "serving", Now, Images, current_index, Handles>>

(* Tables and stage untouched: the images are too. *)
LEMMA SameImages ==
  ASSUME UNCHANGED <<dqlite_page, dqlite_database, dqlite_transaction, first_index>>,
         stage # "start", stage' # "start"
  PROVE  Images' = Images
BY SameReads DEF Images, Image

(* No file is open while the folder is loaded. *)
LEMMA NoHandles == ASSUME IInv, stage # "serving" PROVE Handles = {}
BY DEF IInv, Staged, Handles

LEMMA InitImplements == Init => Timeline!Init
<1> SUFFICES ASSUME Init PROVE Timeline!Init
  OBVIOUS
<1>1. IInv
  BY InitInv
<1>2. Now = 0
  BY <1>1, NowFacts DEF Init
<1>3. Images = Timeline!Blank
  BY DEF Init, Images, Image, Timeline!Blank, Timeline!Index, Timeline!Key, Index
<1> QED BY <1>1, <1>2, <1>3, NoHandles DEF Init, Timeline!Init, Images, Handles

(* Steps that only move the cursor, and the DELETE of load_wal, are invisible. *)
LEMMA InvisibleSteps ==
  ASSUME IInv,
         \/ LoadMainEnd \/ LoadWalEmpty \/ LoadWalEnd \/ FinishSnapshot
         \/ SkipSegment \/ SkipEntry \/ NextEntry \/ EndSegment \/ LoadAgain
         \/ UNCHANGED vars
  PROVE  UNCHANGED Abstract
<1> USE DEF served, cursor, tables
<1>1. CASE LoadWalEnd
  <2>1. /\ \A id \in Range(dqlite_database) : dqlite_page'[id] = dqlite_page[id]
        /\ DOMAIN dqlite_transaction' = {}
    BY <1>1, DeletePages DEF LoadWalEnd, IInv, Staged
  <2>2. ASSUME NEW name \in Database, NEW page \in PageNumber, NEW i \in Index
        PROVE  ReadPage(name, page, i)' = ReadPage(name, page, i)
    <3>1. Changes(name, page, i) = {} /\ Changes(name, page, i)' = {}
      BY <1>1, <2>1 DEF LoadWalEnd, IInv, Staged, Changes
    <3>2. <<name, page>> \in DOMAIN dqlite_database =>
            dqlite_database[<<name, page>>] \in Range(dqlite_database)
      BY DEF Range
    <3> QED BY <1>1, <2>1, <3>1, <3>2 DEF LoadWalEnd, ReadPage
  <2>3. Images' = Images
    BY <1>1, <2>2 DEF LoadWalEnd, Images, Image
  <2>4. IInv'
    BY <1>1, SnapshotStepInv
  <2> QED BY <1>1, <2>3, NoHandles DEF LoadWalEnd, Abstract, Now, Handles
<1>2. CASE \/ LoadMainEnd \/ LoadWalEmpty \/ FinishSnapshot
           \/ SkipSegment \/ SkipEntry \/ NextEntry \/ EndSegment
  <2>1. /\ UNCHANGED <<dqlite_page, dqlite_database, dqlite_transaction, first_index,
                       raft_log, current_index, files>>
        /\ stage \in {"snapshot", "segments"} /\ stage' \in {"snapshot", "segments"}
    BY <1>2 DEF LoadMainEnd, LoadWalEmpty, FinishSnapshot, SkipSegment, SkipEntry,
                NextEntry, EndSegment, AtEntry, AtSegment
  <2>2. Images' = Images
    BY <2>1, SameImages
  <2>3. Handles = {} /\ Handles' = {}
    BY <2>1, NoHandles DEF Handles
  <2> QED BY <2>1, <2>2, <2>3 DEF Abstract, Now
<1>3. CASE LoadAgain
  <2>1. /\ DOMAIN dqlite_database = {} /\ DOMAIN dqlite_transaction = {}
        /\ UNCHANGED <<dqlite_database, dqlite_transaction, raft_log, current_index, files>>
        /\ stage = "failed" /\ stage' = "start"
    BY <1>3 DEF LoadAgain, IInv, Staged
  <2>2. Images' = Images
    BY <2>1, EmptyReads DEF Images, Image
  <2>3. Handles = {} /\ Handles' = {}
    BY <2>1, NoHandles DEF Handles
  <2> QED BY <2>1, <2>2, <2>3 DEF Abstract, Now
<1>4. CASE UNCHANGED vars
  BY <1>4, SameReads DEF vars, Abstract, Now, Images, Image, Handles, Handle
<1> QED BY <1>1, <1>2, <1>3, <1>4

(* Replay moves on: to the snapshot, to index 1 without one, or to an entry. *)
LEMMA AdvanceSteps ==
  ASSUME IInv, BeginSnapshot \/ BeginWithoutSnapshot \/ InsertEntry
  PROVE  Timeline!Advance
<1> USE DEF served, cursor, tables
<1>1. UNCHANGED <<dqlite_page, dqlite_database, dqlite_transaction, current_index, files>>
  BY DEF BeginSnapshot, BeginWithoutSnapshot, InsertEntry
<1>2. stage # "serving" /\ stage' # "serving"
  BY DEF BeginSnapshot, BeginWithoutSnapshot, InsertEntry, AtEntry, AtSegment
<1>3. Handles' = {} /\ Handles = {}
  BY <1>1, <1>2, NoHandles DEF Handles
<1>4. Now' \in Nat /\ Now' > Now
  <2>1. CASE BeginSnapshot \/ BeginWithoutSnapshot
    <3>1. /\ Now = 0 /\ raft_log' = {}
          /\ stage' \in {"snapshot", "segments"}
          /\ first_index' \in Nat \ {0}
      BY <2>1, NowFacts, SnapshotFacts, IndexAssumption
         DEF BeginSnapshot, BeginWithoutSnapshot, IInv, TypeOK, Staged
    <3>2. Now' = Max({0, first_index'})
      <4>1. {0} \cup {} \cup {first_index'} = {0, first_index'}
        OBVIOUS
      <4>2. (IF stage \in {"start", "failed"} THEN {} ELSE {first_index})' = {first_index'}
        BY <3>1
      <4> QED BY <3>1, <4>1, <4>2 DEF Now
    <3>3. Max({0, first_index'}) = first_index'
      BY <3>1, MaxIs
    <3> QED BY <3>1, <3>2, <3>3
  <2>2. CASE InsertEntry
    <3>1. /\ stage = "segments" /\ stage' = "segments"
          /\ index > first_index /\ index \notin raft_log
          /\ raft_log' = raft_log \cup {index}
          /\ first_index' = first_index
      BY <2>2 DEF InsertEntry, AtEntry, AtSegment
    <3> DEFINE S == {0} \cup (raft_log \cup {index}) \cup {first_index}
    <3>2. Now' = Max(S)
      BY <3>1 DEF Now
    <3>3. S \subseteq Nat /\ index \in S /\ \A i \in S : i <= index
      BY <3>1 DEF IInv, TypeOK, Upwards, Index
    <3>4. Now < index
      BY <3>1, NowFacts
    <3> HIDE DEF S
    <3>5. Now' = index
      BY <3>2, <3>3, MaxIs
    <3> QED BY <3>3, <3>4, <3>5
  <2> QED BY <2>1, <2>2
<1>5. Images' = Images
  <2>1. CASE BeginSnapshot \/ BeginWithoutSnapshot
    <3>1. DOMAIN dqlite_database = {} /\ DOMAIN dqlite_transaction = {}
      BY <2>1 DEF BeginSnapshot, BeginWithoutSnapshot, IInv, Staged
    <3> QED BY <1>1, <3>1, SameReads, EmptyReads DEF Images, Image
  <2>2. CASE InsertEntry
    <3>1. stage # "start" /\ stage' # "start" /\ first_index' = first_index
      BY <2>2 DEF InsertEntry, AtEntry, AtSegment
    <3> QED BY <1>1, <3>1, SameImages
  <2> QED BY <2>1, <2>2
<1> QED BY <1>1, <1>2, <1>3, <1>4, <1>5 DEF Timeline!Advance, Images, Handles

(* A page is inserted: at every index from where the replay is on. *)
LEMMA WriteSteps ==
  ASSUME IInv, LoadMainPage \/ LoadWalFrame \/ InsertFrame
  PROVE  \E k \in Timeline!Key, data \in Content : Timeline!Write(k, data)
<1> USE DEF served, cursor, tables
<1>1. /\ UNCHANGED <<raft_log, stage, first_index, current_index, files>>
      /\ stage \in {"snapshot", "segments"}
  BY DEF LoadMainPage, LoadWalFrame, InsertFrame, InsertSnapshotPage, AtEntry, AtSegment
<1>2. Handles = {} /\ Handles' = {}
  BY <1>1, NoHandles DEF Handles
<1>3. Now' = Now
  BY <1>1 DEF Now
<1>4. \E name \in Database, page \in PageNumber, data \in Content :
        \A n \in Database, p \in PageNumber, i \in Index :
          i >= first_index =>
            ReadPage(n, p, i)' =
              IF <<n, p>> = <<name, page>> /\ i >= Now THEN data ELSE ReadPage(n, p, i)
  <2>1. CASE LoadMainPage \/ LoadWalFrame
    <3>1. Now = first_index /\ DOMAIN dqlite_transaction = {}
      BY <2>1, NowFacts DEF LoadMainPage, LoadWalFrame, IInv, Staged
    <3>2. \E name \in Database, page \in PageNumber, data \in Content :
            InsertSnapshotPage(name, page, data)
      <4>1. CASE LoadMainPage
        BY <4>1, MainFacts DEF LoadMainPage, IInv, TypeOK, Staged
      <4>2. CASE LoadWalFrame
        BY <4>2, WalFacts DEF LoadWalFrame, IInv, TypeOK, Staged
      <4> QED BY <2>1, <4>1, <4>2
    <3>3. PICK name \in Database, page \in PageNumber, data \in Content :
            InsertSnapshotPage(name, page, data)
      BY <3>2
    <3>4. \A n \in Database, p \in PageNumber, i \in Nat :
            ReadPage(n, p, i)' =
              IF <<n, p>> = <<name, page>> THEN data ELSE ReadPage(n, p, i)
      BY <3>1, <3>3, SnapshotReads
    <3> QED BY <3>1, <3>4 DEF Index
  <2>2. CASE InsertFrame
    <3> DEFINE frame == CurrentEntry.frames[frm + 1]
    <3>1. /\ AtEntry /\ stage = "segments" /\ index \in raft_log
          /\ FramesLeft
          /\ RowOf(frame) = <<index, CurrentEntry.name, frame.page>>
      BY <2>2 DEF InsertFrame, AtEntry, AtSegment, RowOf
    <3>2. /\ CurrentEntry.name \in Database
          /\ frame.page \in PageNumber
          /\ frame.data \in Content
      BY <3>1, FrameFacts DEF IInv, TypeOK
    <3>3. Now = index
      BY <3>1, NowFacts
    <3>4. PICK name \in Database, page \in PageNumber, data \in Content :
            /\ <<index, name, page>> \notin DOMAIN dqlite_transaction
            /\ dqlite_page' = Extend(dqlite_page, NextId, data)
            /\ dqlite_transaction' = Extend(dqlite_transaction, <<index, name, page>>, NextId)
            /\ UNCHANGED dqlite_database
      BY <2>2, <3>1, <3>2 DEF InsertFrame
    <3>5. \A n \in Database, p \in PageNumber, i \in Nat :
            ReadPage(n, p, i)' =
              IF <<n, p>> = <<name, page>> /\ i >= index THEN data ELSE ReadPage(n, p, i)
      BY <3>1, <3>4, FrameReads
    <3> QED BY <3>3, <3>5 DEF Index
  <2> QED BY <2>1, <2>2
<1>5. PICK name \in Database, page \in PageNumber, data \in Content :
        \A n \in Database, p \in PageNumber, i \in Index :
          i >= first_index =>
            ReadPage(n, p, i)' =
              IF <<n, p>> = <<name, page>> /\ i >= Now THEN data ELSE ReadPage(n, p, i)
  BY <1>4
<1>6. Now \in Nat /\ Now >= first_index
  <2>1. CASE stage = "snapshot"
    BY <2>1, NowFacts DEF IInv, TypeOK, Index
  <2>2. CASE stage = "segments"
    <3>1. index \in raft_log
      BY <2>2 DEF LoadMainPage, LoadWalFrame, InsertFrame
    <3>2. Now = index
      BY <2>2, <3>1, NowFacts
    <3> QED BY <2>2, <3>1, <3>2 DEF IInv, TypeOK, Upwards, Index
  <2> QED BY <1>1, <2>1, <2>2
<1>7. Images' = [i \in Index |->
                   IF i >= Now THEN [Images[i] EXCEPT ![<<name, page>>] = data] ELSE Images[i]]
  <2>1. ASSUME NEW i \in Index
        PROVE  Image(i)' = IF i >= Now THEN [Images[i] EXCEPT ![<<name, page>>] = data] ELSE Images[i]
    <3>1. Images[i] = Image(i)
      BY DEF Images
    <3>2. CASE i >= first_index
      <4>1. /\ Image(i) = [k \in Database \X PageNumber |-> ReadPage(k[1], k[2], i)]
            /\ Image(i)' = [k \in Database \X PageNumber |-> ReadPage(k[1], k[2], i)']
        BY <1>1, <3>2 DEF Image
      <4>2. ASSUME NEW k \in Database \X PageNumber
            PROVE  ReadPage(k[1], k[2], i)' =
                     IF k = <<name, page>> /\ i >= Now THEN data ELSE ReadPage(k[1], k[2], i)
        <5>1. k[1] \in Database /\ k[2] \in PageNumber /\ k = <<k[1], k[2]>>
          OBVIOUS
        <5> QED BY <1>5, <3>2, <5>1
      <4>3. Image(i)' = [k \in Database \X PageNumber |->
                           IF k = <<name, page>> /\ i >= Now THEN data ELSE Image(i)[k]]
        BY <4>1, <4>2
      <4>4. Image(i) = [k \in Database \X PageNumber |-> Image(i)[k]]
        BY <4>1
      <4> HIDE <4>1, <4>2
      <4>5. CASE i >= Now
        BY <3>1, <4>3, <4>4, <4>5
      <4>6. CASE ~(i >= Now)
        BY <3>1, <4>3, <4>4, <4>6
      <4> QED BY <4>5, <4>6
    <3>3. CASE ~(i >= first_index)
      <4>1. ~(i >= Now)
        BY <1>6, <3>3 DEF IInv, TypeOK, Index
      <4>2. Image(i)' = Image(i)
        BY <1>1, <3>3 DEF Image
      <4> QED BY <3>1, <4>1, <4>2
    <3> QED BY <3>2, <3>3
  <2> QED BY <2>1 DEF Images
<1>8. <<name, page>> \in Timeline!Key
  BY DEF Timeline!Key
<1> QED BY <1>1, <1>2, <1>3, <1>7, <1>8
        DEF Timeline!Write, Timeline!Index, Index, Images, Handles

(* Giving up, serving, selecting an index, opening and closing files. *)
LEMMA ServeSteps ==
  ASSUME IInv,
         \/ LoadFails \/ FinishLoading
         \/ \E i \in Index : SetCurrentIndex(i)
         \/ \E name \in Database : OpenFile(name)
         \/ \E file \in files : CloseFile(file)
  PROVE  [Timeline!Next]_Abstract
<1> USE DEF served, cursor, tables
<1>1. CASE LoadFails
  <2>1. /\ stage \in {"start", "snapshot", "segments"} /\ stage' = "failed"
        /\ DOMAIN dqlite_database' = {} /\ DOMAIN dqlite_transaction' = {}
        /\ raft_log' = {} /\ UNCHANGED <<current_index, files>>
    BY <1>1 DEF LoadFails, Loading, Empty
  <2>2. Images' = Timeline!Blank
    <3>1. \A name, page, i : ReadPage(name, page, i)' = NoPage
      BY <2>1 DEF ReadPage, Changes
    <3> QED BY <3>1 DEF Images, Image, Timeline!Blank, Timeline!Index, Timeline!Key, Index
  <2>3. Now' = 0
    <3>1. Now' = Max({0})
      <4>1. {0} \cup {} \cup {} = {0}
        OBVIOUS
      <4> QED BY <2>1, <4>1 DEF Now
    <3> QED BY <3>1, MaxIs
  <2>4. Handles' = {} /\ Handles = {}
    BY <2>1, NoHandles DEF Handles
  <2>5. Timeline!GiveUp
    BY <2>1, <2>2, <2>3, <2>4 DEF Timeline!GiveUp, Images, Handles
  <2> QED BY <2>5 DEF Timeline!Next
<1>2. CASE FinishLoading
  <2>1. /\ UNCHANGED <<dqlite_page, dqlite_database, dqlite_transaction, first_index,
                       raft_log, files>>
        /\ stage = "segments" /\ stage' = "serving"
        /\ current_index' = CurrentIndex(folder)
    BY <1>2 DEF FinishLoading
  <2>2. Images' = Images /\ Now' = Now
    BY <2>1, SameImages DEF Now
  <2>3. Handles' = {} /\ Handles = {}
    BY <2>1, NoHandles DEF Handles
  <2>4. CurrentIndex(folder) \in Timeline!Index
    BY IndexAssumption, FolderAssumption DEF IInv, TypeOK, Timeline!Index
  <2>5. Timeline!Serve(CurrentIndex(folder))
    BY <2>1, <2>2, <2>3 DEF Timeline!Serve, Images, Handles
  <2> QED BY <2>4, <2>5 DEF Timeline!Next
<1>3. CASE \E i \in Index : SetCurrentIndex(i)
  <2>1. PICK i \in Index : SetCurrentIndex(i)
    BY <1>3
  <2>2. /\ UNCHANGED <<stage, dqlite_page, dqlite_database, dqlite_transaction,
                       first_index, raft_log, files>>
        /\ stage = "serving" /\ current_index' = i
    BY <2>1 DEF SetCurrentIndex
  <2>3. Images' = Images /\ Now' = Now /\ Handles' = Handles
    BY <2>2, SameImages, SameReads DEF Now, Handles, Handle
  <2>4. Timeline!Select(i)
    BY <2>2, <2>3 DEF Timeline!Select, Images, Handles
  <2> QED BY <2>4 DEF Timeline!Next, Timeline!Index, Index
<1>4. CASE \E name \in Database : OpenFile(name)
  <2>1. PICK name \in Database : OpenFile(name)
    BY <1>4
  <2> DEFINE pinned == ChangeIndex(name, current_index)
             file == [name |-> name, raft_index |-> pinned]
  <2>2. /\ UNCHANGED <<stage, dqlite_page, dqlite_database, dqlite_transaction,
                       first_index, raft_log, current_index>>
        /\ stage = "serving" /\ files' = files \cup {file}
        /\ ReadSize(name, pinned) > 0
    BY <2>1 DEF OpenFile
  <2>3. Images' = Images /\ Now' = Now
    BY <2>2, SameImages DEF Now
  <2>4. current_index \in Index /\ current_index >= first_index
    BY <2>2 DEF IInv, Staged, TypeOK, Index
  <2>5. \A page \in PageNumber : ReadPage(name, page, pinned) = ReadPage(name, page, current_index)
    BY <2>2, <2>4, PinnedReads DEF Index
  <2>6. Timeline!ImageOf(name, current_index)
          = [page \in PageNumber |-> ReadPage(name, page, current_index)]
    BY <2>2, <2>4 DEF Timeline!ImageOf, Image
  <2>7. Handle(file) = [name |-> name, content |-> Timeline!ImageOf(name, current_index)]
    BY <2>5, <2>6 DEF Handle
  <2>8. Timeline!Exists(name, current_index)
    <3>1. 1 \in PageNumber
      BY ContentAssumption
    <3>2. Images[current_index][<<name, 1>>] = ReadPage(name, 1, current_index)
      BY <2>2, <2>4, <3>1 DEF Images, Image
    <3>3. ReadPage(name, 1, current_index) # NoPage
          /\ Size[ReadPage(name, 1, current_index)] > 0
      BY <2>2, <2>5, <3>1 DEF ReadSize
    <3> QED BY <3>2, <3>3 DEF Timeline!Exists, Images
  <2>9. Handles' = Handles \cup {Handle(file)}
    <3>1. \A f : Handle(f)' = Handle(f)
      BY <2>2, SameReads DEF Handle
    <3> QED BY <2>2, <3>1 DEF Handles
  <2>10. Timeline!Open(name)
    BY <2>2, <2>3, <2>7, <2>8, <2>9 DEF Timeline!Open, Images, Handles
  <2> QED BY <2>10 DEF Timeline!Next
<1>5. CASE \E file \in files : CloseFile(file)
  <2>1. PICK file \in files : CloseFile(file)
    BY <1>5
  <2>2. /\ UNCHANGED <<stage, dqlite_page, dqlite_database, dqlite_transaction,
                       first_index, raft_log, current_index>>
        /\ stage = "serving" /\ files' = files \ {file}
    BY <2>1 DEF CloseFile
  <2>3. Images' = Images /\ Now' = Now
    BY <2>2, SameImages DEF Now
  <2>4. \A f : Handle(f)' = Handle(f)
    BY <2>2, SameReads DEF Handle
  <2>5. CASE \E other \in files' : Handle(other) = Handle(file)
    <3>1. Handles' = Handles
      BY <2>2, <2>4, <2>5 DEF Handles
    <3> QED BY <2>2, <2>3, <3>1 DEF Abstract
  <2>6. CASE ~\E other \in files' : Handle(other) = Handle(file)
    <3>1. Handles' = Handles \ {Handle(file)}
      BY <2>2, <2>4, <2>6 DEF Handles
    <3>2. Handle(file) \in Handles
      BY DEF Handles
    <3>3. Timeline!Close(Handle(file))
      BY <2>2, <2>3, <3>1 DEF Timeline!Close, Images, Handles
    <3> QED BY <3>2, <3>3 DEF Timeline!Next, Handles
  <2> QED BY <2>5, <2>6
<1> QED BY <1>1, <1>2, <1>3, <1>4, <1>5

(* The tables implement PointInTime: the past never changes during the replay,
   and what an open file reads never changes after. *)
THEOREM Implementation == Spec => ImplementsPointInTime
<1>1. IInv /\ [Next]_vars => [Timeline!Next]_Abstract
  <2> SUFFICES ASSUME IInv, [Next]_vars PROVE [Timeline!Next]_Abstract
    OBVIOUS
  <2>1. CASE BeginSnapshot \/ BeginWithoutSnapshot \/ InsertEntry
    BY <2>1, AdvanceSteps DEF Timeline!Next
  <2>2. CASE LoadMainPage \/ LoadWalFrame \/ InsertFrame
    BY <2>2, WriteSteps DEF Timeline!Next
  <2>3. CASE \/ LoadMainEnd \/ LoadWalEmpty \/ LoadWalEnd \/ FinishSnapshot
             \/ SkipSegment \/ SkipEntry \/ NextEntry \/ EndSegment \/ LoadAgain
             \/ UNCHANGED vars
    BY <2>3, InvisibleSteps
  <2>4. CASE \/ LoadFails \/ FinishLoading
             \/ \E i \in Index : SetCurrentIndex(i)
             \/ \E name \in Database : OpenFile(name)
             \/ \E file \in files : CloseFile(file)
    BY <2>4, ServeSteps
  <2> QED BY <2>1, <2>2, <2>3, <2>4 DEF Next, LoadStep
<1>2. [Timeline!Next]_Abstract => [Timeline!Next]_(Timeline!vars)
  BY DEF Abstract, Timeline!vars, Images, Handles
<1> QED BY InitImplements, <1>1, <1>2, Invariance, PTL
        DEF Spec, ImplementsPointInTime, Timeline!Spec
=============================================================================
