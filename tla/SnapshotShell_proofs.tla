------------------------ MODULE SnapshotShell_proofs ------------------------
(***************************************************************************)
(* Proofs about SnapshotShell, for any servers, metadata values, databases *)
(* and file contents: what .finish may leave in a folder whatever fails,   *)
(* is killed or is done by others meanwhile.                               *)
(***************************************************************************)
EXTENDS SnapshotShell, TLAPS

(* A ROLLBACK restores tables in which self was a server. *)
SavedSelf ==
  in_transaction /\ foreign_keys =>
    saved.metadata.self \in saved.servers \cup {NoServer}

Running == phase \notin {"idle", "cleanup"}

(* The files that are whole when .finish comes to a phase. *)
Before(p) ==
  CASE p = "cluster.yaml" -> {"metadata1"}
    [] p = "info.yaml" -> {"metadata1", "cluster.yaml"}
    [] p = "snapshot" -> {"metadata1", "cluster.yaml", "info.yaml"}
    [] p = "snapshot.meta" -> OwnFiles \ {"snapshot.meta"}
    [] p = "rollback" -> OwnFiles
    [] OTHER -> {}

(* .finish writes one file after the other into a folder that had none. *)
FilesInOrder ==
  Running =>
    /\ \A f \in Before(phase) : f \in DOMAIN folder /\ folder[f] = "whole"
    /\ DOMAIN folder \cap OwnFiles \subseteq
         Before(phase) \cup (IF phase = "snapshot" THEN {"snapshot"} ELSE {})

(* What the files hold so far. *)
Copied ==
  /\ written = [self_found |-> written.self_found, count |-> written.count,
                data |-> written.data]
  /\ Running =>
       /\ shell = "snapshot"
       /\ AttachedAreFit
       /\ DOMAIN written.data \subseteq attached
       /\ \A db \in DOMAIN written.data : written.data[db] = files[db]
  /\ phase \in {"snapshot", "snapshot.meta", "rollback"} => written.self_found
  /\ phase \in {"snapshot", "snapshot.meta", "rollback"} /\ "snapshot" \in DOMAIN folder =>
       written.count = Cardinality(attached)
  /\ phase \in {"snapshot.meta", "rollback"} => DOMAIN written.data = attached

IInv ==
  /\ TypeOK
  /\ SelfIsServer /\ SavedSelf
  /\ FilesInOrder /\ Copied
  /\ MetaIsLast /\ NothingLeftBehind

-----------------------------------------------------------------------------
LEMMA InitInv == Init => IInv
<1> SUFFICES ASSUME Init PROVE IInv
  OBVIOUS
<1>1. TypeOK
  BY SnapshotAssumption DEF Init, TypeOK, NewMetadata, NotSaved, Metadata
<1>2. SelfIsServer /\ SavedSelf
  BY DEF Init, SelfIsServer, SavedSelf, Reference, NewMetadata, NotSaved
<1>3. FilesInOrder /\ Copied
  BY DEF Init, FilesInOrder, Copied, Running, NothingWritten
<1>4. DOMAIN folder \cap OwnFiles = {}
  BY DEF Init, OwnFiles, OthersFile
<1> QED BY <1>1, <1>2, <1>3, <1>4 DEF IInv, MetaIsLast, NothingLeftBehind, OwnFiles


-----------------------------------------------------------------------------
(* The user's changes of the tables and of the connection: .finish is idle. *)
LEMMA EditInv ==
  ASSUME IInv, EditStep
  PROVE  IInv'
<1>1. /\ InShell
      /\ UNCHANGED <<shell, sql, files, finishing>>
  BY DEF EditStep, Edit, AddServer, RenumberServer, InsertServer, DeleteServer, SetSelf,
         SetTerm, SetIndex, SetTimestamp, UpdateTimestamp, SetMetadata
<1>2. /\ servers' \subseteq Ids /\ metadata' \in Metadata
      /\ foreign_keys => metadata'.self \in servers' \cup {NoServer}
  <2> USE SnapshotAssumption
      DEF IInv, TypeOK, SelfIsServer, Reference, Metadata, NoServer
  <2>1. CASE \E id \in Ids, set_self \in BOOLEAN : AddServer(id, set_self)
    BY <2>1 DEF AddServer
  <2>2. CASE \E id, new \in Ids : RenumberServer(id, new)
    BY <2>2 DEF RenumberServer
  <2>3. CASE \E id \in Ids : InsertServer(id) \/ DeleteServer(id)
    BY <2>3 DEF InsertServer, DeleteServer
  <2>4. CASE \E id \in Ids \cup {NoServer} : SetSelf(id)
    BY <2>4 DEF SetSelf
  <2>5. ASSUME NEW f \in {"raft_term", "raft_index", "timestamp"}, NEW v \in Values[f],
               SetMetadata(f, v)
        PROVE  /\ servers' \subseteq Ids /\ metadata' \in Metadata
               /\ foreign_keys => metadata'.self \in servers' \cup {NoServer}
    BY <2>5 DEF SetMetadata
  <2> QED BY <2>1, <2>2, <2>3, <2>4, <2>5
          DEF EditStep, SetTerm, SetIndex, SetTimestamp, UpdateTimestamp
<1>3. TypeOK' /\ SelfIsServer' /\ SavedSelf'
  BY <1>1, <1>2
     DEF IInv, TypeOK, SelfIsServer, SavedSelf, Reference, InShell, sql, finishing
<1>4. FilesInOrder' /\ Copied'
  BY <1>1 DEF IInv, InShell, Idle, FilesInOrder, Copied, Running, sql, finishing
<1>5. MetaIsLast' /\ NothingLeftBehind'
  BY <1>1 DEF IInv, MetaIsLast, NothingLeftBehind, Idle, finishing
<1> QED BY <1>3, <1>4, <1>5 DEF IInv

LEMMA SqlInv ==
  ASSUME IInv, SqlStep
  PROVE  IInv'
<1>1. /\ InShell
      /\ UNCHANGED <<shell, files, finishing>>
  BY DEF SqlStep, Sql, Begin, Commit, Rollback, ForeignKeysOff, Attach, Detach
<1>2. TypeOK' /\ SelfIsServer' /\ SavedSelf'
  <2> USE SnapshotAssumption, <1>1
      DEF IInv, TypeOK, SelfIsServer, SavedSelf, Reference, Metadata, InShell,
          NotSaved, NewMetadata, tables, finishing
  <2>1. CASE Begin
    BY <2>1 DEF Begin
  <2>2. CASE Commit
    BY <2>2 DEF Commit
  <2>3. CASE Rollback
    BY <2>3 DEF Rollback
  <2>4. CASE ForeignKeysOff
    BY <2>4 DEF ForeignKeysOff
  <2>5. CASE \E db \in Databases : Attach(db) \/ Detach(db)
    <3>1. /\ attached' \subseteq Databases
          /\ UNCHANGED <<servers, metadata, foreign_keys, in_transaction, saved>>
      BY <2>5 DEF Attach, Detach
    <3> QED BY <3>1
  <2> QED BY <2>1, <2>2, <2>3, <2>4, <2>5 DEF SqlStep
<1>3. FilesInOrder' /\ Copied'
  BY <1>1 DEF IInv, InShell, Idle, FilesInOrder, Copied, Running, finishing
<1>4. MetaIsLast' /\ NothingLeftBehind'
  BY <1>1 DEF IInv, MetaIsLast, NothingLeftBehind, Idle, finishing
<1> QED BY <1>2, <1>3, <1>4 DEF IInv

(* The shell begins and ends, and .finish begins. *)
LEMMA ShellInv ==
  ASSUME IInv, EnterShell \/ Abort \/ BeginFinish
  PROVE  IInv'
<1>1. CASE EnterShell
  <2>1. UNCHANGED <<tables, sql, files, finishing>> /\ shell = "root" /\ shell' = "snapshot"
    BY <1>1 DEF EnterShell
  <2>2. TypeOK' /\ SelfIsServer' /\ SavedSelf'
    BY <2>1 DEF IInv, TypeOK, SelfIsServer, SavedSelf, Reference, tables, sql, finishing
  <2>3. FilesInOrder' /\ Copied' /\ MetaIsLast' /\ NothingLeftBehind'
    BY <2>1 DEF IInv, FilesInOrder, Copied, Running, AttachedAreFit, MetaIsLast,
                NothingLeftBehind, Idle, tables, sql, finishing
  <2> QED BY <2>2, <2>3 DEF IInv
<1>2. CASE Abort
  <2>1. InShell /\ shell' = "root" /\ DropConnection /\ UNCHANGED <<files, finishing>>
    BY <1>2 DEF Abort
  <2>2. TypeOK' /\ SelfIsServer' /\ SavedSelf'
    BY <2>1, SnapshotAssumption
       DEF DropConnection, IInv, TypeOK, SelfIsServer, SavedSelf, Reference, finishing,
           NewMetadata, NotSaved, Metadata
  <2>3. FilesInOrder' /\ Copied' /\ MetaIsLast' /\ NothingLeftBehind'
    BY <2>1 DEF IInv, InShell, FilesInOrder, Copied, Running, MetaIsLast,
                NothingLeftBehind, Idle, finishing
  <2> QED BY <2>2, <2>3 DEF IInv
<1>3. CASE BeginFinish
  <2>1. /\ shell = "snapshot" /\ AttachedAreFit /\ FolderIsFree
        /\ UNCHANGED <<shell, tables, sql, files, exists, folder>>
        /\ phase' = "create_dir" /\ written' = NothingWritten /\ dir_preexists' = exists
    BY <1>3 DEF BeginFinish, FinishCommand, InShell
  <2>2. TypeOK' /\ SelfIsServer' /\ SavedSelf'
    BY <2>1 DEF IInv, TypeOK, SelfIsServer, SavedSelf, Reference, tables, sql
  <2>3. DOMAIN folder' = {}
    BY <2>1 DEF FolderIsFree
  <2>4. FilesInOrder'
    BY <2>1, <2>3 DEF FilesInOrder, Before
  <2>5. Copied'
    BY <2>1 DEF Copied, NothingWritten, AttachedAreFit, sql
  <2>6. MetaIsLast' /\ NothingLeftBehind'
    BY <2>1, <2>3 DEF MetaIsLast, NothingLeftBehind, Idle
  <2> QED BY <2>2, <2>4, <2>5, <2>6 DEF IInv
<1> QED BY <1>1, <1>2, <1>3

-----------------------------------------------------------------------------
(* The steps of .finish: each writes the file of its phase and nothing else. *)
(* What Put does to the folder. *)
LEMMA PutFacts ==
  ASSUME NEW state, Put(state), phase \in OwnFiles,
         DOMAIN folder \subseteq OwnFiles \cup {OthersFile}
  PROVE  /\ DOMAIN folder' = DOMAIN folder \cup {phase}
         /\ folder'[phase] = state
         /\ \A f \in DOMAIN folder : f # phase => folder'[f] = folder[f]
         /\ DOMAIN folder' \subseteq OwnFiles \cup {OthersFile}
BY DEF Put

(* One more file of .finish is whole. *)
LEMMA WholeFile ==
  ASSUME IInv, Put("whole"),
         <<phase, phase'>> \in {<<"metadata1", "cluster.yaml">>,
                                <<"cluster.yaml", "info.yaml">>,
                                <<"info.yaml", "snapshot">>,
                                <<"snapshot", "snapshot.meta">>,
                                <<"snapshot.meta", "rollback">>}
  PROVE  /\ DOMAIN folder' \subseteq OwnFiles \cup {OthersFile}
         /\ FilesInOrder'
         /\ phase # "snapshot.meta" => "snapshot.meta" \notin DOMAIN folder'
         /\ phase = "snapshot.meta" => \A f \in OwnFiles : f \in DOMAIN folder' /\ folder'[f] = "whole"
         /\ phase = "info.yaml" => "snapshot" \notin DOMAIN folder'
<1> USE DEF OwnFiles
<1>1. DOMAIN folder \subseteq OwnFiles \cup {OthersFile}
  BY DEF IInv, TypeOK
<1>2. /\ DOMAIN folder' = DOMAIN folder \cup {phase}
      /\ folder'[phase] = "whole"
      /\ \A f \in DOMAIN folder : f # phase => folder'[f] = folder[f]
      /\ DOMAIN folder' \subseteq OwnFiles \cup {OthersFile}
  BY <1>1, PutFacts
<1>3. /\ \A f \in Before(phase) : f \in DOMAIN folder /\ folder[f] = "whole"
      /\ DOMAIN folder \cap OwnFiles \subseteq
           Before(phase) \cup (IF phase = "snapshot" THEN {"snapshot"} ELSE {})
  BY DEF IInv, FilesInOrder, Running
<1>4. FilesInOrder'
  <2>1. /\ \A f \in Before(phase') : f \in DOMAIN folder' /\ folder'[f] = "whole"
        /\ DOMAIN folder' \cap OwnFiles \subseteq Before(phase')
    BY <1>2, <1>3 DEF Before
  <2> QED BY <2>1 DEF FilesInOrder
<1>5. /\ phase # "snapshot.meta" => "snapshot.meta" \notin DOMAIN folder'
      /\ phase = "info.yaml" => "snapshot" \notin DOMAIN folder'
  BY <1>2, <1>3 DEF Before
<1>6. phase = "snapshot.meta" =>
        \A f \in OwnFiles : f \in DOMAIN folder' /\ folder'[f] = "whole"
  BY <1>2, <1>3 DEF Before
<1> QED BY <1>2, <1>4, <1>5, <1>6

(* What a step that only writes files leaves as it is. *)
LEMMA WritingKeeps ==
  ASSUME IInv, Writing, phase \in OwnFiles \cup {"create_dir"},
         phase' \in OwnFiles \cup {"rollback", "cleanup"},
         DOMAIN folder' \subseteq OwnFiles \cup {OthersFile}
  PROVE  /\ TypeOK' /\ SelfIsServer' /\ SavedSelf' /\ NothingLeftBehind'
         /\ shell' = "snapshot" /\ AttachedAreFit'
         /\ attached' = attached /\ files' = files
<1> USE DEF Writing, tables, sql
<1>1. TypeOK'
  BY DEF IInv, TypeOK
<1>2. SelfIsServer' /\ SavedSelf'
  BY DEF IInv, SelfIsServer, SavedSelf, Reference
<1>3. NothingLeftBehind'
  BY DEF NothingLeftBehind, Idle, OwnFiles
<1>4. shell' = "snapshot" /\ AttachedAreFit'
  BY DEF IInv, Copied, Running, AttachedAreFit, OwnFiles
<1> QED BY <1>1, <1>2, <1>3, <1>4

LEMMA WriteInv ==
  ASSUME IInv,
         \/ WriteMetadata \/ WriteCluster \/ WriteInfo
         \/ WriteHeader \/ (\E db \in attached : WriteDatabase(db)) \/ CloseData
         \/ WriteMeta
  PROVE  IInv'
<1> USE DEF OwnFiles
<1>1. CASE WriteMetadata \/ WriteCluster
  <2>1. /\ <<phase, phase'>> \in {<<"metadata1", "cluster.yaml">>, <<"cluster.yaml", "info.yaml">>}
        /\ Put("whole") /\ UNCHANGED written /\ Writing
    BY <1>1 DEF WriteMetadata, WriteCluster
  <2>2. Copied'
    BY <2>1, WritingKeeps, WholeFile DEF IInv, Copied, Running
  <2>3. MetaIsLast'
    BY <2>1, WholeFile DEF MetaIsLast
  <2> QED BY <2>1, <2>2, <2>3, WritingKeeps, WholeFile DEF IInv
<1>2. CASE WriteInfo
  <2>1. /\ phase = "info.yaml" /\ phase' = "snapshot"
        /\ Put("whole") /\ Writing
        /\ written' = [written EXCEPT !.self_found = TRUE]
    BY <1>2 DEF WriteInfo
  <2>2. Copied'
    BY <2>1, WritingKeeps, WholeFile DEF IInv, Copied, Running
  <2>3. MetaIsLast'
    BY <2>1, WholeFile DEF MetaIsLast
  <2> QED BY <2>1, <2>2, <2>3, WritingKeeps, WholeFile DEF IInv
<1>3. CASE WriteHeader
  <2>1. /\ phase = "snapshot" /\ phase' = "snapshot"
        /\ Put("partial") /\ Writing
        /\ written' = [written EXCEPT !.count = Cardinality(attached)]
    BY <1>3 DEF WriteHeader
  <2>2. /\ DOMAIN folder' = DOMAIN folder \cup {"snapshot"}
        /\ \A f \in DOMAIN folder : f # "snapshot" => folder'[f] = folder[f]
        /\ DOMAIN folder' \subseteq OwnFiles \cup {OthersFile}
    BY <2>1, PutFacts DEF IInv, TypeOK
  <2>3. FilesInOrder' /\ MetaIsLast'
    BY <2>1, <2>2 DEF IInv, FilesInOrder, Before, Running, MetaIsLast
  <2>4. Copied'
    BY <2>1, <2>2, WritingKeeps DEF IInv, Copied, Running
  <2> QED BY <2>1, <2>2, <2>3, <2>4, WritingKeeps DEF IInv
<1>4. CASE \E db \in attached : WriteDatabase(db)
  <2>1. PICK db \in attached : WriteDatabase(db)
    BY <1>4
  <2>2. /\ phase = "snapshot" /\ phase' = "snapshot" /\ UNCHANGED folder /\ Writing
        /\ written' = [written EXCEPT !.data =
                         [d \in DOMAIN written.data \cup {db} |->
                            IF d = db THEN files[db] ELSE written.data[d]]]
    BY <2>1 DEF WriteDatabase
  <2>3. FilesInOrder' /\ MetaIsLast'
    BY <2>2 DEF IInv, FilesInOrder, Before, Running, MetaIsLast
  <2>4. Copied'
    BY <2>2, WritingKeeps DEF IInv, Copied, Running, TypeOK
  <2> QED BY <2>2, <2>3, <2>4, WritingKeeps DEF IInv, TypeOK
<1>5. CASE CloseData
  <2>1. /\ phase = "snapshot" /\ phase' = "snapshot.meta"
        /\ "snapshot" \in DOMAIN folder /\ DOMAIN written.data = attached
        /\ Put("whole") /\ UNCHANGED written /\ Writing
    BY <1>5 DEF CloseData
  <2>2. Copied'
    BY <2>1, WritingKeeps, WholeFile DEF IInv, Copied, Running
  <2>3. MetaIsLast'
    BY <2>1, WholeFile DEF MetaIsLast
  <2> QED BY <2>1, <2>2, <2>3, WritingKeeps, WholeFile DEF IInv
<1>6. CASE WriteMeta
  <2>1. /\ phase = "snapshot.meta" /\ phase' = "rollback"
        /\ Put("whole") /\ UNCHANGED written /\ Writing
    BY <1>6 DEF WriteMeta
  <2>2. "snapshot" \in DOMAIN folder
    BY <2>1 DEF IInv, FilesInOrder, Before, Running
  <2>3. Copied'
    BY <2>1, <2>2, WritingKeeps, WholeFile DEF IInv, Copied, Running
  <2>4. MetaIsLast'
    BY <2>1, <2>2, WholeFile DEF IInv, Copied, MetaIsLast
  <2> QED BY <2>1, <2>3, <2>4, WritingKeeps, WholeFile DEF IInv
<1> QED BY <1>1, <1>2, <1>3, <1>4, <1>5, <1>6


(* The file that .finish is writing may be left incomplete; the .meta file is the
   last one it writes. *)
LEMMA LastFile ==
  ASSUME IInv, UNCHANGED written,
         UNCHANGED folder \/ (phase \in OwnFiles /\ Put("partial"))
  PROVE  MetaIsLast'
<1> USE DEF OwnFiles
<1>1. CASE UNCHANGED folder
  BY <1>1 DEF IInv, MetaIsLast
<1>2. CASE phase \in OwnFiles /\ Put("partial")
  <2>1. /\ DOMAIN folder' = DOMAIN folder \cup {phase}
        /\ \A f \in DOMAIN folder : f # phase => folder'[f] = folder[f]
    BY <1>2, PutFacts DEF IInv, TypeOK
  <2>2. CASE phase = "snapshot.meta"
    <3>1. \A f \in OwnFiles \ {"snapshot.meta"} : f \in DOMAIN folder /\ folder[f] = "whole"
      BY <2>2 DEF IInv, FilesInOrder, Before, Running
    <3>2. Cardinality(DOMAIN written.data) = written.count /\ written.self_found
      BY <2>2, <3>1 DEF IInv, Copied
    <3> QED BY <2>1, <2>2, <3>1, <3>2 DEF MetaIsLast
  <2>3. CASE phase # "snapshot.meta"
    <3>1. "snapshot.meta" \notin DOMAIN folder
      BY <1>2, <2>3 DEF IInv, FilesInOrder, Before, Running
    <3> QED BY <2>1, <2>3, <3>1 DEF MetaIsLast
  <2> QED BY <2>2, <2>3
<1> QED BY <1>1, <1>2

(* The end of the connection takes everything in memory with it. *)
LEMMA Dropped ==
  ASSUME IInv, DropConnection, shell' \in {"root", "killed"}, phase' = "idle",
         UNCHANGED <<files, dir_preexists>>, exists' \in BOOLEAN,
         DOMAIN folder' \subseteq OwnFiles \cup {OthersFile}
  PROVE  TypeOK' /\ SelfIsServer' /\ SavedSelf'
BY SnapshotAssumption
   DEF DropConnection, IInv, TypeOK, SelfIsServer, SavedSelf, Reference,
       NewMetadata, NotSaved, Metadata

(* The last steps, after success, an error or the end of the program. *)
LEMMA EndInv ==
  ASSUME IInv,
         \/ CreateDir \/ WriteFails \/ TimestampFails \/ SelfFails
         \/ Cleanup \/ Finish \/ Killed
  PROVE  IInv'
<1> USE DEF OwnFiles
<1>1. CASE CreateDir
  <2>1. /\ phase = "create_dir" /\ phase' = "metadata1" /\ exists' = TRUE
        /\ UNCHANGED <<shell, tables, sql, files, folder, written, dir_preexists>>
    BY <1>1 DEF CreateDir
  <2>2. TypeOK' /\ SelfIsServer' /\ SavedSelf'
    BY <2>1 DEF IInv, TypeOK, SelfIsServer, SavedSelf, Reference, tables, sql
  <2>3. FilesInOrder' /\ MetaIsLast' /\ NothingLeftBehind'
    BY <2>1 DEF IInv, FilesInOrder, Before, Running, MetaIsLast, NothingLeftBehind, Idle
  <2>4. Copied'
    BY <2>1 DEF IInv, Copied, Running, AttachedAreFit, sql
  <2> QED BY <2>2, <2>3, <2>4 DEF IInv
<1>2. CASE WriteFails \/ TimestampFails \/ SelfFails
  <2>1. /\ Writing /\ UNCHANGED written /\ phase' = "cleanup"
        /\ phase \in OwnFiles \cup {"create_dir"}
        /\ UNCHANGED folder \/ (phase \in OwnFiles /\ Put("partial"))
    BY <1>2 DEF WriteFails, TimestampFails, SelfFails
  <2>2. DOMAIN folder' \subseteq OwnFiles \cup {OthersFile}
    BY <2>1, PutFacts DEF IInv, TypeOK
  <2>3. MetaIsLast'
    BY <2>1, LastFile
  <2>4. FilesInOrder' /\ Copied'
    BY <2>1 DEF FilesInOrder, Copied, IInv, Running
  <2> QED BY <2>1, <2>2, <2>3, <2>4, WritingKeeps DEF IInv
<1>3. CASE Cleanup
  <2>1. /\ phase' = "idle"
        /\ UNCHANGED <<shell, tables, sql, files, dir_preexists>>
    BY <1>3 DEF Cleanup
  <2>2. \/ dir_preexists /\ UNCHANGED <<exists, folder, written>>
        \/ DOMAIN folder' = {} /\ exists' = FALSE /\ written' = NothingWritten
    BY <1>3 DEF Cleanup
  <2>3. TypeOK' /\ SelfIsServer' /\ SavedSelf'
    BY <2>1, <2>2 DEF IInv, TypeOK, SelfIsServer, SavedSelf, Reference, tables, sql
  <2>4. FilesInOrder' /\ Copied'
    BY <2>1, <2>2 DEF IInv, FilesInOrder, Copied, Running, NothingWritten
  <2>5. MetaIsLast' /\ NothingLeftBehind'
    BY <2>1, <2>2 DEF IInv, MetaIsLast, NothingLeftBehind, Idle
  <2> QED BY <2>3, <2>4, <2>5 DEF IInv
<1>4. CASE Finish
  <2>1. /\ phase = "rollback" /\ phase' = "idle" /\ shell' = "root" /\ DropConnection
        /\ UNCHANGED <<files, exists, folder, written, dir_preexists>>
    BY <1>4 DEF Finish
  <2>2. TypeOK' /\ SelfIsServer' /\ SavedSelf'
    <3>1. exists' \in BOOLEAN /\ DOMAIN folder' \subseteq OwnFiles \cup {OthersFile}
      BY <2>1 DEF IInv, TypeOK
    <3> QED BY <2>1, <3>1, Dropped
  <2>3. FilesInOrder' /\ Copied' /\ MetaIsLast' /\ NothingLeftBehind'
    BY <2>1 DEF IInv, FilesInOrder, Before, Running, Copied, MetaIsLast, NothingLeftBehind
  <2> QED BY <2>2, <2>3 DEF IInv
<1>5. CASE Killed
  <2>1. /\ ~Idle /\ phase' = "idle" /\ shell' = "killed" /\ DropConnection
        /\ UNCHANGED <<files, exists, written, dir_preexists>>
        /\ UNCHANGED folder \/ (phase \in OwnFiles /\ Put("partial"))
    BY <1>5 DEF Killed
  <2>2. DOMAIN folder' \subseteq OwnFiles \cup {OthersFile}
    BY <2>1, PutFacts DEF IInv, TypeOK
  <2>3. TypeOK' /\ SelfIsServer' /\ SavedSelf'
    <3>1. exists' \in BOOLEAN
      BY <2>1 DEF IInv, TypeOK
    <3> QED BY <2>1, <2>2, <3>1, Dropped
  <2>4. MetaIsLast'
    BY <2>1, LastFile
  <2>5. FilesInOrder' /\ Copied' /\ NothingLeftBehind'
    BY <2>1 DEF IInv, FilesInOrder, Copied, Running, NothingLeftBehind
  <2> QED BY <2>3, <2>4, <2>5 DEF IInv
<1> QED BY <1>1, <1>2, <1>3, <1>4, <1>5

-----------------------------------------------------------------------------
(* Other processes: they find the attached databases locked. *)
LEMMA OthersInv ==
  ASSUME IInv, OthersStep
  PROVE  IInv'
<1> USE DEF OwnFiles, OthersFile
<1>1. CASE \E db \in Databases, state \in FileStates : OthersWrite(db, state)
  <2>1. PICK db \in Databases, state \in FileStates :
          /\ ~Locked(db) /\ files' = [files EXCEPT ![db] = state]
          /\ UNCHANGED <<shell, tables, sql, finishing>>
    BY <1>1 DEF OthersWrite
  <2>2. TypeOK' /\ SelfIsServer' /\ SavedSelf'
    BY <2>1 DEF IInv, TypeOK, SelfIsServer, SavedSelf, Reference, tables, sql, finishing
  <2>3. FilesInOrder' /\ MetaIsLast' /\ NothingLeftBehind'
    BY <2>1 DEF IInv, FilesInOrder, Running, MetaIsLast, NothingLeftBehind, Idle, finishing
  <2>4. ASSUME Running, NEW d \in attached
        PROVE  files'[d] = files[d]
    BY <2>1, <2>4 DEF Locked, Running, Idle, IInv, TypeOK
  <2>5. Copied'
    BY <2>1, <2>4 DEF IInv, Copied, Running, AttachedAreFit, sql, finishing
  <2> QED BY <2>2, <2>3, <2>5 DEF IInv
<1>2. CASE OthersCreate
  <2>1. /\ UNCHANGED <<shell, tables, sql, files, written, phase, dir_preexists>>
        /\ exists' = TRUE
        /\ DOMAIN folder' \in {DOMAIN folder, DOMAIN folder \cup {OthersFile}}
        /\ \A f \in DOMAIN folder \cap OwnFiles : folder'[f] = folder[f]
    BY <1>2 DEF OthersCreate
  <2>2. TypeOK' /\ SelfIsServer' /\ SavedSelf'
    BY <2>1 DEF IInv, TypeOK, SelfIsServer, SavedSelf, Reference, tables, sql
  <2>3. DOMAIN folder' \cap OwnFiles = DOMAIN folder \cap OwnFiles
    BY <2>1
  <2>4. FilesInOrder'
    BY <2>1, <2>3 DEF IInv, FilesInOrder, Before, Running
  <2>5. MetaIsLast' /\ NothingLeftBehind'
    BY <2>1, <2>3 DEF IInv, MetaIsLast, NothingLeftBehind, Idle
  <2>6. Copied'
    BY <2>1, <2>3 DEF IInv, Copied, Running, AttachedAreFit, sql
  <2> QED BY <2>2, <2>4, <2>5, <2>6 DEF IInv
<1>3. CASE OthersRemove
  <2>1. /\ phase = "idle" /\ DOMAIN folder' = {} /\ exists' = FALSE /\ written' = NothingWritten
        /\ UNCHANGED <<shell, tables, sql, files, phase, dir_preexists>>
    BY <1>3 DEF OthersRemove, Idle
  <2>2. TypeOK' /\ SelfIsServer' /\ SavedSelf'
    BY <2>1 DEF IInv, TypeOK, SelfIsServer, SavedSelf, Reference, tables, sql
  <2>3. FilesInOrder' /\ Copied' /\ MetaIsLast' /\ NothingLeftBehind'
    BY <2>1 DEF FilesInOrder, Copied, Running, MetaIsLast, NothingLeftBehind, NothingWritten
  <2> QED BY <2>2, <2>3 DEF IInv
<1> QED BY <1>1, <1>2, <1>3 DEF OthersStep

LEMMA StutterInv == IInv /\ UNCHANGED vars => IInv'
<1> SUFFICES ASSUME IInv, UNCHANGED vars PROVE IInv'
  OBVIOUS
<1> USE DEF vars, tables, sql, finishing
<1>1. TypeOK' /\ SelfIsServer' /\ SavedSelf'
  BY DEF IInv, TypeOK, SelfIsServer, SavedSelf, Reference
<1>2. FilesInOrder' /\ MetaIsLast' /\ NothingLeftBehind'
  BY DEF IInv, FilesInOrder, Running, MetaIsLast, NothingLeftBehind, Idle
<1>3. Copied'
  BY DEF IInv, Copied, Running, AttachedAreFit
<1> QED BY <1>1, <1>2, <1>3 DEF IInv

LEMMA NextInv == IInv /\ [Next]_vars => IInv'
<1> SUFFICES ASSUME IInv, [Next]_vars PROVE IInv'
  OBVIOUS
<1>1. CASE RefuseServers \/ RefuseMetadata \/ RefuseSelf \/ RefuseDatabasesOrFolder
  BY <1>1, StutterInv
     DEF RefuseServers, RefuseMetadata, RefuseSelf, RefuseDatabasesOrFolder, Refused
<1>2. CASE FinishStep
  BY <1>2, WriteInv, EndInv DEF FinishStep
<1> QED BY <1>1, <1>2, EditInv, SqlInv, ShellInv, EndInv, OthersInv, StutterInv DEF Next

-----------------------------------------------------------------------------
(* The invariant that the theorems below follow from. *)
THEOREM Invariance == Spec => []IInv
BY InitInv, NextInv, PTL DEF Spec

(* Every variable keeps to its type, whatever commands, SQL, errors and other
   processes follow one another. *)
THEOREM TypeCorrect == Spec => []TypeOK
<1>1. IInv => TypeOK
  BY DEF IInv
<1> QED BY <1>1, Invariance, PTL

(* With foreign keys on, self names a server of the table or none, also after a
   ROLLBACK of a transaction that changed both. *)
THEOREM SelfStaysServer == Spec => []SelfIsServer
<1>1. IInv => SelfIsServer
  BY DEF IInv
<1> QED BY <1>1, Invariance, PTL

(* Whenever .finish fails or is killed, a .meta file stands beside all other
   files of the snapshot, whole: DqliteSnapshotBuilder writes it last.  Of the
   .meta file itself nothing is said. *)
THEOREM MetaComesLast == Spec => []MetaIsLast
<1>1. IInv => MetaIsLast
  BY DEF IInv
<1> QED BY <1>1, Invariance, PTL

(* What .finish has copied of the attached databases is what they hold, to the
   last byte: the write locks it takes are enough. *)
THEOREM CopiesAreOfOneMoment == Spec => []OneMoment
<1>1. IInv => OneMoment
  BY DEF IInv, Copied, OneMoment, Running, OwnFiles
<1> QED BY <1>1, Invariance, PTL

(* A folder that .finish made itself is whole or has nothing of it after it has
   come back. *)
THEOREM FailureLeavesNothing == Spec => []NothingLeftBehind
<1>1. IInv => NothingLeftBehind
  BY DEF IInv
<1> QED BY <1>1, Invariance, PTL

(* No command removes a file that was there when .finish looked, nor one that
   others add to a folder which existed then. *)
THEOREM OthersFilesStay == Spec => ExistingFilesStay
<1>1. [Next]_vars => [(Idle \/ dir_preexists) /\ OthersFile \in DOMAIN folder /\ ~OthersRemove
                        => (OthersFile \in DOMAIN folder)']_vars
  <2> SUFFICES ASSUME Next, Idle \/ dir_preexists, OthersFile \in DOMAIN folder, ~OthersRemove
               PROVE  OthersFile \in DOMAIN folder'
    OBVIOUS
  <2>1. CASE UNCHANGED folder
    BY <2>1
  <2>2. CASE \E state : Put(state)
    BY <2>2 DEF Put
  <2>3. CASE Cleanup
    BY <2>3 DEF Cleanup, Idle
  <2>4. CASE OthersCreate
    BY <2>4 DEF OthersCreate
  <2>5. CASE EnterShell \/ Abort \/ BeginFinish
    BY <2>1, <2>5 DEF EnterShell, Abort, BeginFinish, finishing
  <2>6. CASE EditStep \/ SqlStep
    BY <2>1, <2>6
       DEF EditStep, Edit, AddServer, RenumberServer, InsertServer, DeleteServer, SetSelf,
           SetTerm, SetIndex, SetTimestamp, UpdateTimestamp, SetMetadata,
           SqlStep, Sql, Begin, Commit, Rollback, ForeignKeysOff, Attach, Detach, finishing
  <2>7. CASE RefuseServers \/ RefuseMetadata \/ RefuseSelf \/ RefuseDatabasesOrFolder
    BY <2>1, <2>7
       DEF RefuseServers, RefuseMetadata, RefuseSelf, RefuseDatabasesOrFolder, Refused,
           vars, finishing
  <2>8. CASE FinishStep
    BY <2>1, <2>2, <2>3, <2>8
       DEF FinishStep, CreateDir, WriteMetadata, WriteCluster, WriteInfo, WriteHeader,
           WriteDatabase, CloseData, WriteMeta, WriteFails, TimestampFails, SelfFails, Finish
  <2>9. CASE Killed
    BY <2>1, <2>2, <2>9 DEF Killed
  <2>10. CASE \E db \in Databases, state \in FileStates : OthersWrite(db, state)
    BY <2>1, <2>10 DEF OthersWrite, finishing
  <2> QED BY <2>4, <2>5, <2>6, <2>7, <2>8, <2>9, <2>10 DEF Next, OthersStep
<1> QED BY <1>1, PTL DEF Spec, ExistingFilesStay
=============================================================================
