---------------------------- MODULE SnapshotShell ---------------------------
(***************************************************************************)
(* The snapshot shell (src/src/command/snapshot/): an in-memory SQLite     *)
(* database of servers and raft metadata, edited by commands and by the    *)
(* user's SQL, the databases the user attached, and .finish, which checks  *)
(* all of it and writes a dqlite folder file by file.  Other processes use *)
(* the attached databases and the target folder meanwhile.                 *)
(***************************************************************************)
EXTENDS Integers, FiniteSets

CONSTANTS Ids,         \* server ids
          Values,      \* Values[f]: what the metadata column f may be set to
          Now,         \* the timestamp a new shell starts with
          MaxTimestamp,  \* the last one UtcDateTime can hold
          Databases,   \* files the user may attach, by schema name
          UsableNames, \* those whose name is letters and digits only
          FileStates   \* what a database may hold

ASSUME SnapshotAssumption ==
  /\ Ids \subseteq Nat
  /\ DOMAIN Values = {"raft_term", "raft_index", "timestamp"}
  /\ \A f \in DOMAIN Values : Values[f] \subseteq Int
  /\ 1 \in Values["raft_term"] \cap Values["raft_index"]
  /\ Now \in Values["timestamp"] /\ Now \in 0..MaxTimestamp
  /\ UsableNames \subseteq Databases
  /\ FileStates \subseteq
       [journal : {"none", "wal", "rollback"}, page_size : Nat, content : Nat]

NoServer == -1  \* NULL

(* The files of a snapshot, and one of somebody else. *)
OwnFiles == {"metadata1", "cluster.yaml", "info.yaml", "snapshot", "snapshot.meta"}
OthersFile == "other"

VARIABLES
  shell,           \* "root", "snapshot", or "killed"
  servers,         \* the ids in table servers
  metadata,        \* the row of table metadata
  foreign_keys,    \* the pragma
  in_transaction,  \* the user began a transaction
  saved,           \* the tables a ROLLBACK restores
  attached,        \* attached databases
  files,           \* their state on disk
  exists, folder,  \* the target folder: file -> "partial" or "whole"
  written,         \* what the files of the folder hold
  phase,           \* what .finish is about to do
  dir_preexists    \* .finish found the folder, empty

tables == <<servers, metadata>>
sql == <<foreign_keys, in_transaction, saved, attached>>
finishing == <<exists, folder, written, phase, dir_preexists>>
vars == <<shell, tables, sql, files, finishing>>

Idle == phase = "idle"
InShell == shell = "snapshot" /\ Idle

NewMetadata ==
  [raft_term |-> 1, raft_index |-> 1, timestamp |-> Now, self |-> NoServer]
NotSaved == [servers |-> {}, metadata |-> NewMetadata]
NothingWritten ==
  [self_found |-> FALSE, count |-> 0, data |-> [db \in {} |-> 0]]

Init ==
  /\ shell = "root"
  /\ servers = {} /\ metadata = NewMetadata
  /\ foreign_keys = TRUE /\ in_transaction = FALSE /\ saved = NotSaved
  /\ attached = {}
  /\ files \in [Databases -> FileStates]
  /\ exists \in BOOLEAN
  /\ folder \in {[f \in {} |-> ""]} \cup
                IF exists THEN {[f \in {OthersFile} |-> "whole"]} ELSE {}
  /\ written = NothingWritten
  /\ phase = "idle"
  /\ dir_preexists = FALSE

-----------------------------------------------------------------------------
(* .snapshot, and the end of the shell with its connection. *)
EnterShell ==
  /\ shell = "root"
  /\ shell' = "snapshot"
  /\ UNCHANGED <<tables, sql, files, finishing>>

(* MUTANT of DropConnection: the databases stay attached. *)
DropTables ==
  /\ servers' = {} /\ metadata' = NewMetadata
  /\ foreign_keys' = TRUE /\ in_transaction' = FALSE /\ saved' = NotSaved
  /\ UNCHANGED attached

DropConnection ==
  /\ servers' = {} /\ metadata' = NewMetadata
  /\ foreign_keys' = TRUE /\ in_transaction' = FALSE /\ saved' = NotSaved
  /\ attached' = {}

Abort ==
  /\ InShell
  /\ shell' = "root"
  /\ DropConnection
  /\ UNCHANGED <<files, finishing>>

-----------------------------------------------------------------------------
(* The tables, changed by commands or by SQL; the authorizer denies changes to
   the schema and to the number of metadata rows. *)
Edit ==
  /\ InShell
  /\ UNCHANGED <<shell, sql, files, finishing>>

Reference(id) == id \in servers \cup {NoServer}

(* .add-server, with an id that is free, given or generated; an id or address in
   use changes nothing.  It runs in a transaction of its own, which one of the
   user's prevents. *)
AddServer(id, set_self) ==
  /\ ~in_transaction
  /\ id \notin servers
  /\ servers' = servers \cup {id}
  /\ metadata' = IF set_self THEN [metadata EXCEPT !.self = id] ELSE metadata
  /\ Edit

InsertServer(id) ==
  /\ id \notin servers
  /\ servers' = servers \cup {id}
  /\ UNCHANGED metadata
  /\ Edit

(* MUTANT of DeleteServer: the reference to the server stays. *)
DeleteServerOnly(id) ==
  /\ id \in servers
  /\ servers' = servers \ {id}
  /\ UNCHANGED metadata
  /\ Edit

(* ON DELETE SET NULL. *)
DeleteServer(id) ==
  /\ id \in servers
  /\ servers' = servers \ {id}
  /\ metadata' = IF foreign_keys /\ metadata.self = id
                 THEN [metadata EXCEPT !.self = NoServer] ELSE metadata
  /\ Edit

(* ON UPDATE RESTRICT. *)
RenumberServer(id, new) ==
  /\ id \in servers
  /\ new \notin servers
  /\ ~(foreign_keys /\ metadata.self = id)
  /\ servers' = (servers \ {id}) \cup {new}
  /\ UNCHANGED metadata
  /\ Edit

SetSelf(id) ==
  /\ foreign_keys => Reference(id)
  /\ metadata' = [metadata EXCEPT !.self = id]
  /\ UNCHANGED servers
  /\ Edit

(* UPDATE of a column, which no constraint is on. *)
SetMetadata(field, value) ==
  /\ metadata' = [metadata EXCEPT ![field] = value]
  /\ UNCHANGED servers
  /\ Edit

SetTerm(term) == SetMetadata("raft_term", term)
SetIndex(index) == SetMetadata("raft_index", index)

(* The command parses a date, SQL may store any integer. *)
SetTimestamp(timestamp) == timestamp <= MaxTimestamp /\ SetMetadata("timestamp", timestamp)
UpdateTimestamp(timestamp) == SetMetadata("timestamp", timestamp)

-----------------------------------------------------------------------------
Sql == InShell /\ UNCHANGED <<shell, files, finishing>>

(* Bound: no transaction while the folder holds what a .finish left there;
   neither has an effect on the other. *)
Begin ==
  /\ Sql
  /\ ~in_transaction
  /\ DOMAIN folder \cap OwnFiles = {}
  /\ in_transaction' = TRUE
  /\ saved' = [servers |-> servers, metadata |-> metadata]
  /\ UNCHANGED <<tables, foreign_keys, attached>>

Commit ==
  /\ Sql
  /\ in_transaction
  /\ in_transaction' = FALSE /\ saved' = NotSaved
  /\ UNCHANGED <<tables, foreign_keys, attached>>

Rollback ==
  /\ Sql
  /\ in_transaction
  /\ servers' = saved.servers /\ metadata' = saved.metadata
  /\ in_transaction' = FALSE /\ saved' = NotSaved
  /\ UNCHANGED <<foreign_keys, attached>>

(* The authorizer denies the pragma on raft, not on another schema, and SQLite
   ignores it in a transaction.  Turning it on again mends no row. *)
ForeignKeysOff ==
  /\ Sql
  /\ ~in_transaction
  /\ foreign_keys' = FALSE
  /\ UNCHANGED <<tables, in_transaction, saved, attached>>

Attach(db) ==
  /\ Sql
  /\ attached' = attached \cup {db}
  /\ UNCHANGED <<tables, foreign_keys, in_transaction, saved>>

Detach(db) ==
  /\ Sql
  /\ attached' = attached \ {db}
  /\ UNCHANGED <<tables, foreign_keys, in_transaction, saved>>

-----------------------------------------------------------------------------
(* .finish.  BEGIN IMMEDIATE takes the write lock of every attached database
   and fails in a transaction of the user. *)
Locked(db) == ~Idle /\ db \in attached

AttachedAreFit ==
  /\ attached \subseteq UsableNames
  /\ \A db \in attached : files[db].journal # "rollback"
  /\ \A db, other \in attached : files[db].page_size = files[other].page_size

FolderIsFree == folder = [f \in {} |-> ""]

FinishCommand == InShell /\ ~in_transaction

(* Refusals change nothing: the transaction is dropped. *)
Refused == UNCHANGED vars

RefuseServers == FinishCommand /\ servers = {} /\ Refused

(* RaftMetadata::read_from cannot make a date of every integer. *)
RefuseMetadata ==
  /\ FinishCommand
  /\ servers # {}
  /\ metadata.timestamp > MaxTimestamp
  /\ Refused

RefuseSelf ==
  /\ FinishCommand
  /\ servers # {}
  /\ metadata.self = NoServer
  /\ Refused

RefuseDatabasesOrFolder ==
  /\ FinishCommand
  /\ ~AttachedAreFit \/ ~FolderIsFree
  /\ Refused

BeginFinish ==
  /\ FinishCommand
  /\ servers # {}
  /\ metadata.timestamp <= MaxTimestamp
  /\ metadata.self # NoServer
  /\ AttachedAreFit
  /\ FolderIsFree
  /\ dir_preexists' = exists
  /\ phase' = "create_dir"
  /\ written' = NothingWritten
  /\ UNCHANGED <<shell, tables, sql, files, exists, folder>>

CreateDir ==
  /\ phase = "create_dir"
  /\ exists' = TRUE
  /\ phase' = "metadata1"
  /\ UNCHANGED <<shell, tables, sql, files, folder, written, dir_preexists>>

(* The file .finish writes in a phase is named like the phase. *)
Put(state) ==
  folder' = [f \in DOMAIN folder \cup {phase} |-> IF f = phase THEN state ELSE folder[f]]

Writing == UNCHANGED <<shell, tables, sql, files, exists, dir_preexists>>

WriteMetadata ==
  /\ phase = "metadata1"
  /\ Put("whole")
  /\ phase' = "cluster.yaml"
  /\ UNCHANGED written
  /\ Writing

(* The snapshot's name holds its timestamp, in milliseconds since 1970. *)
WriteCluster ==
  /\ phase = "cluster.yaml"
  /\ metadata.timestamp >= 0
  /\ Put("whole")
  /\ UNCHANGED written
  /\ phase' = "info.yaml"
  /\ Writing

WriteInfo ==
  /\ phase = "info.yaml"
  /\ metadata.self \in servers
  /\ Put("whole")
  /\ written' = [written EXCEPT !.self_found = TRUE]
  /\ phase' = "snapshot"
  /\ Writing

WriteHeader ==
  /\ phase = "snapshot"
  /\ "snapshot" \notin DOMAIN folder
  /\ Put("partial")
  /\ written' = [written EXCEPT !.count = Cardinality(attached)]
  /\ UNCHANGED phase
  /\ Writing

WriteDatabase(db) ==
  /\ phase = "snapshot"
  /\ "snapshot" \in DOMAIN folder
  /\ db \in attached \ DOMAIN written.data
  /\ written' = [written EXCEPT !.data =
                   [d \in DOMAIN @ \cup {db} |-> IF d = db THEN files[db] ELSE @[d]]]
  /\ UNCHANGED <<folder, phase>>
  /\ Writing

(* MUTANT of CloseData: the metadata is written after the first database. *)
CloseDataEarly ==
  /\ phase = "snapshot"
  /\ "snapshot" \in DOMAIN folder
  /\ Put("whole")
  /\ phase' = "snapshot.meta"
  /\ UNCHANGED written
  /\ Writing

CloseData ==
  /\ phase = "snapshot"
  /\ "snapshot" \in DOMAIN folder
  /\ DOMAIN written.data = attached
  /\ Put("whole")
  /\ phase' = "snapshot.meta"
  /\ UNCHANGED written
  /\ Writing

WriteMeta ==
  /\ phase = "snapshot.meta"
  /\ Put("whole")
  /\ phase' = "rollback"
  /\ UNCHANGED written
  /\ Writing

(* A file system error leaves the file of the phase missing or incomplete. *)
WriteFails ==
  /\ phase \in OwnFiles \cup {"create_dir"}
  /\ \/ UNCHANGED folder
     \/ phase \in OwnFiles /\ Put("partial")
  /\ phase' = "cleanup"
  /\ UNCHANGED written
  /\ Writing

TimestampFails ==
  /\ phase = "cluster.yaml"
  /\ metadata.timestamp < 0
  /\ phase' = "cleanup"
  /\ UNCHANGED <<folder, written>>
  /\ Writing

SelfFails ==
  /\ phase = "info.yaml"
  /\ metadata.self \notin servers
  /\ phase' = "cleanup"
  /\ UNCHANGED <<folder, written>>
  /\ Writing

(* MUTANTS of Cleanup: the folder is always removed, or never. *)
CleanupAlways ==
  /\ phase = "cleanup"
  /\ phase' = "idle"
  /\ exists' = FALSE
  /\ folder' = [f \in {} |-> ""]
  /\ written' = NothingWritten
  /\ UNCHANGED <<shell, tables, sql, files, dir_preexists>>

CleanupNever ==
  /\ phase = "cleanup"
  /\ phase' = "idle"
  /\ UNCHANGED <<shell, tables, sql, files, exists, folder, written, dir_preexists>>

(* remove_dir_all, for a folder that did not exist; it is assumed to succeed.
   The error is returned and the transaction dropped. *)
Cleanup ==
  /\ phase = "cleanup"
  /\ phase' = "idle"
  /\ IF dir_preexists
     THEN UNCHANGED <<exists, folder, written>>
     ELSE /\ exists' = FALSE
          /\ folder' = [f \in {} |-> ""]
          /\ written' = NothingWritten
  /\ UNCHANGED <<shell, tables, sql, files, dir_preexists>>

Finish ==
  /\ phase = "rollback"
  /\ phase' = "idle"
  /\ shell' = "root"
  /\ DropConnection
  /\ UNCHANGED <<files, exists, folder, written, dir_preexists>>

FinishStep ==
  \/ CreateDir \/ WriteMetadata \/ WriteCluster \/ WriteInfo
  \/ WriteHeader \/ (\E db \in attached : WriteDatabase(db)) \/ CloseData
  \/ WriteMeta \/ WriteFails \/ TimestampFails \/ SelfFails
  \/ Cleanup \/ Finish

-----------------------------------------------------------------------------
(* MUTANT of OthersWrite: the transaction of .finish does not lock. *)
OthersWriteUnlocked(db, state) ==
  /\ files' = [files EXCEPT ![db] = state]
  /\ UNCHANGED <<shell, tables, sql, finishing>>

(* Another process, or the user before .finish, writes to a database. *)
OthersWrite(db, state) ==
  /\ ~Locked(db)
  /\ files' = [files EXCEPT ![db] = state]
  /\ UNCHANGED <<shell, tables, sql, finishing>>

(* Somebody else makes the folder, or a file in it, at any time. *)
OthersCreate ==
  /\ exists' = TRUE
  /\ folder' \in {folder,
                  [f \in DOMAIN folder \cup {OthersFile} |->
                     IF f = OthersFile THEN "whole" ELSE folder[f]]}
  /\ UNCHANGED <<shell, tables, sql, files, written, phase, dir_preexists>>

(* The user removes the folder before the next attempt. *)
OthersRemove ==
  /\ Idle
  /\ exists' = FALSE
  /\ folder' = [f \in {} |-> ""]
  /\ written' = NothingWritten
  /\ UNCHANGED <<shell, tables, sql, files, phase, dir_preexists>>

(* The program is killed in .finish; a file may be left incomplete. *)
Killed ==
  /\ ~Idle
  /\ shell' = "killed"
  /\ phase' = "idle"
  /\ DropConnection
  /\ \/ UNCHANGED folder
     \/ phase \in OwnFiles /\ Put("partial")
  /\ UNCHANGED <<files, exists, written, dir_preexists>>

-----------------------------------------------------------------------------
EditStep ==
  \/ \E id \in Ids, set_self \in BOOLEAN : AddServer(id, set_self)
  \/ \E id, new \in Ids : RenumberServer(id, new)
  \/ \E id \in Ids : InsertServer(id) \/ DeleteServer(id)
  \/ \E id \in Ids \cup {NoServer} : SetSelf(id)
  \/ \E term \in Values["raft_term"] : SetTerm(term)
  \/ \E index \in Values["raft_index"] : SetIndex(index)
  \/ \E t \in Values["timestamp"] : SetTimestamp(t) \/ UpdateTimestamp(t)

SqlStep ==
  \/ Begin \/ Commit \/ Rollback \/ ForeignKeysOff
  \/ \E db \in Databases : Attach(db) \/ Detach(db)

OthersStep ==
  \/ \E db \in Databases, state \in FileStates : OthersWrite(db, state)
  \/ OthersCreate \/ OthersRemove

Next ==
  \/ EnterShell \/ Abort \/ EditStep \/ SqlStep
  \/ RefuseServers \/ RefuseMetadata \/ RefuseSelf \/ RefuseDatabasesOrFolder \/ BeginFinish
  \/ FinishStep \/ OthersStep \/ Killed

Spec == Init /\ [][Next]_vars

-----------------------------------------------------------------------------
Metadata == [raft_term : Values["raft_term"], raft_index : Values["raft_index"],
             timestamp : Values["timestamp"], self : Ids \cup {NoServer}]

(* Every variable keeps to its type, and outside the shell nothing is left of
   its connection. *)
TypeOK ==
  /\ shell # "snapshot" => attached = {} /\ servers = {} /\ ~in_transaction
  /\ shell \in {"root", "snapshot", "killed"}
  /\ servers \subseteq Ids /\ saved.servers \subseteq Ids
  /\ metadata \in Metadata /\ saved.metadata \in Metadata
  /\ foreign_keys \in BOOLEAN /\ in_transaction \in BOOLEAN
  /\ attached \subseteq Databases
  /\ files \in [Databases -> FileStates]
  /\ exists \in BOOLEAN /\ dir_preexists \in BOOLEAN
  /\ DOMAIN folder \subseteq OwnFiles \cup {OthersFile}
  /\ phase \in OwnFiles \cup {"idle", "create_dir", "rollback", "cleanup"}

(* As long as foreign keys are on, self is a server of the table: through
   deletions, renumbering, and the ROLLBACK of transactions that changed both. *)
SelfIsServer == foreign_keys => Reference(metadata.self)

(* A snapshot is found by its .meta file.  Whenever .finish fails or the program
   is killed, a .meta file, which may itself be cut short, stands beside all the
   other files, and these are complete, with every database the header counts
   and with a self that is one of the servers. *)
MetaIsLast ==
  "snapshot.meta" \in DOMAIN folder =>
    /\ \A f \in OwnFiles \ {"snapshot.meta"} :
         f \in DOMAIN folder /\ folder[f] = "whole"
    /\ Cardinality(DOMAIN written.data) = written.count
    /\ written.self_found

(* The databases in a snapshot are all of one moment, the one .finish checked:
   none is written to between the check and the last byte. *)
OneMoment ==
  phase \in OwnFiles \cup {"rollback"} =>
    /\ AttachedAreFit
    /\ \A db \in DOMAIN written.data : written.data[db] = files[db]

(* A .finish that failed leaves nothing behind in a folder it has made itself. *)
NothingLeftBehind ==
  shell # "killed" /\ Idle /\ ~dir_preexists =>
    DOMAIN folder \cap OwnFiles \in {{}, OwnFiles}

(* No command touches a file that was in the folder when .finish looked, nor
   one added later to a folder that existed then. *)
ExistingFilesStay ==
  [][(Idle \/ dir_preexists) /\ OthersFile \in DOMAIN folder /\ ~OthersRemove
       => (OthersFile \in DOMAIN folder)']_vars
=============================================================================
