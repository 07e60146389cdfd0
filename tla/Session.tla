------------------------------- MODULE Session ------------------------------
(***************************************************************************)
(* One run of the program (src/src/main.rs): where commands come from,     *)
(* which shell is current, which index the VFS serves, and which databases *)
(* are attached to the SQLite connection of the open shell, at which       *)
(* index.  Commands run one after the other; .open and .index detach and   *)
(* attach the databases one by one, and any of these may fail, by          *)
(* themselves or because of the SQL the user ran on the same connection    *)
(* before.                                                                 *)
(***************************************************************************)
EXTENDS Integers, Sequences, FiniteSetsExt

CONSTANTS Names,        \* the databases of the folder, in the order of the VFS
          First, Last,  \* the indexes the VFS serves
          Pin,          \* Pin[n][i]: the index a file of n is pinned to when i is
                        \* selected, 0 where n does not exist (DqliteVfs)
          Asked,        \* the indexes users ask for
          MaxAttached   \* SQLite's limit of attached databases

Index == First..Last
Database == {Names[n] : n \in DOMAIN Names}

(* What DqliteVfs guarantees of the indexes it pins files to; it takes the names
   from a UNION, which names none twice. *)
ASSUME PinAssumption ==
  /\ First \in Nat \ {0} /\ Last \in Nat /\ First <= Last
  /\ Asked \subseteq Nat
  /\ MaxAttached \in Nat
  /\ Names \in Seq(Database)
  /\ \A m, n \in DOMAIN Names : Names[m] = Names[n] => m = n
  /\ Pin \in [Database -> [Index -> {0} \cup Index]]
  /\ \A n \in Database, i \in Index : Pin[n][i] <= i

Latest == -1    \* .open without an index
NoPrompt == -2  \* the prompt of a shell other than open

NoCommand == [type |-> "none", index |-> NoPrompt]

VARIABLES
  source,          \* of the commands: "terminal", "arguments" (-c) or "pipe"
  stage,           \* of exec: "open" the folder, "parse" -c, "run", "ended"
  status,          \* the exit code, once it has ended
  dqlite,          \* Context.dqlite holds a folder
  shell,           \* Context.shell
  loaded,          \* DqliteDirContent holds a VFS
  current_index,   \* DqliteVfs.current_index
  prompt,          \* the index in the prompt of the open shell
  attached,        \* databases attached to its connection: [name, raft_index]
  in_transaction,  \* the user began a transaction on it
  reading,         \* attached databases the transaction has read
  command, phase,  \* the command that runs, and what it is doing
  todo             \* the databases it still has to attach, as positions in Names

connection == <<attached, in_transaction, reading>>
program == <<source, stage, status, dqlite>>
vars == <<program, shell, loaded, current_index, prompt, connection,
          command, phase, todo>>

Idle == stage = "run" /\ command = NoCommand
AttachedNames == {attached[n].name : n \in DOMAIN attached}

(* DqliteVfs::databases at an index. *)
Databases(i) == {n \in DOMAIN Names : Pin[Names[n]][i] # 0}

Init ==
  /\ source \in {"terminal", "arguments", "pipe"}
  /\ stage = "open" /\ status = "none"
  /\ dqlite = FALSE
  /\ shell = "root"
  /\ loaded = FALSE
  /\ current_index = 0
  /\ prompt = NoPrompt
  /\ attached = <<>> /\ in_transaction = FALSE /\ reading = {}
  /\ command = NoCommand /\ phase = "none" /\ todo = {}

-----------------------------------------------------------------------------
(* exec.  LiveOpen has the opening of the folder itself. *)
context == <<shell, loaded, current_index, prompt, connection, command, phase, todo>>

Exit(code) == stage' = "ended" /\ status' = code

OpenFolder ==
  /\ stage = "open"
  /\ dqlite' = TRUE
  /\ stage' = IF source = "arguments" THEN "parse" ELSE "run"
  /\ UNCHANGED <<source, status, context>>

(* The current directory is no dqlite folder: a warning, unless --dir named it. *)
NoMetadata ==
  /\ stage = "open"
  /\ stage' = IF source = "arguments" THEN "parse" ELSE "run"
  /\ UNCHANGED <<source, status, dqlite, context>>

OpenFolderFails ==
  /\ stage = "open"
  /\ Exit("failure")
  /\ UNCHANGED <<source, dqlite, context>>

(* All commands of -c are parsed before the first one runs. *)
ParseArguments ==
  /\ stage = "parse"
  /\ \/ stage' = "run" /\ UNCHANGED status
     \/ Exit("failure")
  /\ UNCHANGED <<source, dqlite, context>>

(* A line that cannot be parsed ends a pipe, and the program as if with success;
   at the terminal it shows an error, like Ctrl-C does. *)
Unparsable ==
  /\ Idle
  /\ \/ source = "terminal" /\ UNCHANGED <<stage, status>>
     \/ source = "pipe" /\ Exit("success")
  /\ UNCHANGED <<source, dqlite, context>>

(* The last command of a batch, or Ctrl-D. *)
EndOfInput ==
  /\ Idle
  /\ Exit("success")
  /\ UNCHANGED <<source, dqlite, context>>

-----------------------------------------------------------------------------
(* Commands are parsed without regard to the shell, which is compared when they
   run. *)
RootCommands == {".config", ".log", ".open", ".quit", ".snapshot", ".status"}

SnapshotCommands == {".abort", ".add-server", ".finish", ".info", ".set-index",
                     ".set-self", ".set-term", ".set-timestamp"}

OpenCommands == {".close", ".databases", ".index"}

Commands == RootCommands \cup SnapshotCommands \cup OpenCommands \cup {"sql", ".help"}

Available(name) ==
  \/ name = ".help"
  \/ name \in RootCommands /\ shell = "root"
  \/ name \in SnapshotCommands /\ shell = "snapshot"
  \/ name \in OpenCommands /\ shell = "open"
  \/ name = "sql" /\ shell # "root"

Runs(name) == Idle /\ Available(name)

(* A command that failed: a batch ends with it, the prompt comes back. *)
Fail ==
  /\ IF source = "terminal" THEN UNCHANGED <<stage, status>> ELSE Exit("failure")
  /\ command' = NoCommand
  /\ phase' = "none"
  /\ todo' = {}

(* A command of another shell. *)
Unavailable ==
  /\ Idle
  /\ \E name \in Commands : ~Available(name)
  /\ Fail
  /\ UNCHANGED <<source, dqlite, shell, loaded, current_index, prompt, connection>>

(* A command that fails before it has changed anything: .open of a folder that
   cannot be read, those that need a folder without one, SQL with an error. *)
Refuse ==
  /\ \/ Runs(".open") /\ ~loaded
     \/ Runs(".log") \/ Runs(".config") \/ Runs(".status")
     \/ Runs("sql") \/ Runs(".finish") \/ Runs(".set-self")
  /\ Fail
  /\ UNCHANGED <<source, dqlite, shell, loaded, current_index, prompt, connection>>

(* .databases asks every attached database for a pragma that those of the
   user's own do not know, and ends with an error there. *)
ListDatabases ==
  /\ Runs(".databases")
  /\ IF \A n \in DOMAIN attached : attached[n].raft_index # 0
     THEN UNCHANGED <<stage, status, command, phase, todo>>
     ELSE Fail
  /\ UNCHANGED <<source, dqlite, shell, loaded, current_index, prompt, connection>>

(* .open: the folder is loaded once, with the newest index selected; another
   index is selected only if the command names one. *)
SelectedBefore == IF loaded THEN current_index ELSE Last

(* MUTANT of OpenOutOfRange: the index is stored before it is checked. *)
OpenUnchecked(i) ==
  /\ Runs(".open")
  /\ dqlite
  /\ i \notin Index
  /\ loaded' = TRUE
  /\ current_index' = i
  /\ Fail
  /\ UNCHANGED <<source, dqlite, shell, prompt, connection>>

OpenOutOfRange(i) ==
  /\ Runs(".open")
  /\ dqlite
  /\ i \notin Index
  /\ loaded' = TRUE
  /\ current_index' = SelectedBefore
  /\ Fail
  /\ UNCHANGED <<source, dqlite, shell, prompt, connection>>

BeginOpen(i) ==
  /\ Runs(".open")
  /\ dqlite
  /\ i \in Index \cup {Latest}
  /\ loaded' = TRUE
  /\ current_index' = IF i = Latest THEN SelectedBefore ELSE i
  /\ command' = [type |-> "open", index |-> i]
  /\ phase' = "attach"
  /\ todo' = Databases(current_index')
  /\ UNCHANGED <<program, shell, prompt, connection>>

(* .index: the index is selected first, then every database of the connection
   is detached and those that exist at the index are attached. *)
IndexOutOfRange(i) ==
  /\ Runs(".index")
  /\ i \notin Index
  /\ Fail
  /\ UNCHANGED <<source, dqlite, shell, loaded, current_index, prompt, connection>>

(* MUTANT of BeginIndex: only the databases that are missing are attached. *)
BeginIndexMissing(i) ==
  /\ Runs(".index")
  /\ i \in Index
  /\ current_index' = i
  /\ command' = [type |-> "index", index |-> i]
  /\ phase' = "attach"
  /\ todo' = {n \in Databases(i) : Names[n] \notin AttachedNames}
  /\ UNCHANGED <<program, shell, loaded, prompt, connection>>

BeginIndex(i) ==
  /\ Runs(".index")
  /\ i \in Index
  /\ current_index' = i
  /\ command' = [type |-> "index", index |-> i]
  /\ phase' = "detach"
  /\ todo' = Databases(i)
  /\ UNCHANGED <<program, shell, loaded, prompt, connection>>

(* MUTANT of DetachNext: as if SQLite detached what a transaction reads. *)
DetachAny ==
  /\ phase = "detach"
  /\ attached # <<>>
  /\ attached' = Tail(attached)
  /\ UNCHANGED <<program, shell, loaded, current_index, prompt,
                 in_transaction, reading, command, phase, todo>>

DetachNext ==
  /\ phase = "detach"
  /\ attached # <<>>
  /\ Head(attached).name \notin reading
  /\ attached' = Tail(attached)
  /\ UNCHANGED <<program, shell, loaded, current_index, prompt,
                 in_transaction, reading, command, phase, todo>>

(* MUTANT of DetachFails: the lock is waited for. *)
DetachWaits ==
  /\ phase = "detach"
  /\ attached # <<>>
  /\ Head(attached).name \in reading
  /\ UNCHANGED vars

(* A database the user's transaction has read is locked. *)
DetachFails ==
  /\ phase = "detach"
  /\ attached # <<>>
  /\ Head(attached).name \in reading
  /\ Fail
  /\ UNCHANGED <<source, dqlite, shell, loaded, current_index, prompt, connection>>

DetachEnd ==
  /\ phase = "detach"
  /\ attached = <<>>
  /\ phase' = "attach"
  /\ UNCHANGED <<program, shell, loaded, current_index, prompt, connection,
                 command, todo>>

(* They are attached in the order of the VFS. *)
NextToAttach == Min(todo)

Pinned(name) == [name |-> name, raft_index |-> Pin[name][current_index]]

(* MUTANT of AttachNext: SQLite's limit is not an error. *)
AttachWhatFits ==
  /\ phase = "attach"
  /\ todo # {}
  /\ attached' = IF Len(attached) < MaxAttached
                 THEN Append(attached, Pinned(Names[NextToAttach]))
                 ELSE attached
  /\ todo' = todo \ {NextToAttach}
  /\ UNCHANGED <<program, shell, loaded, current_index, prompt,
                 in_transaction, reading, command, phase>>

AttachNext ==
  /\ phase = "attach"
  /\ todo # {}
  /\ Len(attached) < MaxAttached
  /\ attached' = Append(attached, Pinned(Names[NextToAttach]))
  /\ todo' = todo \ {NextToAttach}
  /\ UNCHANGED <<program, shell, loaded, current_index, prompt,
                 in_transaction, reading, command, phase>>

(* MUTANT of AttachFails: the connection of a failed .open is not dropped. *)
AttachFailsOpen ==
  /\ phase = "attach"
  /\ todo # {}
  /\ Fail
  /\ UNCHANGED <<source, dqlite, shell, loaded, current_index, prompt, connection>>

(* Too many databases, or one whose schema SQLite cannot read.  A failed .open
   drops its connection, a failed .index leaves the shell as it is. *)
AttachFails ==
  /\ phase = "attach"
  /\ todo # {}
  /\ Fail
  /\ attached' = IF command.type = "open" THEN <<>> ELSE attached
  /\ UNCHANGED <<source, dqlite, shell, loaded, current_index, prompt, in_transaction, reading>>

Succeed ==
  /\ phase = "attach"
  /\ todo = {}
  /\ shell' = "open"
  /\ prompt' = command.index
  /\ command' = NoCommand
  /\ phase' = "none"
  /\ UNCHANGED <<program, loaded, current_index, connection, todo>>

(* .close: the shell is dropped with its connection, the VFS stays. *)
Close ==
  /\ Runs(".close")
  /\ shell' = "root"
  /\ prompt' = NoPrompt
  /\ attached' = <<>> /\ in_transaction' = FALSE /\ reading' = {}
  /\ UNCHANGED <<program, loaded, current_index, command, phase, todo>>

(* .snapshot, and .abort or .finish. *)
EnterSnapshot ==
  /\ Runs(".snapshot")
  /\ shell' = "snapshot"
  /\ UNCHANGED <<program, loaded, current_index, prompt, connection,
                 command, phase, todo>>

LeaveSnapshot ==
  /\ Runs(".abort") \/ Runs(".finish")
  /\ shell' = "root"
  /\ UNCHANGED <<program, loaded, current_index, prompt, connection,
                 command, phase, todo>>

(* .quit is a command of the root shell only. *)
Quit ==
  /\ Runs(".quit")
  /\ Exit("success")
  /\ UNCHANGED <<source, dqlite, context>>

-----------------------------------------------------------------------------
(* SQL in the open shell: the authorizer allows everything. *)
Sql == Runs("sql") /\ shell = "open"

SqlUnchanged == UNCHANGED <<program, shell, loaded, current_index, prompt,
                            command, phase, todo>>

BeginTransaction ==
  /\ Sql
  /\ ~in_transaction
  /\ in_transaction' = TRUE
  /\ SqlUnchanged
  /\ UNCHANGED <<attached, reading>>

EndTransaction ==
  /\ Sql
  /\ in_transaction
  /\ in_transaction' = FALSE
  /\ reading' = {}
  /\ SqlUnchanged
  /\ UNCHANGED attached

(* SELECT: the locks are held to the end of the transaction, if there is one. *)
Read(name) ==
  /\ Sql
  /\ name \in AttachedNames
  /\ reading' = IF in_transaction THEN reading \cup {name} ELSE reading
  /\ SqlUnchanged
  /\ UNCHANGED <<attached, in_transaction>>

(* ATTACH of a database of the user's own, under a name that is free. *)
Attach(name) ==
  /\ Sql
  /\ name \notin AttachedNames
  /\ Len(attached) < MaxAttached
  /\ attached' = Append(attached, [name |-> name, raft_index |-> 0])
  /\ SqlUnchanged
  /\ UNCHANGED <<in_transaction, reading>>

Detach(name) ==
  /\ Sql
  /\ name \notin reading
  /\ \E n \in DOMAIN attached :
       /\ attached[n].name = name
       /\ attached' = SubSeq(attached, 1, n - 1) \o SubSeq(attached, n + 1, Len(attached))
  /\ SqlUnchanged
  /\ UNCHANGED <<in_transaction, reading>>

-----------------------------------------------------------------------------
CommandStep ==
  \/ DetachNext \/ DetachFails \/ DetachEnd
  \/ AttachNext \/ AttachFails \/ Succeed

Ended == stage = "ended" /\ UNCHANGED vars

Next ==
  \/ CommandStep
  \/ \E i \in Asked : OpenOutOfRange(i) \/ IndexOutOfRange(i) \/ BeginIndex(i)
  \/ \E i \in Asked \cup {Latest} : BeginOpen(i)
  \/ OpenFolder \/ NoMetadata \/ OpenFolderFails \/ ParseArguments
  \/ Unparsable \/ EndOfInput
  \/ Unavailable \/ Refuse \/ ListDatabases \/ Close \/ EnterSnapshot \/ LeaveSnapshot \/ Quit
  \/ BeginTransaction \/ EndTransaction
  \/ \E name \in Database : Read(name) \/ Attach(name) \/ Detach(name)
  \/ Ended

Spec == Init /\ [][Next]_vars

(* A command that runs goes on by itself. *)
FairSpec == Spec /\ WF_vars(CommandStep)

-----------------------------------------------------------------------------
(* Every variable keeps to its type, and only the shell that a command is
   opening or that is open has a connection. *)
TypeOK ==
  /\ source \in {"terminal", "arguments", "pipe"}
  /\ stage \in {"open", "parse", "run", "ended"}
  /\ status \in IF stage = "ended" THEN {"success", "failure"} ELSE {"none"}
  /\ dqlite \in BOOLEAN /\ in_transaction \in BOOLEAN
  /\ shell \in {"root", "snapshot", "open"}
  /\ loaded \in BOOLEAN
  /\ current_index \in IF loaded THEN Index ELSE {0}
  /\ prompt \in Index \cup {Latest, NoPrompt}
  /\ attached \in Seq([name : Database, raft_index : {0} \cup Index])
  /\ reading \subseteq Database
  /\ command \in [type : {"none", "open", "index"}, index : Index \cup {Latest, NoPrompt}]
  /\ phase \in {"none", "detach", "attach"}
  /\ todo \subseteq DOMAIN Names

Shown == {attached[n] : n \in {m \in DOMAIN attached : attached[m].raft_index # 0}}

At(i) == \A db \in Shown : db.raft_index = Pin[db.name][i]

(* The connection never outlives its shell: whatever failed and whatever the
   user left open, outside the open shell no database file is open, no name is
   attached twice and no lock is left. *)
NoFileIsLeft ==
  /\ shell # "open" /\ command.type = "none" => attached = <<>> /\ ~in_transaction
  /\ Cardinality(AttachedNames) = Len(attached)
  /\ reading \subseteq AttachedNames
  /\ ~in_transaction => reading = {}

(* However .index fails, the databases that stay attached are all of one index:
   a query never joins two points in time. *)
OneIndexAtATime == \E i \in Index : At(i)

(* A command that succeeds shows every database of the selected index, and the
   prompt names that index if the command did. *)
SuccessIsComplete ==
  [][Succeed =>
       /\ {db.name : db \in Shown'} = {n \in Database : Pin[n][current_index'] # 0}
       /\ \A db \in Shown' : db.raft_index = Pin[db.name][current_index']
       /\ Len(attached') = Cardinality(Shown')
       /\ command.index # Latest => prompt' = current_index']_vars

(* Reads are repeatable in a transaction of the user: as long as it lasts no
   command moves or takes away a database it has read. *)
TransactionsKeepTheirIndex ==
  [][\A name \in reading \cap reading' :
       \E db \in {attached[n] : n \in DOMAIN attached}
                  \cap {attached'[n] : n \in DOMAIN attached'} : db.name = name]_vars

(* .open without an index opens the newest state. *)
LatestIsNewest == Idle /\ shell = "open" /\ prompt = Latest => At(Last)

(* Every command comes back with a result. *)
CommandsEnd == (command.type # "none") ~> (command.type = "none")
=============================================================================
