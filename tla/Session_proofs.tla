---------------------------- MODULE Session_proofs ---------------------------
(***************************************************************************)
(* Proofs about Session, for any databases, indexes and limit: which       *)
(* databases the connection has attached, and at which index, whatever     *)
(* commands, errors and SQL of the user follow one another.                *)
(***************************************************************************)
EXTENDS Session, TLAPS, FiniteSetTheorems, SequenceTheorems,
        WellFoundedInduction

-----------------------------------------------------------------------------
(* Which command runs in which shell, and what it has selected. *)
Flow ==
  /\ command.type = "none" <=> phase = "none"
  /\ command.type = "none" => command = NoCommand /\ todo = {}
  /\ command.type # "none" => stage = "run"
  /\ command.type = "open" => shell = "root" /\ phase = "attach"
  /\ command.type = "index" => shell = "open"
  /\ command.type # "none" \/ shell = "open" => loaded
  /\ command.type # "none" /\ command.index # Latest => command.index = current_index

(* Locks and names: what is read is attached, once, and only in a transaction. *)
Connected ==
  /\ shell # "open" => ~in_transaction
  /\ shell # "open" /\ command.type = "none" => attached = <<>>
  /\ \A m, n \in DOMAIN attached : attached[m].name = attached[n].name => m = n
  /\ reading \subseteq AttachedNames
  /\ ~in_transaction => reading = {}

(* While databases are detached all of the index are still to do; while they are
   attached, all that are there are of the selected index, and the others are
   still to do. *)
Attaching ==
  /\ phase = "detach" => todo = Databases(current_index)
  /\ phase = "attach" =>
       /\ reading = {}
       /\ \A db \in Range(attached) :
            /\ db.raft_index = Pin[db.name][current_index]
            /\ db.raft_index # 0
       /\ todo = {n \in Databases(current_index) : Names[n] \notin AttachedNames}

IInv == TypeOK /\ Flow /\ Connected /\ OneIndexAtATime /\ Attaching

-----------------------------------------------------------------------------
(* Minima and sequences. *)
Above == {ss \in Nat \X Nat : ss[1] < ss[2]}

(* What is attached next is one of those still to do. *)
LEMMA MinExists ==
  ASSUME NEW S, S \subseteq Nat, S # {}
  PROVE  Min(S) \in S
<1>1. IsWellFoundedOn(Above, Nat)
  BY NatLessThanWellFounded DEF OpToRel, Above
<1>2. PICK m \in S : \A x \in S : <<x, m>> \notin Above
  BY <1>1, WFMin
<1>3. ASSUME NEW x \in S PROVE m <= x
  <2>1. <<x, m>> \notin Above /\ x \in Nat /\ m \in Nat
    BY <1>2
  <2>2. ~(x < m)
    BY <2>1 DEF Above
  <2> QED BY <2>1, <2>2
<1> QED BY <1>3 DEF Min

(* Attached == [name : Database, raft_index : ...], a sequence of which names no
   database twice has as many names as elements. *)
Entry == [name : Database, raft_index : {0} \cup Index]

Distinct(s) == \A m, n \in DOMAIN s : s[m].name = s[n].name => m = n

NamesOf(s) == {db.name : db \in Range(s)}

LEMMA NamesAreCounted ==
  ASSUME NEW s \in Seq(Entry), Distinct(s)
  PROVE  /\ Cardinality(NamesOf(s)) = Len(s)
         /\ Cardinality(Range(s)) = Len(s)
<1>1. DOMAIN s = 1..Len(s) /\ Len(s) \in Nat
  OBVIOUS
<1>2. Cardinality(NamesOf(s)) = Len(s)
  <2> DEFINE f == [n \in 1..Len(s) |-> s[n].name]
  <2>1. f \in Bijection(1..Len(s), NamesOf(s))
    BY <1>1 DEF Bijection, Injection, Surjection, IsInjective, Distinct, NamesOf, Range
  <2> QED BY <1>1, <2>1, FS_CountingElements DEF ExistsBijection
<1>3. Cardinality(Range(s)) = Len(s)
  <2>1. s \in Bijection(1..Len(s), Range(s))
    BY <1>1 DEF Bijection, Injection, Surjection, IsInjective, Distinct, Range
  <2> QED BY <1>1, <2>1, FS_CountingElements DEF ExistsBijection
<1> QED BY <1>2, <1>3

LEMMA AppendFacts ==
  ASSUME NEW s \in Seq(Entry), Distinct(s),
         NEW db \in Entry, db.name \notin NamesOf(s)
  PROVE  /\ Append(s, db) \in Seq(Entry)
         /\ Distinct(Append(s, db))
         /\ Range(Append(s, db)) = Range(s) \cup {db}
<1> DEFINE t == Append(s, db)
<1>1. /\ t \in Seq(Entry)
      /\ DOMAIN s = 1..Len(s) /\ DOMAIN t = 1..(Len(s) + 1) /\ Len(s) \in Nat
      /\ \A n \in 1..Len(s) : t[n] = s[n]
      /\ t[Len(s) + 1] = db
  OBVIOUS
<1> HIDE DEF t
<1>2. \A n \in DOMAIN s : s[n].name # db.name
  BY DEF NamesOf, Range
<1>3. Distinct(t)
  BY <1>1, <1>2 DEF Distinct
<1>4. Range(t) = Range(s) \cup {db}
  BY <1>1 DEF Range
<1> QED BY <1>1, <1>3, <1>4 DEF t

LEMMA TailFacts ==
  ASSUME NEW s \in Seq(Entry), Distinct(s), s # <<>>
  PROVE  /\ Tail(s) \in Seq(Entry)
         /\ Distinct(Tail(s))
         /\ Range(Tail(s)) = {db \in Range(s) : db.name # Head(s).name}
<1> DEFINE t == Tail(s)
<1>1. /\ t \in Seq(Entry)
      /\ DOMAIN s = 1..Len(s) /\ DOMAIN t = 1..(Len(s) - 1) /\ Len(s) \in Nat \ {0}
      /\ \A n \in 1..(Len(s) - 1) : t[n] = s[n + 1]
      /\ Head(s) = s[1]
  OBVIOUS
<1> HIDE DEF t
<1>2. Distinct(t)
  <2> SUFFICES ASSUME NEW m \in DOMAIN t, NEW n \in DOMAIN t, t[m].name = t[n].name
               PROVE  m = n
    BY DEF Distinct
  <2>1. m + 1 \in DOMAIN s /\ n + 1 \in DOMAIN s /\ s[m + 1].name = s[n + 1].name
    BY <1>1
  <2>2. m + 1 = n + 1
    BY <2>1 DEF Distinct
  <2> QED BY <1>1, <2>2
<1>3. ASSUME NEW db \in Range(t)
      PROVE  db \in Range(s) /\ db.name # Head(s).name
  <2>1. PICK n \in DOMAIN t : db = t[n]
    BY DEF Range
  <2>2. n + 1 \in DOMAIN s /\ db = s[n + 1] /\ n + 1 # 1
    BY <1>1, <2>1
  <2> QED BY <1>1, <2>2 DEF Distinct, Range
<1>4. ASSUME NEW db \in Range(s), db.name # Head(s).name
      PROVE  db \in Range(t)
  <2>1. PICK n \in DOMAIN s : db = s[n]
    BY DEF Range
  <2>2. n - 1 \in DOMAIN t /\ t[n - 1] = s[n]
    BY <1>1, <1>4, <2>1
  <2> QED BY <2>1, <2>2 DEF Range
<1> QED BY <1>1, <1>2, <1>3, <1>4 DEF t

LEMMA RemoveFacts ==
  ASSUME NEW s \in Seq(Entry), Distinct(s), NEW k \in DOMAIN s
  PROVE  LET t == SubSeq(s, 1, k - 1) \o SubSeq(s, k + 1, Len(s))
         IN  /\ t \in Seq(Entry)
             /\ Distinct(t)
             /\ Range(t) = {db \in Range(s) : db.name # s[k].name}
<1> DEFINE t == SubSeq(s, 1, k - 1) \o SubSeq(s, k + 1, Len(s))
           From(n) == IF n < k THEN n ELSE n + 1
<1>1. DOMAIN s = 1..Len(s) /\ Len(s) \in Nat \ {0} /\ k \in 1..Len(s)
  OBVIOUS
<1>2. /\ t \in Seq(Entry)
      /\ DOMAIN t = 1..(Len(s) - 1)
      /\ \A n \in 1..(Len(s) - 1) : t[n] = s[IF n < k THEN n ELSE n + 1]
  <2> DEFINE a == SubSeq(s, 1, k - 1)
             b == SubSeq(s, k + 1, Len(s))
  <2>1. /\ a \in Seq(Entry) /\ Len(a) = k - 1
        /\ \A n \in 1..(k - 1) : a[n] = s[n]
    BY <1>1
  <2>2. /\ b \in Seq(Entry) /\ Len(b) = Len(s) - k
        /\ \A n \in 1..(Len(s) - k) : b[n] = s[n + k]
    BY <1>1
  <2> HIDE DEF a, b
  <2>3. /\ a \o b \in Seq(Entry) /\ Len(a \o b) = Len(a) + Len(b)
        /\ \A n \in 1..(Len(a) + Len(b)) :
             (a \o b)[n] = IF n <= Len(a) THEN a[n] ELSE b[n - Len(a)]
    BY <2>1, <2>2, ConcatProperties
  <2> DEFINE c == a \o b
  <2> HIDE DEF c
  <2>4. /\ c \in Seq(Entry) /\ DOMAIN c = 1..(Len(s) - 1)
        /\ \A n \in 1..(Len(s) - 1) : c[n] = IF n <= k - 1 THEN a[n] ELSE b[n - (k - 1)]
    <3>1. Len(a) + Len(b) = Len(s) - 1
      BY <1>1, <2>1, <2>2
    <3> QED BY <2>1, <2>3, <3>1 DEF c
  <2>5. ASSUME NEW n \in 1..(Len(s) - 1)
        PROVE  c[n] = s[IF n < k THEN n ELSE n + 1]
    <3>1. CASE n < k
      BY <1>1, <2>1, <2>4, <3>1
    <3>2. CASE n >= k
      <4>1. n - (k - 1) \in 1..(Len(s) - k)
        BY <1>1, <3>2
      <4>2. c[n] = b[n - (k - 1)]
        BY <1>1, <2>4, <3>2
      <4>3. n - (k - 1) + k = n + 1
        BY <1>1
      <4>4. b[n - (k - 1)] = s[n - (k - 1) + k]
        BY <2>2, <4>1
      <4> QED BY <1>1, <3>2, <4>2, <4>3, <4>4
    <3> QED BY <1>1, <3>1, <3>2
  <2>6. t = c
    BY DEF a, b, c
  <2> QED BY <2>4, <2>5, <2>6
<1> HIDE DEF t
<1>3. Distinct(t)
  <2> SUFFICES ASSUME NEW m \in DOMAIN t, NEW n \in DOMAIN t, t[m].name = t[n].name
               PROVE  m = n
    BY DEF Distinct
  <2>1. From(m) \in DOMAIN s /\ From(n) \in DOMAIN s /\ t[m] = s[From(m)] /\ t[n] = s[From(n)]
    BY <1>1, <1>2
  <2>2. From(m) = From(n)
    BY <2>1 DEF Distinct
  <2> QED BY <1>1, <1>2, <2>2
<1>4. ASSUME NEW db \in Range(t)
      PROVE  db \in Range(s) /\ db.name # s[k].name
  <2>1. PICK n \in DOMAIN t : db = t[n]
    BY DEF Range
  <2>2. From(n) \in DOMAIN s /\ db = s[From(n)] /\ From(n) # k
    BY <1>1, <1>2, <2>1
  <2> QED BY <1>1, <2>2 DEF Distinct, Range
<1>5. ASSUME NEW db \in Range(s), db.name # s[k].name
      PROVE  db \in Range(t)
  <2>1. PICK n \in DOMAIN s : db = s[n]
    BY DEF Range
  <2>2. n # k
    BY <1>5, <2>1
  <2>3. CASE n < k
    BY <1>1, <1>2, <2>1, <2>3 DEF Range
  <2>4. CASE n > k
    <3>1. n - 1 \in DOMAIN t /\ t[n - 1] = s[n]
      BY <1>1, <1>2, <2>4
    <3> QED BY <2>1, <3>1 DEF Range
  <2> QED BY <1>1, <2>2, <2>3, <2>4
<1>6. Range(t) = {db \in Range(s) : db.name # s[k].name}
  BY <1>4, <1>5
<1> QED BY <1>2, <1>3, <1>6 DEF t

-----------------------------------------------------------------------------
(* The databases of an index: what DqliteVfs guarantees of them. *)
LEMMA PinFacts ==
  ASSUME NEW name \in Database, NEW i \in Index
  PROVE  Pin[name][i] \in {0} \cup Index
BY PinAssumption

LEMMA IndexFacts == Index \subseteq Nat \ {0} /\ Last \in Index /\ First \in Index
BY PinAssumption DEF Index

LEMMA NamesFacts ==
  /\ DOMAIN Names \subseteq Nat
  /\ \A n \in DOMAIN Names : Names[n] \in Database
  /\ \A m, n \in DOMAIN Names : Names[m] = Names[n] => m = n
  /\ \A i : Databases(i) \subseteq DOMAIN Names
<1>1. DOMAIN Names = 1..Len(Names) /\ Len(Names) \in Nat
  BY PinAssumption
<1> QED BY <1>1, PinAssumption DEF Database, Databases

(* Connected and OneIndexAtATime in terms of the entries of the connection. *)
LEMMA EntryFacts ==
  ASSUME TypeOK
  PROVE  /\ attached \in Seq(Entry)
         /\ AttachedNames = NamesOf(attached)
         /\ Shown = {db \in Range(attached) : db.raft_index # 0}
         /\ Range(attached) \subseteq Entry
         /\ attached = <<>> <=> Range(attached) = {}
<1>1. attached \in Seq(Entry)
  BY DEF TypeOK, Entry
<1>2. Range(attached) \subseteq Entry
  BY <1>1 DEF Range
<1>3. attached = <<>> <=> Range(attached) = {}
  <2>1. attached # <<>> => 1 \in DOMAIN attached
    BY <1>1
  <2>2. attached = <<>> => DOMAIN attached = {}
    OBVIOUS
  <2> QED BY <2>1, <2>2 DEF Range
<1> QED BY <1>1, <1>2, <1>3 DEF AttachedNames, NamesOf, Shown, Range

(* A connection with fewer databases, or with others of the user's own, shows no
   second index. *)
LEMMA FewerShowOneIndex ==
  ASSUME OneIndexAtATime, Shown' \subseteq Shown
  PROVE  OneIndexAtATime'
BY DEF OneIndexAtATime, At

(* An empty connection. *)
LEMMA NothingAttached ==
  attached = <<>> => Shown = {} /\ AttachedNames = {} /\ OneIndexAtATime
BY IndexFacts DEF Shown, AttachedNames, OneIndexAtATime, At

LEMMA InitInv == Init => IInv
<1> SUFFICES ASSUME Init PROVE IInv
  OBVIOUS
<1>1. TypeOK
  <2>1. attached \in Seq([name : Database, raft_index : {0} \cup Index])
    BY DEF Init
  <2>2. command \in [type : {"none", "open", "index"}, index : Index \cup {Latest, NoPrompt}]
    BY DEF Init, NoCommand
  <2> QED BY <2>1, <2>2 DEF Init, TypeOK
<1>2. Flow /\ Connected
  BY DEF Init, Flow, Connected, NoCommand
<1>3. OneIndexAtATime
  BY NothingAttached DEF Init
<1> QED BY <1>1, <1>2, <1>3 DEF IInv, Attaching, Init

-----------------------------------------------------------------------------
(* The steps that leave the open shell and its connection alone: the program
   and commands that fail before they have changed anything. *)
ProgramStep ==
  \/ OpenFolder \/ NoMetadata \/ OpenFolderFails \/ ParseArguments
  \/ Unparsable \/ EndOfInput \/ Quit \/ Ended
  \/ Unavailable \/ Refuse \/ ListDatabases
  \/ \E i \in Asked : IndexOutOfRange(i)

LEMMA ProgramInv ==
  ASSUME IInv, ProgramStep
  PROVE  IInv'
<1> USE DEF IInv
<1>1. /\ UNCHANGED <<shell, loaded, current_index, prompt, connection>>
      /\ \/ UNCHANGED <<stage, command, phase, todo>>
         \/ command = NoCommand /\ command' = NoCommand /\ phase' = "none" /\ todo' = {}
  <2>1. CASE OpenFolder \/ NoMetadata \/ OpenFolderFails
    BY <2>1 DEF OpenFolder, NoMetadata, OpenFolderFails, context, Flow, Exit
  <2>2. CASE ParseArguments \/ Unparsable \/ EndOfInput \/ Quit
    <3>1. command = NoCommand /\ phase = "none" /\ todo = {} /\ UNCHANGED context
      BY <2>2 DEF ParseArguments, Unparsable, EndOfInput, Quit, Flow, Runs, Idle, NoCommand
    <3> QED BY <3>1 DEF context
  <2>3. CASE Ended
    BY <2>3 DEF Ended, vars, program
  <2>4. CASE Unavailable \/ Refuse \/ ListDatabases \/ \E i \in Asked : IndexOutOfRange(i)
    BY <2>4 DEF Unavailable, Refuse, ListDatabases, IndexOutOfRange, Fail, Runs, Idle
  <2> QED BY <2>1, <2>2, <2>3, <2>4 DEF ProgramStep
<1>2. /\ source' \in {"terminal", "arguments", "pipe"}
      /\ stage' \in {"open", "parse", "run", "ended"}
      /\ status' \in (IF stage' = "ended" THEN {"success", "failure"} ELSE {"none"})
      /\ dqlite' \in BOOLEAN
  <2> USE DEF TypeOK
  <2>1. CASE OpenFolder \/ NoMetadata \/ OpenFolderFails
    BY <2>1 DEF OpenFolder, NoMetadata, OpenFolderFails, Exit
  <2>2. CASE ParseArguments \/ Unparsable \/ EndOfInput \/ Quit
    BY <2>2 DEF ParseArguments, Unparsable, EndOfInput, Quit, Exit, Runs, Idle
  <2>3. CASE Ended
    BY <2>3 DEF Ended, vars, program
  <2>4. CASE Unavailable \/ Refuse \/ ListDatabases \/ \E i \in Asked : IndexOutOfRange(i)
    BY <2>4 DEF Unavailable, Refuse, ListDatabases, IndexOutOfRange, Fail, Exit
  <2> QED BY <2>1, <2>2, <2>3, <2>4 DEF ProgramStep
<1>3. TypeOK'
  BY <1>1, <1>2 DEF TypeOK, connection, NoCommand, NoPrompt
<1>4. Flow' /\ Attaching'
  BY <1>1 DEF Flow, Attaching, connection, NoCommand, AttachedNames
<1>5. UNCHANGED <<attached, in_transaction, reading, shell>>
  BY <1>1 DEF connection
<1>6. command'.type = "none" => command.type = "none"
  BY <1>1
<1>7. Connected'
  BY <1>5, <1>6 DEF Connected, AttachedNames
<1>8. OneIndexAtATime'
  BY <1>5, FewerShowOneIndex DEF Shown
<1> QED BY <1>3, <1>4, <1>7, <1>8

-----------------------------------------------------------------------------
(* .open and .index select an index. *)
LEMMA SelectInv ==
  ASSUME IInv,
         \/ \E i \in Asked : OpenOutOfRange(i) \/ BeginIndex(i)
         \/ \E i \in Asked \cup {Latest} : BeginOpen(i)
  PROVE  IInv'
<1> USE DEF IInv
<1>0. Latest \notin Index /\ NoPrompt \notin Index
  BY IndexFacts DEF Latest, NoPrompt
<1>1. /\ command = NoCommand /\ stage = "run" /\ phase = "none" /\ todo = {}
      /\ loaded => current_index \in Index
      /\ SelectedBefore \in Index
  <2>1. command = NoCommand /\ stage = "run"
    BY DEF OpenOutOfRange, BeginIndex, BeginOpen, Runs, Idle
  <2> QED BY <2>1, IndexFacts DEF Flow, NoCommand, TypeOK, SelectedBefore
<1>2. ASSUME NEW i \in Asked, OpenOutOfRange(i)
      PROVE  IInv'
  <2>1. /\ UNCHANGED <<source, dqlite, shell, prompt, connection>>
        /\ loaded' = TRUE /\ current_index' = SelectedBefore
        /\ command' = NoCommand /\ phase' = "none" /\ todo' = {}
        /\ \/ UNCHANGED <<stage, status>>
           \/ stage' = "ended" /\ status' = "failure"
    BY <1>2 DEF OpenOutOfRange, Fail, Exit
  <2>2. TypeOK'
    BY <1>1, <2>1 DEF TypeOK, connection, NoCommand
  <2>3. UNCHANGED <<attached, in_transaction, reading, shell>>
    BY <2>1 DEF connection
  <2>4. Connected' /\ Flow' /\ Attaching'
    BY <1>1, <2>1, <2>3 DEF Connected, Flow, Attaching, AttachedNames, NoCommand
  <2>5. OneIndexAtATime'
    BY <2>3, FewerShowOneIndex DEF Shown
  <2> QED BY <2>2, <2>4, <2>5
<1>3. ASSUME NEW i \in Asked \cup {Latest}, BeginOpen(i)
      PROVE  IInv'
  <2>1. /\ UNCHANGED <<program, shell, prompt, connection>> /\ shell = "root"
        /\ i \in Index \cup {Latest}
        /\ loaded' = TRUE /\ current_index' = IF i = Latest THEN SelectedBefore ELSE i
        /\ command' = [type |-> "open", index |-> i]
        /\ phase' = "attach" /\ todo' = Databases(current_index')
    BY <1>3 DEF BeginOpen, Runs, Available, RootCommands, SnapshotCommands, OpenCommands
  <2>2. current_index' \in Index
    BY <1>1, <2>1
  <2>3. UNCHANGED <<attached, in_transaction, reading, shell, source, stage, status, dqlite>>
    BY <2>1 DEF connection, program
  <2>4. command' \in [type : {"none", "open", "index"}, index : Index \cup {Latest, NoPrompt}]
    BY <2>1
  <2>5. TypeOK'
    BY <2>1, <2>2, <2>3, <2>4, NamesFacts DEF TypeOK
  <2>6. attached = <<>> /\ ~in_transaction /\ reading = {}
    BY <1>1, <2>1 DEF Connected, NoCommand
  <2>7. Connected' /\ Flow'
    BY <1>1, <2>1, <2>3 DEF Connected, Flow, AttachedNames, NoCommand
  <2>8. Attaching'
    <3>1. Range(attached') = {} /\ AttachedNames' = {}
      BY <2>3, <2>6 DEF Range, AttachedNames
    <3>2. todo' \subseteq DOMAIN Names
      BY <2>5 DEF TypeOK
    <3>3. Databases(current_index)' = todo'
      BY <2>1 DEF Databases
    <3> QED BY <2>1, <2>3, <2>6, <3>1, <3>3 DEF Attaching
  <2>9. OneIndexAtATime'
    BY <2>3, FewerShowOneIndex DEF Shown
  <2> QED BY <2>5, <2>7, <2>8, <2>9
<1>4. ASSUME NEW i \in Asked, BeginIndex(i)
      PROVE  IInv'
  <2>1. /\ UNCHANGED <<program, shell, loaded, prompt, connection>> /\ shell = "open"
        /\ i \in Index /\ current_index' = i
        /\ command' = [type |-> "index", index |-> i]
        /\ phase' = "detach" /\ todo' = Databases(i)
    BY <1>4 DEF BeginIndex, Runs, Available, RootCommands, SnapshotCommands, OpenCommands
  <2>2. loaded
    BY <2>1 DEF Flow
  <2>3. UNCHANGED <<attached, in_transaction, reading, shell, source, stage, status, dqlite>>
    BY <2>1 DEF connection, program
  <2>4. command' \in [type : {"none", "open", "index"}, index : Index \cup {Latest, NoPrompt}]
    BY <2>1
  <2>5. TypeOK'
    BY <2>1, <2>2, <2>3, <2>4, NamesFacts DEF TypeOK
  <2>6. Connected' /\ Flow'
    BY <1>1, <2>1, <2>2, <2>3 DEF Connected, Flow, AttachedNames, NoCommand
  <2>7. Databases(current_index)' = todo'
    BY <2>1 DEF Databases
  <2>8. OneIndexAtATime'
    BY <2>3, FewerShowOneIndex DEF Shown
  <2> QED BY <2>1, <2>5, <2>6, <2>7, <2>8 DEF Attaching
<1> QED BY <1>2, <1>3, <1>4

-----------------------------------------------------------------------------
(* .index detaches what the connection has. *)
LEMMA DetachInv ==
  ASSUME IInv, DetachNext \/ DetachFails \/ DetachEnd
  PROVE  IInv'
<1> USE DEF IInv
<1>1. /\ phase = "detach" /\ command.type = "index" /\ shell = "open" /\ stage = "run"
      /\ loaded /\ todo = Databases(current_index)
      /\ attached \in Seq(Entry) /\ Distinct(attached)
  <2>1. phase = "detach"
    BY DEF DetachNext, DetachFails, DetachEnd
  <2>2. command.type \in {"none", "open", "index"}
    BY DEF TypeOK
  <2> QED BY <2>1, <2>2, EntryFacts DEF Flow, Attaching, Connected, Distinct
<1>2. CASE DetachNext
  <2>1. /\ attached # <<>> /\ Head(attached).name \notin reading
        /\ attached' = Tail(attached)
        /\ UNCHANGED <<program, shell, loaded, current_index, prompt,
                       in_transaction, reading, command, phase, todo>>
    BY <1>2 DEF DetachNext
  <2>2. /\ attached' \in Seq(Entry) /\ Distinct(attached')
        /\ Range(attached') = {db \in Range(attached) : db.name # Head(attached).name}
    BY <1>1, <2>1, TailFacts
  <2>3. TypeOK'
    BY <2>1, <2>2 DEF TypeOK, Entry, program
  <2>4. NamesOf(attached') = NamesOf(attached) \ {Head(attached).name}
    BY <2>2 DEF NamesOf
  <2>5. AttachedNames' = NamesOf(attached') /\ Shown' \subseteq Shown
    BY <2>2, <2>3, EntryFacts DEF AttachedNames, NamesOf, Shown, Range
  <2>6. reading' \subseteq AttachedNames'
    BY <2>1, <2>4, <2>5, EntryFacts DEF Connected
  <2>7. Connected'
    BY <1>1, <2>1, <2>2, <2>6 DEF Connected, Distinct
  <2>8. Flow' /\ Attaching'
    BY <1>1, <2>1 DEF Flow, Attaching, Databases, program
  <2> QED BY <2>3, <2>5, <2>7, <2>8, FewerShowOneIndex
<1>3. CASE DetachFails
  <2>1. /\ UNCHANGED <<source, dqlite, shell, loaded, current_index, prompt, connection>>
        /\ command' = NoCommand /\ phase' = "none" /\ todo' = {}
        /\ \/ UNCHANGED <<stage, status>>
           \/ stage' = "ended" /\ status' = "failure"
    BY <1>3 DEF DetachFails, Fail, Exit
  <2>2. UNCHANGED <<attached, in_transaction, reading>>
    BY <2>1 DEF connection
  <2>3. TypeOK'
    BY <2>1, <2>2 DEF TypeOK, NoCommand
  <2>4. Connected' /\ Flow' /\ Attaching'
    BY <1>1, <2>1, <2>2 DEF Connected, Flow, Attaching, AttachedNames, NoCommand
  <2> QED BY <2>2, <2>3, <2>4, FewerShowOneIndex DEF Shown
<1>4. CASE DetachEnd
  <2>1. /\ UNCHANGED <<program, shell, loaded, current_index, prompt, connection,
                       command, todo>>
        /\ attached = <<>> /\ phase' = "attach"
    BY <1>4 DEF DetachEnd
  <2>2. UNCHANGED <<attached, in_transaction, reading>>
    BY <2>1 DEF connection
  <2>3. TypeOK'
    BY <2>1, <2>2 DEF TypeOK, program
  <2>4. Connected' /\ Flow'
    BY <1>1, <2>1, <2>2 DEF Connected, Flow, AttachedNames, program
  <2>5. AttachedNames' = {} /\ Range(attached') = {} /\ reading' = {}
    BY <2>1, <2>2 DEF AttachedNames, Range, Connected
  <2>6. Attaching'
    BY <1>1, <2>1, <2>5 DEF Attaching, Databases
  <2> QED BY <2>2, <2>3, <2>4, <2>6, FewerShowOneIndex DEF Shown
<1> QED BY <1>2, <1>3, <1>4

-----------------------------------------------------------------------------
(* .open and .index attach the databases of the index. *)
LEMMA AttachingFacts ==
  ASSUME IInv, phase = "attach"
  PROVE  /\ current_index \in Index /\ loaded /\ stage = "run"
         /\ command.type \in {"open", "index"}
         /\ command.type = "open" => shell = "root"
         /\ command.type = "index" => shell = "open"
         /\ At(current_index)
         /\ todo # {} => NextToAttach \in todo
<1> USE DEF IInv
<1>1. /\ loaded /\ stage = "run" /\ command.type \in {"open", "index"}
      /\ command.type = "open" => shell = "root"
      /\ command.type = "index" => shell = "open"
  BY DEF TypeOK, Flow
<1>2. current_index \in Index
  BY <1>1 DEF TypeOK
<1>3. At(current_index)
  BY EntryFacts DEF At, Attaching
<1>4. todo # {} => NextToAttach \in todo
  BY MinExists, NamesFacts DEF TypeOK, NextToAttach
<1> QED BY <1>1, <1>2, <1>3, <1>4

LEMMA AttachInv ==
  ASSUME IInv, AttachNext \/ AttachFails
  PROVE  IInv'
<1> USE DEF IInv
<1>1. phase = "attach" /\ todo # {}
  BY DEF AttachNext, AttachFails
<1>2. CASE AttachNext
  <2> DEFINE n == NextToAttach
             db == Pinned(Names[n])
  <2>1. /\ attached' = Append(attached, db) /\ todo' = todo \ {n}
        /\ UNCHANGED <<program, shell, loaded, current_index, prompt,
                       in_transaction, reading, command, phase>>
    BY <1>2 DEF AttachNext
  <2>2. /\ n \in todo /\ n \in DOMAIN Names /\ n \in Databases(current_index)
        /\ Names[n] \in Database /\ Names[n] \notin AttachedNames
    BY <1>1, AttachingFacts, NamesFacts DEF Attaching
  <2>3. /\ db \in Entry /\ db.name = Names[n]
        /\ db.raft_index = Pin[db.name][current_index] /\ db.raft_index # 0
    BY <1>1, <2>2, AttachingFacts, PinFacts DEF Pinned, Entry, Databases
  <2> HIDE DEF n, db
  <2>4. /\ attached' \in Seq(Entry) /\ Distinct(attached')
        /\ Range(attached') = Range(attached) \cup {db}
    BY <2>1, <2>2, <2>3, EntryFacts, AppendFacts DEF Connected, Distinct
  <2>5. TypeOK'
    BY <2>1, <2>4 DEF TypeOK, Entry, program
  <2>6. AttachedNames' = AttachedNames \cup {Names[n]}
    <3>1. AttachedNames' = NamesOf(attached')
      BY <2>5, EntryFacts DEF AttachedNames, NamesOf, Range
    <3>2. NamesOf(attached') = NamesOf(attached) \cup {Names[n]}
      BY <2>3, <2>4 DEF NamesOf
    <3> QED BY <3>1, <3>2, EntryFacts
  <2>7. Connected' /\ Flow'
    BY <1>1, <2>1, <2>4, <2>6, AttachingFacts DEF Connected, Flow, Distinct, program
  <2>8. todo' = {m \in Databases(current_index) : Names[m] \notin AttachedNames'}
    BY <1>1, <2>1, <2>2, <2>6, NamesFacts DEF Attaching
  <2>9. Attaching'
    BY <1>1, <2>1, <2>3, <2>4, <2>8 DEF Attaching, Databases
  <2>10. \A e \in Shown' : e.raft_index = Pin[e.name][current_index]
    <3>1. Shown' \subseteq Range(attached')
      BY DEF Shown, Range
    <3> QED BY <1>1, <2>1, <2>9, <3>1 DEF Attaching
  <2>11. OneIndexAtATime'
    BY <1>1, <2>1, <2>10, AttachingFacts DEF OneIndexAtATime, At
  <2> QED BY <2>5, <2>7, <2>9, <2>11
<1>3. CASE AttachFails
  <2>1. /\ UNCHANGED <<source, dqlite, shell, loaded, current_index, prompt,
                       in_transaction, reading>>
        /\ attached' = IF command.type = "open" THEN <<>> ELSE attached
        /\ command' = NoCommand /\ phase' = "none" /\ todo' = {}
        /\ \/ UNCHANGED <<stage, status>>
           \/ stage' = "ended" /\ status' = "failure"
    BY <1>3 DEF AttachFails, Fail, Exit
  <2>2. attached' \in Seq([name : Database, raft_index : {0} \cup Index])
    BY <2>1 DEF TypeOK
  <2>3. TypeOK'
    BY <2>1, <2>2 DEF TypeOK, NoCommand
  <2>4. Flow' /\ Attaching'
    BY <1>1, <2>1, AttachingFacts DEF Flow, Attaching, NoCommand
  <2>5. reading = {}
    BY <1>1 DEF Attaching
  <2>6. Connected'
    BY <1>1, <2>1, <2>5, AttachingFacts DEF Connected, AttachedNames, NoCommand
  <2>7. Shown' \subseteq Shown
    BY <2>1 DEF Shown
  <2> QED BY <2>3, <2>4, <2>6, <2>7, FewerShowOneIndex
<1> QED BY <1>2, <1>3

-----------------------------------------------------------------------------
(* The shell changes. *)
LEMMA ShellInv ==
  ASSUME IInv, Succeed \/ Close \/ EnterSnapshot \/ LeaveSnapshot
  PROVE  IInv'
<1> USE DEF IInv
<1>1. CASE Succeed
  <2>1. /\ phase = "attach" /\ todo = {}
        /\ shell' = "open" /\ prompt' = command.index
        /\ command' = NoCommand /\ phase' = "none"
        /\ UNCHANGED <<program, loaded, current_index, attached, in_transaction,
                       reading, todo>>
    BY <1>1 DEF Succeed, connection
  <2>2. TypeOK'
    BY <2>1 DEF TypeOK, NoCommand, program
  <2>3. Flow' /\ Attaching' /\ Connected'
    BY <2>1, AttachingFacts DEF Flow, Attaching, Connected, AttachedNames, NoCommand, program
  <2> QED BY <2>1, <2>2, <2>3, FewerShowOneIndex DEF Shown
<1>2. CASE Close
  <2>1. /\ shell' = "root" /\ prompt' = NoPrompt
        /\ attached' = <<>> /\ in_transaction' = FALSE /\ reading' = {}
        /\ UNCHANGED <<program, loaded, current_index, command, phase, todo>>
        /\ command = NoCommand
    BY <1>2 DEF Close, Runs, Idle
  <2>2. attached' \in Seq([name : Database, raft_index : {0} \cup Index])
    BY <2>1
  <2>3. TypeOK'
    BY <2>1, <2>2 DEF TypeOK, program
  <2>4. Flow' /\ Attaching' /\ Connected'
    BY <2>1 DEF Flow, Attaching, Connected, AttachedNames, NoCommand, program
  <2>5. Shown' \subseteq Shown
    BY <2>1 DEF Shown
  <2> QED BY <2>3, <2>4, <2>5, FewerShowOneIndex
<1>3. CASE EnterSnapshot \/ LeaveSnapshot
  <2>1. /\ shell # "open" /\ shell' \in {"root", "snapshot"} /\ command = NoCommand
        /\ UNCHANGED <<program, loaded, current_index, prompt, attached, in_transaction,
                       reading, command, phase, todo>>
    BY <1>3 DEF EnterSnapshot, LeaveSnapshot, Runs, Idle, Available, RootCommands,
                SnapshotCommands, OpenCommands, connection
  <2>2. TypeOK'
    BY <2>1 DEF TypeOK, program
  <2>3. Flow' /\ Attaching' /\ Connected'
    BY <2>1 DEF Flow, Attaching, Connected, AttachedNames, NoCommand, Databases, program
  <2> QED BY <2>1, <2>2, <2>3, FewerShowOneIndex DEF Shown
<1> QED BY <1>1, <1>2, <1>3

-----------------------------------------------------------------------------
(* SQL of the user. *)
SqlStep ==
  \/ BeginTransaction \/ EndTransaction
  \/ \E name \in Database : Read(name) \/ Attach(name) \/ Detach(name)

LEMMA SqlInv ==
  ASSUME IInv, SqlStep
  PROVE  IInv'
<1> USE DEF IInv
<1>1. /\ shell = "open" /\ command = NoCommand /\ phase = "none"
      /\ UNCHANGED <<source, stage, status, dqlite, shell, loaded, current_index, prompt,
                     command, phase, todo>>
  <2>1. Sql /\ SqlUnchanged
    BY DEF SqlStep, BeginTransaction, EndTransaction, Read, Attach, Detach
  <2> QED BY <2>1 DEF Sql, Runs, Idle, SqlUnchanged, program, Flow, NoCommand
<1>2. Flow' /\ Attaching'
  BY <1>1 DEF Flow, Attaching, NoCommand
<1>3. /\ attached' \in Seq(Entry) /\ Distinct(attached')
      /\ in_transaction' \in BOOLEAN
      /\ reading' \subseteq NamesOf(attached')
      /\ ~in_transaction' => reading' = {}
      /\ \A db \in Range(attached') : db.raft_index # 0 => db \in Range(attached)
  <2>0. /\ attached \in Seq(Entry) /\ Distinct(attached) /\ reading \subseteq NamesOf(attached)
        /\ in_transaction \in BOOLEAN
        /\ ~in_transaction => reading = {}
        /\ AttachedNames = NamesOf(attached)
    BY EntryFacts DEF Connected, Distinct, TypeOK
  <2>1. CASE BeginTransaction \/ EndTransaction
    BY <2>0, <2>1 DEF BeginTransaction, EndTransaction
  <2>2. ASSUME NEW name \in Database, Read(name)
        PROVE  <1>3!:
    <3>1. /\ name \in NamesOf(attached) /\ UNCHANGED <<attached, in_transaction>>
          /\ reading' = IF in_transaction THEN reading \cup {name} ELSE reading
      BY <2>0, <2>2 DEF Read
    <3>2. reading' \subseteq NamesOf(attached')
      BY <2>0, <3>1
    <3>3. ~in_transaction' => reading' = {}
      BY <2>0, <3>1
    <3> QED BY <2>0, <3>1, <3>2, <3>3
  <2>3. ASSUME NEW name \in Database, Attach(name)
        PROVE  <1>3!:
    <3> DEFINE db == [name |-> name, raft_index |-> 0]
    <3>1. /\ attached' = Append(attached, db) /\ name \notin NamesOf(attached)
          /\ UNCHANGED <<in_transaction, reading>>
      BY <2>0, <2>3 DEF Attach
    <3>2. db \in Entry /\ db.name = name /\ db.raft_index = 0
      BY DEF Entry
    <3> HIDE DEF db
    <3>3. /\ attached' \in Seq(Entry) /\ Distinct(attached')
          /\ Range(attached') = Range(attached) \cup {db}
      BY <2>0, <3>1, <3>2, AppendFacts
    <3>4. reading' \subseteq NamesOf(attached')
      BY <2>0, <3>1, <3>3 DEF NamesOf
    <3>5. in_transaction' \in BOOLEAN /\ (~in_transaction' => reading' = {})
      BY <2>0, <3>1
    <3>6. \A e \in Range(attached') : e.raft_index # 0 => e \in Range(attached)
      BY <3>2, <3>3
    <3> QED BY <3>3, <3>4, <3>5, <3>6
  <2>4. ASSUME NEW name \in Database, Detach(name)
        PROVE  <1>3!:
    <3>1. PICK k \in DOMAIN attached :
            /\ attached[k].name = name
            /\ attached' = SubSeq(attached, 1, k - 1) \o SubSeq(attached, k + 1, Len(attached))
      BY <2>4 DEF Detach
    <3>2. name \notin reading /\ UNCHANGED <<in_transaction, reading>>
      BY <2>4 DEF Detach
    <3>3. /\ attached' \in Seq(Entry) /\ Distinct(attached')
          /\ Range(attached') = {db \in Range(attached) : db.name # name}
      BY <2>0, <3>1, RemoveFacts
    <3>4. reading' \subseteq NamesOf(attached')
      BY <2>0, <3>2, <3>3 DEF NamesOf
    <3>5. in_transaction' \in BOOLEAN /\ (~in_transaction' => reading' = {})
      BY <2>0, <3>2
    <3>6. \A e \in Range(attached') : e.raft_index # 0 => e \in Range(attached)
      BY <3>3
    <3> QED BY <3>3, <3>4, <3>5, <3>6
  <2> QED BY <2>1, <2>2, <2>3, <2>4 DEF SqlStep
<1>4. NamesOf(attached') \subseteq Database
  <2>1. Range(attached') \subseteq Entry
    BY <1>3 DEF Range
  <2> QED BY <2>1 DEF NamesOf, Entry
<1>5. TypeOK'
  BY <1>1, <1>3, <1>4 DEF TypeOK, Entry
<1>6. AttachedNames' = NamesOf(attached')
  BY DEF AttachedNames, NamesOf, Range
<1>7. Connected'
  BY <1>1, <1>3, <1>6 DEF Connected, Distinct
<1>8. Shown' \subseteq Shown
  <2>1. Shown' = {db \in Range(attached') : db.raft_index # 0}
    BY DEF Shown, Range
  <2> QED BY <1>3, <2>1, EntryFacts
<1> QED BY <1>2, <1>5, <1>7, <1>8, FewerShowOneIndex

LEMMA NextInv == IInv /\ [Next]_vars => IInv'
<1> SUFFICES ASSUME IInv, [Next]_vars PROVE IInv'
  OBVIOUS
<1>1. CASE UNCHANGED vars
  <2>1. UNCHANGED <<source, stage, status, dqlite, shell, loaded, current_index, prompt,
                    attached, in_transaction, reading, command, phase, todo>>
    BY <1>1 DEF vars, program, connection
  <2> QED BY <2>1 DEF IInv, TypeOK, Flow, Connected, OneIndexAtATime, At, Shown, Attaching,
                      AttachedNames, Databases
<1>2. CASE ProgramStep
  BY <1>2, ProgramInv
<1>3. CASE \/ \E i \in Asked : OpenOutOfRange(i) \/ BeginIndex(i)
           \/ \E i \in Asked \cup {Latest} : BeginOpen(i)
  BY <1>3, SelectInv
<1>4. CASE CommandStep
  BY <1>4, DetachInv, AttachInv, ShellInv DEF CommandStep
<1>5. CASE Close \/ EnterSnapshot \/ LeaveSnapshot
  BY <1>5, ShellInv
<1>6. CASE SqlStep
  BY <1>6, SqlInv
<1> QED BY <1>1, <1>2, <1>3, <1>4, <1>5, <1>6 DEF Next, ProgramStep, SqlStep

-----------------------------------------------------------------------------
(* The invariant of every run of the program: which databases are attached, and
   at which index, follows from the command that runs and the shell. *)
THEOREM Invariance == Spec => []IInv
BY InitInv, NextInv, PTL DEF Spec

(* Every variable keeps to its type, of any databases and indexes. *)
THEOREM TypeCorrect == Spec => []TypeOK
<1>1. IInv => TypeOK
  BY DEF IInv
<1> QED BY <1>1, Invariance, PTL

(* The connection of the open shell ends with the shell: after .close, or an
   .open that failed, no database file is open, no name is attached twice, and
   no lock is left over from what is no longer attached. *)
THEOREM ConnectionEndsWithShell == Spec => []NoFileIsLeft
<1>1. IInv => NoFileIsLeft
  <2> SUFFICES ASSUME IInv PROVE NoFileIsLeft
    OBVIOUS
  <2>1. Cardinality(AttachedNames) = Len(attached)
    BY EntryFacts, NamesAreCounted DEF IInv, Connected, Distinct
  <2> QED BY <2>1 DEF IInv, Connected, NoFileIsLeft
<1> QED BY <1>1, Invariance, PTL

(* However .index and .open fail, and whatever SQL the user runs between, a
   query never joins databases of two indexes. *)
THEOREM NeverTwoIndexes == Spec => []OneIndexAtATime
<1>1. IInv => OneIndexAtATime
  BY DEF IInv
<1> QED BY <1>1, Invariance, PTL

-----------------------------------------------------------------------------
(* .open and .index succeed only with every database of the index attached, and
   nothing else. *)
THEOREM SuccessShowsTheIndex == Spec => SuccessIsComplete
<1> DEFINE Complete ==
      Succeed =>
        /\ {db.name : db \in Shown'} = {n \in Database : Pin[n][current_index'] # 0}
        /\ \A db \in Shown' : db.raft_index = Pin[db.name][current_index']
        /\ Len(attached') = Cardinality(Shown')
        /\ command.index # Latest => prompt' = current_index'
<1>1. ASSUME IInv, Succeed PROVE Complete
  <2>1. /\ phase = "attach" /\ todo = {} /\ prompt' = command.index
        /\ UNCHANGED <<current_index, attached>>
    BY <1>1 DEF Succeed, connection
  <2>2. /\ \A db \in Range(attached) : /\ db.raft_index = Pin[db.name][current_index]
                                       /\ db.raft_index # 0
        /\ {n \in Databases(current_index) : Names[n] \notin AttachedNames} = {}
    BY <1>1, <2>1 DEF IInv, Attaching
  <2>3. Shown = Range(attached) /\ Range(attached) \subseteq Entry
    BY <1>1, <2>2, EntryFacts DEF IInv
  <2>4. {db.name : db \in Shown} = {n \in Database : Pin[n][current_index] # 0}
    <3>1. ASSUME NEW db \in Shown
          PROVE  db.name \in Database /\ Pin[db.name][current_index] # 0
      BY <2>2, <2>3 DEF Entry
    <3>2. ASSUME NEW name \in Database, Pin[name][current_index] # 0
          PROVE  \E db \in Shown : name = db.name
      <4>1. PICK n \in DOMAIN Names : name = Names[n]
        BY DEF Database
      <4>2. name \in AttachedNames
        BY <2>2, <3>2, <4>1 DEF Databases
      <4> QED BY <1>1, <2>3, <4>2, EntryFacts DEF IInv, NamesOf
    <3> QED BY <3>1, <3>2
  <2>5. Len(attached) = Cardinality(Shown)
    BY <1>1, <2>3, EntryFacts, NamesAreCounted DEF IInv, Connected, Distinct
  <2>6. command.index # Latest => command.index = current_index
    BY <1>1, <2>1, AttachingFacts DEF IInv, Flow
  <2>7. Shown' = Shown
    BY <2>1 DEF Shown
  <2> QED BY <2>1, <2>2, <2>3, <2>4, <2>5, <2>6, <2>7
<1>2. IInv /\ [Next]_vars => [Complete]_vars
  BY <1>1
<1> QED BY <1>2, Invariance, PTL DEF Spec, SuccessIsComplete

(* A file is an element of the connection before and after a step. *)
Stays(name) ==
  \E db \in {attached[n] : n \in DOMAIN attached}
             \cap {attached'[n] : n \in DOMAIN attached'} : db.name = name

LEMMA StaysInRange ==
  ASSUME TypeOK, NEW name \in AttachedNames,
         \A db \in Range(attached) : db.name = name => db \in Range(attached')
  PROVE  Stays(name)
<1>1. PICK db \in Range(attached) : db.name = name
  BY EntryFacts DEF NamesOf
<1>2. db \in Range(attached')
  BY <1>1
<1> QED BY <1>1, <1>2 DEF Stays, Range

(* What a transaction of the user has read stays attached, at its index, as long
   as the transaction lasts: .index fails rather than move it. *)
THEOREM ReadsAreRepeatable == Spec => TransactionsKeepTheirIndex
<1> DEFINE Keeps == \A name \in reading \cap reading' : Stays(name)
<1>1. ASSUME IInv, [Next]_vars, NEW name \in reading \cap reading'
      PROVE  Stays(name)
  <2> USE <1>1 DEF IInv
  <2>0. /\ name \in AttachedNames /\ TypeOK
        /\ attached \in Seq(Entry) /\ Distinct(attached)
    BY EntryFacts DEF Connected, Distinct
  <2>1. CASE UNCHANGED attached
    BY <2>0, <2>1, StaysInRange
  <2>2. CASE DetachNext
    <3>1. attached # <<>> /\ Head(attached).name \notin reading /\ attached' = Tail(attached)
      BY <2>2 DEF DetachNext
    <3>2. Range(attached') = {db \in Range(attached) : db.name # Head(attached).name}
      BY <2>0, <3>1, TailFacts
    <3>3. name # Head(attached).name
      BY <3>1
    <3> QED BY <2>0, <3>2, <3>3, StaysInRange
  <2>3. CASE AttachNext \/ AttachFails
    <3>1. phase = "attach"
      BY <2>3 DEF AttachNext, AttachFails
    <3> QED BY <3>1 DEF Attaching
  <2>4. CASE Close
    <3>1. reading' = {}
      BY <2>4 DEF Close
    <3> QED BY <3>1
  <2>5. ASSUME NEW other \in Database, Attach(other)
        PROVE  Stays(name)
    <3> DEFINE db == [name |-> other, raft_index |-> 0]
    <3>1. attached' = Append(attached, db) /\ other \notin NamesOf(attached)
      BY <2>0, <2>5, EntryFacts DEF Attach
    <3>2. db \in Entry /\ db.name = other
      BY DEF Entry
    <3> HIDE DEF db
    <3>3. Range(attached') = Range(attached) \cup {db}
      BY <2>0, <3>1, <3>2, AppendFacts
    <3> QED BY <2>0, <3>3, StaysInRange
  <2>6. ASSUME NEW other \in Database, Detach(other)
        PROVE  Stays(name)
    <3>1. PICK k \in DOMAIN attached :
            /\ attached[k].name = other
            /\ attached' = SubSeq(attached, 1, k - 1) \o SubSeq(attached, k + 1, Len(attached))
      BY <2>6 DEF Detach
    <3>2. Range(attached') = {db \in Range(attached) : db.name # other}
      BY <2>0, <3>1, RemoveFacts
    <3>3. other # name
      BY <2>6 DEF Detach
    <3> QED BY <2>0, <3>2, <3>3, StaysInRange
  <2>7. CASE ProgramStep
    <3>1. UNCHANGED connection
      BY <2>7 DEF ProgramStep, OpenFolder, NoMetadata, OpenFolderFails, ParseArguments,
                  Unparsable, EndOfInput, Quit, Ended, Unavailable, Refuse, ListDatabases,
                  IndexOutOfRange, context, vars
    <3> QED BY <2>1, <3>1 DEF connection
  <2>8. CASE \/ \E i \in Asked : OpenOutOfRange(i) \/ BeginIndex(i)
             \/ \E i \in Asked \cup {Latest} : BeginOpen(i)
             \/ DetachFails \/ DetachEnd \/ Succeed \/ EnterSnapshot \/ LeaveSnapshot
    <3>1. UNCHANGED connection
      BY <2>8 DEF OpenOutOfRange, BeginIndex, BeginOpen, DetachFails, DetachEnd, Succeed,
                  EnterSnapshot, LeaveSnapshot
    <3> QED BY <2>1, <3>1 DEF connection
  <2>9. CASE BeginTransaction \/ EndTransaction \/ \E other \in Database : Read(other)
    BY <2>1, <2>9 DEF BeginTransaction, EndTransaction, Read
  <2>10. CASE UNCHANGED vars
    BY <2>1, <2>10 DEF vars, connection
  <2> QED BY <1>1, <2>2, <2>3, <2>4, <2>5, <2>6, <2>7, <2>8, <2>9, <2>10
          DEF Next, CommandStep, ProgramStep
<1>2. IInv /\ [Next]_vars => [Keeps]_vars
  BY <1>1
<1>3. Keeps <=> \A name \in reading \cap reading' :
                  \E db \in {attached[n] : n \in DOMAIN attached}
                            \cap {attached'[n] : n \in DOMAIN attached'} : db.name = name
  BY DEF Stays
<1>4. Spec => [][Keeps]_vars
  BY <1>2, Invariance, PTL DEF Spec
<1> QED BY <1>3, <1>4, PTL DEF TransactionsKeepTheirIndex
=============================================================================
