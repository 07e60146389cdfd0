------------------------------- MODULE LiveOpen -----------------------------
(***************************************************************************)
(* Opening the folder of a dqlite node that runs.  Context::open           *)
(* (src/src/main.rs) calls DqliteDir::open (src/src/dqlite/mod.rs), again  *)
(* after an error; that lists the folder once, then opens the snapshots    *)
(* and the segments of the list one by one.  Meanwhile the node appends to *)
(* its open segments, closes and renames them, takes snapshots, removes    *)
(* old files, and may crash and start again.  A log entry is its own index *)
(* here, so that the numbers the reader gives the entries can be compared  *)
(* with the right ones.  SegmentFile has what a read of one open segment   *)
(* does word by word.                                                      *)
(***************************************************************************)
EXTENDS DqliteFolder

CONSTANTS MaxIndex,    \* bound: entries the node appends
          MaxOpen,     \* open segments raft keeps at a time
          MaxCounter,  \* bound: open segments raft makes
          MaxRetries   \* --max-retries

ASSUME LiveOpenAssumption ==
  /\ MaxIndex \in Nat /\ MaxOpen \in Nat \ {0} /\ MaxCounter \in Nat
  /\ MaxRetries \in Nat

VARIABLES
  closed,     \* closed segments on disk: [first, end]
  opens,      \* open segments on disk: [counter, entries]
  active,     \* which of them raft appends to
  counter,    \* open segments made so far
  appending,  \* a write to the active segment is under way, or was at a crash
  up,         \* the node runs
  taken,      \* indexes of the snapshots on disk, oldest first
  phase,      \* what the reader is doing
  attempt,    \* Context::open: attempts so far
  listed,     \* what the folder held: [snapshots, segments]
  dir,        \* the DqliteDir made so far
  handles     \* closed segments of which it holds the file open

node == <<closed, opens, active, counter, appending, up, taken>>
reader == <<phase, attempt, listed, dir, handles>>
vars == <<node, reader>>

Nothing == [snapshots |-> <<>>, segments |-> <<>>]

LastClosed == IF closed = <<>> THEN 0 ELSE closed[Len(closed)].end

Written == NumEntries(opens)
LastIndex == LastClosed + Written

Init ==
  /\ closed = <<>> /\ opens = <<>> /\ active = 1 /\ counter = 0
  /\ appending = FALSE /\ up = TRUE /\ taken = <<>>
  /\ phase = "start" /\ attempt = 0
  /\ listed = Nothing /\ dir = Nothing /\ handles = {}

-----------------------------------------------------------------------------
(* The node.  raft prepares open segments before it needs them, fills them one
   after the other, and renames the full ones in the background. *)
NodeStep == UNCHANGED reader

Prepare ==
  /\ up
  /\ Len(opens) < MaxOpen
  /\ counter < MaxCounter
  /\ counter' = counter + 1
  /\ opens' = Append(opens, [counter |-> counter + 1, entries |-> <<>>])
  /\ UNCHANGED <<closed, active, appending, taken, up>>
  /\ NodeStep

BeginAppend ==
  /\ up
  /\ ~appending
  /\ active <= Len(opens)
  /\ LastIndex < MaxIndex
  /\ appending' = TRUE
  /\ UNCHANGED <<closed, opens, active, counter, taken, up>>
  /\ NodeStep

EndAppend ==
  /\ up
  /\ appending
  /\ appending' = FALSE
  /\ opens' = [opens EXCEPT ![active].entries = Append(@, LastIndex + 1)]
  /\ UNCHANGED <<closed, active, counter, taken, up>>
  /\ NodeStep

(* The segment is full, or a snapshot closes it. *)
Advance ==
  /\ up
  /\ ~appending
  /\ active <= Len(opens)
  /\ opens[active].entries # <<>>
  /\ active' = active + 1
  /\ UNCHANGED <<closed, opens, counter, appending, taken, up>>
  /\ NodeStep

Finalize ==
  /\ up
  /\ active > 1
  /\ closed' = Append(closed,
       [first |-> LastClosed + 1, end |-> LastClosed + Len(Head(opens).entries)])
  /\ opens' = Tail(opens)
  /\ active' = active - 1
  /\ UNCHANGED <<counter, appending, taken, up>>
  /\ NodeStep

(* raft closes the open segments before it stores a snapshot, and keeps two. *)
TakeSnapshot ==
  /\ up
  /\ closed # <<>>
  /\ \A n \in DOMAIN taken : taken[n] < LastClosed
  /\ taken' = IF Len(taken) < 2 THEN Append(taken, LastClosed)
              ELSE <<taken[2], LastClosed>>
  /\ UNCHANGED <<closed, opens, active, counter, appending, up>>
  /\ NodeStep

(* Entries are removed behind the oldest snapshot: raft keeps more trailing
   entries than there are between two snapshots. *)
RemoveSegment ==
  /\ up
  /\ taken # <<>> /\ Len(closed) > 1
  /\ closed[1].end <= taken[1]
  /\ closed' = Tail(closed)
  /\ UNCHANGED <<opens, active, counter, appending, taken, up>>
  /\ NodeStep

Crash ==
  /\ up
  /\ up' = FALSE
  /\ UNCHANGED <<closed, opens, active, counter, appending, taken>>
  /\ NodeStep

(* The node starts again: it closes its open segments one by one, drops the half
   of a batch that the crash left and removes those without an entry. *)
Recover ==
  /\ ~up /\ opens # <<>>
  /\ closed' = IF Head(opens).entries = <<>> THEN closed
               ELSE Append(closed, [first |-> LastClosed + 1,
                                    end |-> LastClosed + Len(Head(opens).entries)])
  /\ opens' = Tail(opens)
  /\ active' = IF active > 1 THEN active - 1 ELSE 1
  /\ appending' = (appending /\ active > 1)
  /\ UNCHANGED <<counter, up, taken>>
  /\ NodeStep

Restart ==
  /\ ~up /\ opens = <<>>
  /\ up' = TRUE
  /\ UNCHANGED <<closed, opens, active, counter, appending, taken>>
  /\ NodeStep

-----------------------------------------------------------------------------
Indexes(first, end) == [n \in 1..(end - first + 1) |-> first + n - 1]

ClosedSegment(segment) ==
  [kind |-> "closed", first |-> segment.first, end |-> segment.end,
   entries |-> Indexes(segment.first, segment.end)]

(* MUTANT of ListFolder: a retry goes on with what the attempt that failed has
   opened. *)
ListFolderAgain ==
  /\ phase = "start"
  /\ attempt' = attempt + 1
  /\ listed' = [snapshots |-> taken,
                segments |-> [s \in DOMAIN closed |-> [kind |-> "closed", name |-> closed[s]]]
                          \o [s \in DOMAIN opens |-> [kind |-> "open", name |-> opens[s].counter]]]
  /\ phase' = "open"
  /\ UNCHANGED <<node, dir, handles>>

(* uvMetadataLoad and UvList. *)
ListFolder ==
  /\ phase = "start"
  /\ attempt' = attempt + 1
  /\ listed' = [snapshots |-> taken,
                segments |-> [s \in DOMAIN closed |-> [kind |-> "closed", name |-> closed[s]]]
                          \o [s \in DOMAIN opens |-> [kind |-> "open", name |-> opens[s].counter]]]
  /\ dir' = Nothing /\ handles' = {}
  /\ phase' = "open"
  /\ UNCHANGED node

OnDisk(segment) ==
  IF segment.kind = "closed" THEN segment.name \in {closed[s] : s \in DOMAIN closed}
  ELSE segment.name \in {opens[s].counter : s \in DOMAIN opens}

(* What is listed is opened in its order, the snapshots first. *)
SnapshotsLeft == Len(dir.snapshots) < Len(listed.snapshots)
SegmentsLeft == Len(dir.segments) < Len(listed.segments)

NextSnapshot == listed.snapshots[Len(dir.snapshots) + 1]
NextSegment == listed.segments[Len(dir.segments) + 1]

OpenSnapshot ==
  /\ phase = "open"
  /\ SnapshotsLeft
  /\ NextSnapshot \in {taken[n] : n \in DOMAIN taken}
  /\ dir' = [dir EXCEPT !.snapshots = Append(@, [index |-> NextSnapshot])]
  /\ UNCHANGED <<node, phase, attempt, listed, handles>>

ToOpen == phase = "open" /\ ~SnapshotsLeft /\ SegmentsLeft

(* MUTANT of OpenClosed: the file is opened when it is read. *)
OpenClosedLater ==
  /\ ToOpen
  /\ NextSegment.kind = "closed" /\ OnDisk(NextSegment)
  /\ dir' = [dir EXCEPT !.segments = Append(@, ClosedSegment(NextSegment.name))]
  /\ UNCHANGED <<node, phase, attempt, listed, handles>>

(* A closed segment is only opened; what it holds never changes. *)
OpenClosed ==
  /\ ToOpen
  /\ NextSegment.kind = "closed" /\ OnDisk(NextSegment)
  /\ dir' = [dir EXCEPT !.segments = Append(@, ClosedSegment(NextSegment.name))]
  /\ handles' = handles \cup {NextSegment.name}
  /\ UNCHANGED <<node, phase, attempt, listed>>

(* An open segment is read at once, as far as it is written. *)
ReadOpen ==
  /\ ToOpen
  /\ NextSegment.kind = "open"
  /\ \E s \in DOMAIN opens :
       /\ opens[s].counter = NextSegment.name
       /\ dir' = [dir EXCEPT !.segments = Append(@,
                    [kind |-> "open", counter |-> opens[s].counter,
                     entries |-> opens[s].entries])]
  /\ UNCHANGED <<node, phase, attempt, listed, handles>>

(* A file of the list is gone, or an open segment ends in half a batch. *)
Missing ==
  \/ SnapshotsLeft /\ NextSnapshot \notin {taken[n] : n \in DOMAIN taken}
  \/ ToOpen /\ ~OnDisk(NextSegment)

HalfWritten ==
  /\ ToOpen
  /\ NextSegment.kind = "open"
  /\ appending
  /\ OnDisk(NextSegment)
  /\ opens[active].counter = NextSegment.name

(* MUTANTS of OpenFails: one attempt too many; attempts that never end; a
   segment that is gone is passed over. *)
OpenFailsOnceMore ==
  /\ phase = "open"
  /\ Missing \/ HalfWritten
  /\ phase' = IF attempt > MaxRetries THEN "failed" ELSE "start"
  /\ UNCHANGED <<node, attempt, listed, dir, handles>>

OpenFailsAgain ==
  /\ phase = "open"
  /\ Missing \/ HalfWritten
  /\ attempt' = attempt - 1
  /\ phase' = "start"
  /\ UNCHANGED <<node, listed, dir, handles>>

PassOverMissing ==
  /\ ToOpen
  /\ ~OnDisk(NextSegment)
  /\ LET n == Len(dir.segments)
     IN listed' = [listed EXCEPT !.segments = SubSeq(@, 1, n) \o SubSeq(@, n + 2, Len(@))]
  /\ UNCHANGED <<node, phase, attempt, dir, handles>>

OpenFails ==
  /\ phase = "open"
  /\ Missing \/ HalfWritten
  /\ phase' = IF attempt >= MaxRetries THEN "failed" ELSE "start"
  /\ UNCHANGED <<node, attempt, listed, dir, handles>>

Opened ==
  /\ phase = "open"
  /\ ~SnapshotsLeft /\ ~SegmentsLeft
  /\ phase' = "opened"
  /\ UNCHANGED <<node, attempt, listed, dir, handles>>

(* Commands read the closed segments later, through the handles. *)
Readable(segment) == IsClosed(segment) =>
  LET name == [first |-> segment.first, end |-> segment.end]
  IN name \in handles \/ OnDisk([kind |-> "closed", name |-> name])

ReadEntries ==
  /\ phase = "opened"
  /\ phase' = IF \A s \in DOMAIN dir.segments : Readable(dir.segments[s])
              THEN "read" ELSE "unreadable"
  /\ UNCHANGED <<node, attempt, listed, dir, handles>>

-----------------------------------------------------------------------------
ReaderStep ==
  \/ ListFolder \/ OpenSnapshot \/ OpenClosed \/ ReadOpen \/ OpenFails
  \/ Opened \/ ReadEntries

(* The reader has ended, and the node may be idle. *)
Ended == phase \in {"read", "unreadable", "failed"} /\ UNCHANGED vars

Next ==
  \/ ReaderStep
  \/ Prepare \/ BeginAppend \/ EndAppend \/ Advance \/ Finalize
  \/ TakeSnapshot \/ RemoveSegment
  \/ Crash \/ Recover \/ Restart
  \/ Ended

Spec == Init /\ [][Next]_vars

(* The reader is a thread that runs; nothing is asked of the node. *)
FairSpec == Spec /\ WF_vars(ReaderStep)

-----------------------------------------------------------------------------
(* MUTANT of Numbered: entries are counted from the first one in the folder. *)
NumberedFromOne(s, e) == NumEntries(SubSeq(dir.segments, 1, s - 1)) + e

(* The index load_segments_from gives the entry. *)
Numbered(s, e) == FirstIndex(dir) + NumEntries(SubSeq(dir.segments, 1, s - 1)) + e - 1

NumberedRight(segments) ==
  \A s \in segments : \A e \in DOMAIN dir.segments[s].entries :
    dir.segments[s].entries[e] = Numbered(s, e)

Done == phase \in {"opened", "read"}

(* Segments in the folder, in its list and in a DqliteDir. *)
Name == [first : 1..MaxIndex, end : 1..MaxIndex]

OpenFile == [counter : 1..MaxCounter, entries : Seq(1..MaxIndex)]

Listed == [kind : {"closed"}, name : Name] \cup [kind : {"open"}, name : 1..MaxCounter]

Segment ==
  [kind : {"closed"}, first : 1..MaxIndex, end : 1..MaxIndex, entries : Seq(1..MaxIndex)]
    \cup [kind : {"open"}, counter : 1..MaxCounter, entries : Seq(1..MaxIndex)]

(* Every variable keeps to its type; --max-retries bounds the attempts. *)
TypeOK ==
  /\ closed \in Seq(Name) /\ opens \in Seq(OpenFile)
  /\ active \in 1..(Len(opens) + 1) /\ counter \in 0..MaxCounter
  /\ appending \in BOOLEAN /\ up \in BOOLEAN
  /\ taken \in Seq(1..MaxIndex)
  /\ phase \in {"start", "open", "opened", "read", "unreadable", "failed"}
  /\ attempt \in 0..MaxRetries \cup {1}
  /\ listed \in [snapshots : Seq(1..MaxIndex), segments : Seq(Listed)]
  /\ dir \in [snapshots : Seq([index : 1..MaxIndex]), segments : Seq(Segment)]
  /\ handles \subseteq Name

(* Whatever the node renames and removes while the folder is opened, the entries
   of the closed segments and of the first open one get their right numbers. *)
PrefixIsRight ==
  Done => NumberedRight({s \in DOMAIN dir.segments : s <= NumClosedSegments(dir) + 1})

(* An opened folder lacks no entry between its oldest snapshot and the end of
   its closed segments. *)
LogMeetsSnapshot ==
  Done =>
    /\ dir.snapshots # <<>> => FirstIndex(dir) <= dir.snapshots[1].index + 1
    /\ \A s \in 1..(NumClosedSegments(dir) - 1) :
         dir.segments[s + 1].first = dir.segments[s].end + 1

(* Segments that the node removes after the folder was opened can still be
   read: the files are opened as soon as possible. *)
OpenedStaysReadable == phase # "unreadable"

(* Attempts are counted, and the first is always made. *)
AttemptsAllowed == IF MaxRetries = 0 THEN 1 ELSE MaxRetries

IsNamed(segment, name) ==
  IF IsClosed(segment) THEN name = [first |-> segment.first, end |-> segment.end]
  ELSE name = segment.counter

(* A retry starts over: what is opened in the end is one listing, all of it and
   in its order, with nothing of the attempts that failed; and an error is only
   returned when all attempts were made. *)
RetriesStartOver ==
  /\ phase = "failed" => attempt = AttemptsAllowed
  /\ Done =>
       /\ Len(dir.snapshots) = Len(listed.snapshots)
       /\ \A n \in DOMAIN dir.snapshots : dir.snapshots[n].index = listed.snapshots[n]
       /\ Len(dir.segments) = Len(listed.segments)
       /\ \A s \in DOMAIN dir.segments :
            /\ dir.segments[s].kind = listed.segments[s].kind
            /\ IsNamed(dir.segments[s], listed.segments[s].name)

(* Opening ends, with a folder or an error, however the node goes on. *)
OpeningEnds == <>(phase \in {"read", "unreadable", "failed"})

(* The node need not be stopped: an opened folder holds the log without a hole,
   every entry at its index. *)
LogHasNoHole == Done => NumberedRight(DOMAIN dir.segments)
=============================================================================
