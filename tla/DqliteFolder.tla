---------------------------- MODULE DqliteFolder ----------------------------
(***************************************************************************)
(* The folder of a dqlite node as DqliteDir::open (src/src/dqlite/mod.rs)  *)
(* leaves it in memory: the snapshots, oldest first, and the segments,     *)
(* closed ones first, then open ones, both as UvList sorts them.           *)
(*                                                                         *)
(*   folder   [snapshots |-> Seq(snapshot), segments |-> Seq(segment)]     *)
(*   snapshot [index, configuration, databases |-> Seq(database)]          *)
(*   database [name, main |-> Seq(Content), wal |-> Seq(frame)]            *)
(*   segment  [kind |-> "closed", first, end, entries |-> Seq(entry)]      *)
(*         or [kind |-> "open", counter, entries |-> Seq(entry)]           *)
(*   entry    [type |-> "frames", name, frames |-> Seq(frame)]             *)
(*         or [type |-> "change", configuration]                           *)
(*         or [type |-> "other"]  (barrier, open, undo, checkpoint)        *)
(*   frame    [page, data]                                                 *)
(***************************************************************************)
EXTENDS Integers, Sequences, FiniteSetsExt, Functions

IsClosed(segment) == segment.kind = "closed"

(* The log index of the first entry the folder holds. *)
FirstIndex(folder) ==
  LET segments == folder.segments
      snapshots == folder.snapshots
  IN CASE segments # <<>> /\ IsClosed(segments[1]) -> segments[1].first
       [] segments # <<>> /\ ~IsClosed(segments[1]) /\ snapshots # <<>> ->
            snapshots[1].index + 1
       [] segments = <<>> /\ snapshots # <<>> -> snapshots[1].index
       [] OTHER -> 1

(* Everything before the trailing run of open segments. *)
NumClosedSegments(folder) ==
  Max({0} \cup {s \in DOMAIN folder.segments : IsClosed(folder.segments[s])})

ClosedSegments(folder) == SubSeq(folder.segments, 1, NumClosedSegments(folder))

OpenSegments(folder) ==
  SubSeq(folder.segments, NumClosedSegments(folder) + 1, Len(folder.segments))

(* An entry is a place in a segment. *)
Places(segments) == UNION {{s} \X DOMAIN segments[s].entries : s \in DOMAIN segments}

NumEntries(segments) == Cardinality(Places(segments))

(* The index the code believes the last entry has.  With no closed segment
   the open entries are counted from FirstIndex itself. *)
CurrentIndex(folder) ==
  LET closed == ClosedSegments(folder)
  IN (IF closed = <<>> THEN FirstIndex(folder) ELSE closed[Len(closed)].end)
       + NumEntries(OpenSegments(folder))

-----------------------------------------------------------------------------
(* What raft means by the same files, to compare the code with.  On start-up
   raft numbers the entries of the segments on from the first closed segment
   or, when there are only open segments, from the newest snapshot. *)
RaftStart(folder) ==
  LET segments == folder.segments
      snapshots == folder.snapshots
  IN CASE segments # <<>> /\ IsClosed(segments[1]) -> segments[1].first
       [] OTHER -> IF snapshots = <<>> THEN 1
                   ELSE snapshots[Len(snapshots)].index + 1

RaftIndex(folder, s, e) ==
  RaftStart(folder) + NumEntries(SubSeq(folder.segments, 1, s - 1)) + e - 1

(* The file name of a closed segment agrees with its content. *)
NamedRight(folder) ==
  \A s \in DOMAIN folder.segments :
    IsClosed(folder.segments[s]) =>
      LET segment == folder.segments[s]
      IN /\ segment.first = RaftIndex(folder, s, 1)
         /\ segment.end = segment.first + Len(segment.entries) - 1
         /\ segment.entries # <<>>

(* UvList puts closed segments before open ones. *)
Sorted(folder) ==
  \A s, t \in DOMAIN folder.segments :
    s < t => (IsClosed(folder.segments[t]) => IsClosed(folder.segments[s]))
=============================================================================
