---------------------------- MODULE MCDqliteVfs -----------------------------
(***************************************************************************)
(* Small folders for DqliteVfs: two databases of two pages, at most one    *)
(* snapshot (at index 2) and three entries, cut into segments in every way *)
(* a node may leave them, closed and open.                                 *)
(***************************************************************************)
EXTENDS Inspect

CONSTANTS a, b, empty, x, y, conf, conf2, none

MCDatabase == {a, b}
MCPageNumber == {1, 2}
MCContent == {empty, x, y}
(* A first page with the content "empty" holds database size 0. *)
MCSize == [c \in MCContent |-> IF c = empty THEN 0 ELSE 1]
MCConfiguration == {conf, conf2}

Fr(page, data) == [page |-> page, data |-> data]
Write(name, frames) == [type |-> "frames", name |-> name, frames |-> frames]
Change == [type |-> "change", configuration |-> conf]
Other == [type |-> "other"]

Entries == {Write(a, <<Fr(1, x), Fr(2, y)>>), Write(a, <<Fr(2, x)>>),
            Write(a, <<Fr(1, empty)>>), Write(b, <<Fr(1, y)>>)}

Db(name, main, wal) == [name |-> name, main |-> main, wal |-> wal]
Snapshot(i, databases) == [index |-> i, configuration |-> conf, databases |-> databases]

(* A checkpointed database, one whose WAL rewrites pages, an empty one. *)
Snapshots ==
  {Snapshot(2, <<Db(a, <<x, x>>, <<Fr(1, y), Fr(2, x), Fr(1, x), Fr(2, y)>>)>>),
   Snapshot(2, <<Db(a, <<y>>, <<>>), Db(b, <<empty, y>>, <<Fr(1, x)>>)>>)}

Closed(first, entries) ==
  [kind |-> "closed", first |-> first, end |-> first + Len(entries) - 1,
   entries |-> entries]
Open(counter, entries) == [kind |-> "open", counter |-> counter, entries |-> entries]

(* The ways to cut three entries, the first at index i, into segments. *)
WithClosed(i, l) ==
  {<<Closed(i, l)>>,
   <<Closed(i, SubSeq(l, 1, 2)), Closed(i + 2, SubSeq(l, 3, 3))>>,
   <<Closed(i, SubSeq(l, 1, 1)), Open(1, SubSeq(l, 2, 2)), Open(2, SubSeq(l, 3, 3)), Open(3, <<>>)>>}
OnlyOpen(l) ==
  {<<Open(1, SubSeq(l, 1, 2)), Open(2, SubSeq(l, 3, 3))>>}

Logs == {<<e, f, g>> : e \in Entries, f \in Entries, g \in Entries}
BootLogs == {<<Change, f, g>> : f \in Entries \cup {Other}, g \in Entries}

Folder(snapshots, segments) == [snapshots |-> snapshots, segments |-> segments]

ClosedFolders ==
  {Folder(<<s>>, segments) : s \in Snapshots,
     segments \in UNION {WithClosed(i, l) : i \in {1, 3}, l \in Logs}}
  \cup {Folder(<<>>, segments) : segments \in UNION {WithClosed(1, l) : l \in BootLogs}}
  \cup {Folder(<<s>>, <<>>) : s \in Snapshots}

OpenFolders ==
  {Folder(<<s>>, segments) : s \in Snapshots,
     segments \in UNION {OnlyOpen(l) : l \in Logs}}
  \cup {Folder(<<>>, segments) : segments \in UNION {OnlyOpen(l) : l \in BootLogs}}

(* An entry that writes a page twice, a log that starts late: these fail. *)
BadFolders ==
  {Folder(<<>>, <<Closed(1, <<Change, Write(a, <<Fr(1, x), Fr(1, y)>>)>>)>>),
   Folder(<<>>, <<Closed(3, <<Change>>)>>)}

(* A snapshot received from the leader: raft keeps the older snapshot and no
   entry before the newer one. *)
GapFolders ==
  {Folder(<<Snapshot(2, <<Db(a, <<x>>, <<>>)>>), Snapshot(5, <<Db(a, <<y>>, <<>>)>>)>>,
          <<Closed(6, <<e, f>>)>>) : e, f \in Entries}

(* The configuration changes at any of three entries, of which a snapshot may
   cover one or two; a second snapshot may have the newest configuration. *)
Reconfigure == [type |-> "change", configuration |-> conf2]
Reconfigured ==
  {<<e, f, g>> : e \in {Change, Other}, f \in {Reconfigure, Other}, g \in {Reconfigure, Change}}
At(i, configuration) == [index |-> i, configuration |-> configuration, databases |-> <<>>]
ConfigurationFolders ==
  {Folder(<<>>, segments) :
     segments \in UNION {WithClosed(1, <<Change>> \o Tail(l)) : l \in Reconfigured}}
  \cup {Folder(<<At(2, conf)>>, segments) :
           segments \in UNION {WithClosed(3, l) : l \in Reconfigured}}
  \cup {Folder(<<At(1, conf), At(3, conf2)>>, segments) :
           segments \in UNION {WithClosed(1, <<Change, Other, Reconfigure>>),
                              WithClosed(2, <<Reconfigure, Other, Other>>)}}

(* TLC keeps the value of AllFolders, but not of what a cfg gives a constant. *)
AllFolders == ClosedFolders \cup OpenFolders \cup BadFolders \cup ConfigurationFolders
MCFolders == AllFolders
=============================================================================
