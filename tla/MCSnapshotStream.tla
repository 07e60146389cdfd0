--------------------------- MODULE MCSnapshotStream -------------------------
(***************************************************************************)
(* Up to two attached databases of up to three pages, in WAL mode, their   *)
(* WALs in part copied back or grown over the main file, with or without   *)
(* stale frames.                                                           *)
(***************************************************************************)
EXTENDS SnapshotStream

CONSTANTS x, y, z, hole

MCContent == {x, y, z}

Frame(p, data) == [page |-> p, data |-> data]
Database(main, wal, valid, size) ==
  [main |-> main, wal |-> wal, valid |-> valid, size |-> size]

Plain == Database(<<x>>, <<>>, 0, 1)
Rewritten == Database(<<x, x>>, <<Frame(2, y), Frame(1, y), Frame(2, z)>>, 3, 2)
Growing == Database(<<x>>, <<Frame(1, y), Frame(3, z), Frame(2, y)>>, 3, 3)
Shrinking == Database(<<x, x>>, <<Frame(1, y)>>, 1, 1)
Stale == Database(<<x, x>>, <<Frame(2, z), Frame(2, x)>>, 1, 2)

(* No database that grows beside one that shrinks: that is Opposite. *)
MCAttached ==
  {<<>>, <<Rewritten>>, <<Growing>>, <<Shrinking>>,
   <<Growing, Plain>>, <<Plain, Growing>>, <<Rewritten, Growing>>, <<Shrinking, Rewritten>>}

(* Their sizes may come to the announced sum although the headers are wrong. *)
Opposite == {<<Growing, Shrinking>>}

WithStaleFrames == {<<Stale>>, <<Stale, Plain>>}
=============================================================================
