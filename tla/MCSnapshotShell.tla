--------------------------- MODULE MCSnapshotShell --------------------------
(* SnapshotShell with two servers, and two databases of which either may have
   a rollback journal and another page size, and other contents. *)
EXTENDS SnapshotShell

MCValues == [raft_term |-> {1}, raft_index |-> {1}, timestamp |-> {-1, 0, 1}]
MCFileStates == {[journal |-> "wal", page_size |-> 1, content |-> 1],
                 [journal |-> "rollback", page_size |-> 2, content |-> 2]}
=============================================================================
