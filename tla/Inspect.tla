-------------------------------- MODULE Inspect -----------------------------
(***************************************************************************)
(* .log, .config and .status (src/src/command/log.rs, config.rs,           *)
(* status.rs) read the same DqliteDir as .open, each by a walk of its own: *)
(* from the newest entry backwards, where DqliteVfs loads it forwards.     *)
(* They change nothing; this module says what they show and compares it    *)
(* with what .open shows of the same folder.                               *)
(***************************************************************************)
EXTENDS DqliteVfs

(* .log: the index of the newest entry, as CurrentIndex computes it, and what
   is left of it after the segments behind s. *)
LogIndexAfter(f, s) ==
  CurrentIndex(f) - NumEntries(SubSeq(f.segments, s + 1, Len(f.segments)))

(* MUTANT of LogIndex: the count starts before the newest entry. *)
LogIndexBefore(f, s, e) == LogIndexAfter(f, s) - (Len(f.segments[s].entries) - e) - 1

(* .log: the index beside entry e of segment s. *)
LogIndex(f, s, e) == LogIndexAfter(f, s) - (Len(f.segments[s].entries) - e)

(* The assertion of LogCommand::run. *)
LogAssertion(f) ==
  \A s \in DOMAIN f.segments :
    IsClosed(f.segments[s]) => LogIndexAfter(f, s) = f.segments[s].end

IsChange(entry) == entry.type = "change"

(* The places of configurations in the log. *)
ChangesIn(f) ==
  {p \in Places(f.segments) : IsChange(f.segments[p[1]].entries[p[2]])}

Later(c, d) == c[1] > d[1] \/ (c[1] = d[1] /\ c[2] >= d[2])

(* MUTANT of CurrentConfiguration: the log is walked forwards. *)
OldestConfiguration(f) ==
  LET changes == ChangesIn(f)
      oldest == CHOOSE c \in changes : \A d \in changes : Later(d, c)
  IN IF changes # {} THEN f.segments[oldest[1]].entries[oldest[2]].configuration
     ELSE f.snapshots[Len(f.snapshots)].configuration

(* .config: the newest configuration of the log, or that of the newest snapshot
   (an error if there is neither). *)
CurrentConfiguration(f) ==
  LET changes == ChangesIn(f)
      newest == CHOOSE c \in changes : \A d \in changes : Later(c, d)
  IN IF changes # {} THEN f.segments[newest[1]].entries[newest[2]].configuration
     ELSE f.snapshots[Len(f.snapshots)].configuration

-----------------------------------------------------------------------------
(* .log never fails its assertion and counts backwards to the same indexes that
   .open loads forwards: an entry shown at an index of the timeline is the one
   whose pages, and whose configuration, were loaded at that index. *)
LogShowsWhatIsLoaded ==
  [][FinishLoading /\ LogIsContiguous =>
    /\ LogAssertion(folder)
    /\ \A s \in DOMAIN folder.segments : \A e \in DOMAIN folder.segments[s].entries :
         LET entry == folder.segments[s].entries[e]
             i == LogIndex(folder, s, e)
         IN i > first_index =>
              /\ i \in raft_log
              /\ {k \in DOMAIN dqlite_transaction : k[1] = i} =
                   IF entry.type = "frames"
                   THEN {<<i, entry.name, entry.frames[n].page>> : n \in DOMAIN entry.frames}
                   ELSE {}
              /\ i \in DOMAIN raft_configuration <=> IsChange(entry)]_vars

(* .config and the newest row of raft_configuration agree, although one looks
   into the log first and then at the newest snapshot, and the other was loaded
   from the oldest snapshot and the log after it.  (Without a snapshot .open
   skips the first entry, raft's first configuration, and may have no row.) *)
ConfigIsTheOneLoaded ==
  [][FinishLoading /\ LogIsContiguous /\ DOMAIN raft_configuration # {} =>
    CurrentConfiguration(folder) = raft_configuration[Max(DOMAIN raft_configuration)]]_vars
=============================================================================
