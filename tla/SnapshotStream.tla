---------------------------- MODULE SnapshotStream --------------------------
(***************************************************************************)
(* The data file of a snapshot: .finish writes the attached databases into *)
(* it (DqliteSnapshotBuilder, src/src/dqlite/mod.rs), twice sizing files   *)
(* that a checkpoint of another process may change meanwhile, and .open    *)
(* reads it through two buffers (read_content, and BufReader in the        *)
(* DatabaseLoader of src/src/command/open/vfs.rs).  The file is a sequence *)
(* of units; headers and pages are of two units, so that a read may return *)
(* part of one.                                                            *)
(***************************************************************************)
EXTENDS Integers, FiniteSetsExt, SequencesExt

CONSTANTS Attached,  \* the databases to write: sequences of
                     \* [main, wal |-> Seq of [page, data], valid, size]
          Content, Hole, Chunk

(* The first "valid" frames of a WAL are those of its last reset; stale ones
   may follow.  SQLite keeps every page up to size in one of the two files. *)
AttachedDatabase == [main : Seq(Content), wal : Seq([page : Nat \ {0}, data : Content]),
                     valid : Nat, size : Nat]

ASSUME AttachedAssumption ==
  /\ Chunk \in Nat \ {0}
  /\ Hole \notin Content
  /\ \A s \in Attached :
       /\ s \in Seq(AttachedDatabase)
       /\ \A i \in DOMAIN s :
            /\ s[i].valid <= Len(s[i].wal)
            /\ 1..s[i].size \subseteq DOMAIN s[i].main \cup {s[i].wal[f].page : f \in 1..s[i].valid}

VARIABLES
  db,                   \* the attached databases
  stage,                \* what write_to, then read_content, is about to do
  at,                   \* the database it is at
  total,                \* write_compressed_snapshot_data: the size announced
  len, page,            \* write_file: length of the main file, pages written
  out,                  \* the data file
  pos, buf,             \* units read from the file; BufferedReader.buf
  limit, lbuf,          \* Take: units left; BufReader of the loader
  n_databases, wal_size,  \* read from the headers
  loaded                \* the databases read: page -> data

writing == <<total, len, page, out>>
reading == <<pos, buf, limit, lbuf, n_databases, wal_size, loaded>>
vars == <<db, stage, at, writing, reading>>

-----------------------------------------------------------------------------
PageUnits(data) == [h \in 1..2 |-> [type |-> "page", data |-> data, half |-> h]]
Header(n) == [h \in 1..2 |-> [type |-> "header", n |-> n, half |-> h]]
DatabaseHeader(main, wal) ==
  [h \in 1..2 |-> [type |-> "database", main_size |-> main, wal_size |-> wal, half |-> h]]

FrameUnits(frame) == <<[type |-> "frame", page |-> frame.page]>> \o PageUnits(frame.data)

(* The journal file is copied up to its length, stale frames and all. *)
WalUnits(d) ==
  IF db[d].wal = <<>> THEN <<>>
  ELSE <<[type |-> "wal"]>> \o FlattenSeq([f \in DOMAIN db[d].wal |-> FrameUnits(db[d].wal[f])])

MainSize(d) == 2 * Len(db[d].main)
WalSize(d) == Len(WalUnits(d))

(* A page as SQLite reads it: the last valid frame, or the main file. *)
PageOf(d, p) ==
  LET frames == {f \in 1..db[d].valid : db[d].wal[f].page = p}
  IN IF frames # {} THEN db[d].wal[Max(frames)].data ELSE db[d].main[p]

(* Beside the files, the page a checkpoint has come to. *)
Opened(database) ==
  [main |-> database.main, wal |-> database.wal, valid |-> database.valid,
   size |-> database.size, copied |-> 0]

Init ==
  /\ db \in {[i \in DOMAIN s |-> Opened(s[i])] : s \in Attached}
  /\ stage = (IF db = <<>> THEN "header" ELSE "size") /\ at = 1
  /\ total = 2 /\ len = 0 /\ page = 0
  /\ out = <<>>
  /\ pos = 0 /\ buf = <<>>
  /\ limit = 0 /\ lbuf = <<>>
  /\ n_databases = 0 /\ wal_size = 0
  /\ loaded = <<>>

-----------------------------------------------------------------------------
(* A checkpoint of another process.  The write locks of .finish do not prevent
   it: it needs none, and only the reset of the WAL would.  It copies the newest
   frame of each page, upwards, and then cuts the file to the size. *)
Copied(d) == {p \in {db[d].wal[f].page : f \in 1..db[d].valid} : p <= db[d].size}

PutPage(main, p, data) ==
  [q \in 1..Max({p, Len(main)}) |->
     IF q = p THEN data ELSE IF q <= Len(main) THEN main[q] ELSE Hole]

Checkpoint(d) ==
  LET left == {p \in Copied(d) : p > db[d].copied}
  IN /\ stage \in {"size", "header", "database", "main_len", "main"}
     /\ IF left # {}
        THEN db' = [db EXCEPT ![d].main = PutPage(@, Min(left), PageOf(d, Min(left))),
                              ![d].copied = Min(left)]
        ELSE /\ Copied(d) # {}
             /\ Len(db[d].main) > db[d].size
             /\ db' = [db EXCEPT ![d].main = SubSeq(@, 1, db[d].size)]
     /\ UNCHANGED <<stage, at, writing, reading>>

-----------------------------------------------------------------------------
IsLast(d) == d = Len(db)

(* write_compressed_snapshot_data, before anything is written. *)
AddSize ==
  /\ stage = "size"
  /\ total' = total + 2 + MainSize(at) + WalSize(at)
  /\ IF IsLast(at) THEN stage' = "header" /\ at' = 1
     ELSE UNCHANGED stage /\ at' = at + 1
  /\ UNCHANGED <<db, len, page, out, reading>>

WriteHeader ==
  /\ stage = "header"
  /\ out' = Header(Len(db))
  /\ stage' = IF db = <<>> THEN "encoded" ELSE "database"
  /\ UNCHANGED <<db, at, total, len, page, reading>>

WriteDatabaseHeader ==
  /\ stage = "database"
  /\ out' = out \o DatabaseHeader(MainSize(at), WalSize(at))
  /\ stage' = "main_len"
  /\ UNCHANGED <<db, at, total, len, page, reading>>

(* write_file asks for the length again. *)
BeginMain ==
  /\ stage = "main_len"
  /\ len' = Len(db[at].main)
  /\ page' = 0
  /\ stage' = "main"
  /\ UNCHANGED <<db, at, total, out, reading>>

(* A page the checkpoint has cut off meanwhile reads as zeros. *)
WritePage ==
  /\ stage = "main"
  /\ page < len
  /\ page' = page + 1
  /\ out' = out \o PageUnits(IF page' <= Len(db[at].main) THEN db[at].main[page'] ELSE Hole)
  /\ UNCHANGED <<db, stage, at, total, len, reading>>

(* The WAL does not change under the write lock. *)
WriteWal ==
  /\ stage = "main"
  /\ page = len
  /\ out' = out \o WalUnits(at)
  /\ IF IsLast(at) THEN stage' = "encoded" /\ at' = 1
     ELSE stage' = "database" /\ at' = at + 1
  /\ UNCHANGED <<db, total, len, page, reading>>

(* MUTANT of FinishEncoder: the frame is closed whatever its size. *)
FinishUnchecked ==
  /\ stage = "encoded"
  /\ stage' = "read_header"
  /\ UNCHANGED <<db, at, writing, reading>>

(* encoder.finish fails unless the announced size was written. *)
FinishEncoder ==
  /\ stage = "encoded"
  /\ stage' = IF Len(out) = total THEN "read_header" ELSE "failed"
  /\ UNCHANGED <<db, at, writing, reading>>

-----------------------------------------------------------------------------
Sizes(room, available) == 1..Min({Chunk, room, available})
NextUnits(n) == SubSeq(out, pos + 1, pos + n)

(* MUTANTS of Refill: it reads before it tries to decode; what was left in the
   buffer is thrown away. *)
RefillFirst(n) ==
  /\ stage \in {"read_header", "read_database"}
  /\ n \in Sizes(Chunk, Len(out) - pos)
  /\ buf' = buf \o NextUnits(n)
  /\ pos' = pos + n
  /\ UNCHANGED <<db, stage, at, writing, limit, lbuf, n_databases, wal_size, loaded>>

RefillAnew(n) ==
  /\ stage \in {"read_header", "read_database"}
  /\ Len(buf) < 2
  /\ n \in Sizes(Chunk, Len(out) - pos)
  /\ buf' = NextUnits(n)
  /\ pos' = pos + n
  /\ UNCHANGED <<db, stage, at, writing, limit, lbuf, n_databases, wal_size, loaded>>

(* deserialize reads on, with reads of any length, until a header can be
   decoded; at the end of the file it does so for ever. *)
Refill(n) ==
  /\ stage \in {"read_header", "read_database"}
  /\ Len(buf) < 2
  /\ n \in Sizes(Chunk, Len(out) - pos)
  /\ buf' = buf \o NextUnits(n)
  /\ pos' = pos + n
  /\ UNCHANGED <<db, stage, at, writing, limit, lbuf, n_databases, wal_size, loaded>>

Whole(units, type) ==
  /\ Len(units) >= 2
  /\ units[1].type = type /\ units[1].half = 1
  /\ units[2] = [units[1] EXCEPT !.half = 2]

Drop2(units) == SubSeq(units, 3, Len(units))

DecodeHeader ==
  /\ stage = "read_header"
  /\ Whole(buf, "header")
  /\ buf' = Drop2(buf)
  /\ n_databases' = buf[1].n
  /\ stage' = IF buf[1].n = 0 THEN "done" ELSE "read_database"
  /\ UNCHANGED <<db, at, writing, pos, limit, lbuf, wal_size, loaded>>

DecodeDatabase ==
  /\ stage = "read_database"
  /\ Whole(buf, "database")
  /\ buf' = Drop2(buf)
  /\ limit' = buf[1].main_size
  /\ wal_size' = buf[1].wal_size
  /\ loaded' = Append(loaded, <<>>)
  /\ stage' = "read_main"
  /\ UNCHANGED <<db, at, writing, pos, lbuf, n_databases>>

(* What the loader is to find at the front of its buffer. *)
Wants ==
  CASE stage = "read_main" -> 2
    [] stage = "read_wal" -> 1
    [] stage = "read_frame" -> 3
    [] OTHER -> 0

(* MUTANT of Fill: read goes to the file, past what deserialize left. *)
FillFromFile(n) ==
  /\ Len(lbuf) < Wants
  /\ n \in Sizes(limit, Len(out) - pos)
  /\ lbuf' = lbuf \o NextUnits(n)
  /\ pos' = pos + n
  /\ limit' = limit - n
  /\ UNCHANGED <<db, stage, at, writing, buf, n_databases, wal_size, loaded>>

(* BufReader, through Take, gets what is left of BufferedReader.buf or else a
   read of the file. *)
Fill(n) ==
  /\ Len(lbuf) < Wants
  /\ IF buf # <<>>
     THEN /\ n \in Sizes(limit, Len(buf))
          /\ lbuf' = lbuf \o SubSeq(buf, 1, n)
          /\ buf' = SubSeq(buf, n + 1, Len(buf))
          /\ UNCHANGED pos
     ELSE /\ n \in Sizes(limit, Len(out) - pos)
          /\ lbuf' = lbuf \o NextUnits(n)
          /\ pos' = pos + n
          /\ UNCHANGED buf
  /\ limit' = limit - n
  /\ UNCHANGED <<db, stage, at, writing, n_databases, wal_size, loaded>>

(* MUTANT of Load: an INSERT that ignores a row that exists. *)
LoadFirst(number, data) ==
  loaded' = [loaded EXCEPT ![at] =
               [p \in DOMAIN @ \cup {number} |-> IF p \in DOMAIN @ THEN @[p] ELSE data]]

(* INSERT of a page, REPLACE of the row of its number. *)
Load(number, data) ==
  loaded' = [loaded EXCEPT ![at] =
               [p \in DOMAIN @ \cup {number} |-> IF p = number THEN data ELSE @[p]]]

LoadMainPage ==
  /\ stage = "read_main"
  /\ Whole(lbuf, "page")
  /\ Load(Cardinality(DOMAIN loaded[at]) + 1, lbuf[1].data)
  /\ lbuf' = Drop2(lbuf)
  /\ UNCHANGED <<db, stage, at, writing, pos, buf, limit, n_databases, wal_size>>

AtEnd == lbuf = <<>> /\ (limit = 0 \/ (buf = <<>> /\ pos = Len(out)))

LoadMainEnd ==
  /\ stage = "read_main"
  /\ AtEnd
  /\ limit' = wal_size
  /\ stage' = "read_wal"
  /\ UNCHANGED <<db, at, writing, pos, buf, lbuf, n_databases, wal_size, loaded>>

SkipWalHeader ==
  /\ stage = "read_wal"
  /\ lbuf # <<>>
  /\ lbuf[1].type = "wal"
  /\ lbuf' = Tail(lbuf)
  /\ stage' = "read_frame"
  /\ UNCHANGED <<db, at, writing, pos, buf, limit, n_databases, wal_size, loaded>>

(* Every frame in the file, whether it is one of the last reset or not. *)
LoadWalFrame ==
  /\ stage = "read_frame"
  /\ Len(lbuf) >= 3
  /\ lbuf[1].type = "frame" /\ Whole(Tail(lbuf), "page")
  /\ Load(lbuf[1].page, lbuf[2].data)
  /\ lbuf' = Drop2(Tail(lbuf))
  /\ UNCHANGED <<db, stage, at, writing, pos, buf, limit, n_databases, wal_size>>

LoadWalEnd ==
  /\ stage \in {"read_wal", "read_frame"}
  /\ AtEnd
  /\ IF at = n_databases THEN stage' = "done" /\ UNCHANGED at
     ELSE stage' = "read_database" /\ at' = at + 1
  /\ UNCHANGED <<db, writing, reading>>

(* An error of the file system.  (A file that ends inside a page or a frame is
   one too, but none that is whole does.) *)
Fails ==
  /\ stage \notin {"done", "failed"}
  /\ stage' = "failed"
  /\ UNCHANGED <<db, at, writing, reading>>

WriteStep ==
  \/ AddSize \/ WriteHeader \/ WriteDatabaseHeader
  \/ BeginMain \/ WritePage \/ WriteWal \/ FinishEncoder

ReadStep ==
  \/ \E n \in 1..Chunk : Refill(n) \/ Fill(n)
  \/ DecodeHeader \/ DecodeDatabase
  \/ LoadMainPage \/ LoadMainEnd \/ SkipWalHeader \/ LoadWalFrame \/ LoadWalEnd

Ended == stage \in {"done", "failed"} /\ UNCHANGED vars

Next ==
  \/ WriteStep \/ ReadStep \/ Fails \/ Ended
  \/ \E d \in DOMAIN db : Checkpoint(d)

Spec == Init /\ [][Next]_vars

(* Both are loops on one thread. *)
FairSpec == Spec /\ WF_vars(WriteStep \/ ReadStep)

-----------------------------------------------------------------------------
(* Every variable keeps to its type; no buffer grows beyond what a header or a
   frame takes and one more read. *)
TypeOK ==
  /\ stage \in {"size", "header", "database", "main_len", "main", "encoded",
               "read_header", "read_database", "read_main", "read_wal", "read_frame",
               "done", "failed"}
  /\ at \in 1..Max({1, Len(db)})
  /\ total \in Nat /\ len \in Nat /\ page \in 0..len
  /\ pos \in 0..Len(out) /\ limit \in Nat
  /\ Len(buf) < 2 + Chunk /\ Len(lbuf) < 3 + Chunk
  /\ \A d \in DOMAIN loaded : \A p \in DOMAIN loaded[d] : loaded[d][p] \in Content \cup {Hole}

(* Wherever reads end, what follows a header that was decoded goes to the loader
   first and the next header is looked for where the database ends, although two
   layers read ahead: nothing is ever taken for what it is not. *)
NothingIsMisread ==
  /\ stage = "read_header" /\ Len(buf) >= 2 => Whole(buf, "header")
  /\ stage = "read_database" /\ Len(buf) >= 2 => Whole(buf, "database")
  /\ stage = "read_main" /\ Len(lbuf) >= 2 => Whole(lbuf, "page")
  /\ stage = "read_wal" /\ lbuf # <<>> => lbuf[1].type = "wal"
  /\ stage = "read_frame" /\ Len(lbuf) >= 3 =>
       lbuf[1].type = "frame" /\ Whole(Tail(lbuf), "page")

(* What follows the header of a database is as long as it says. *)
SizesMatch ==
  LET headers == {k \in DOMAIN out : out[k].type = "database" /\ out[k].half = 1}
      End(k) == Min({j \in headers : j > k} \cup {Len(out) + 1})
  IN \A k \in headers : End(k) - k - 2 = out[k].main_size + out[k].wal_size

(* A data file whose frame was closed is as long as its headers say, database by
   database, although the files were sized three times while a checkpoint could
   change them.  The announced size is to catch that; it is a sum, and one main
   file may grow by what another loses. *)
HeadersAreRight ==
  stage \in {"read_header", "read_database", "read_main", "read_wal", "read_frame", "done"} =>
    SizesMatch

(* Every page of an attached database reads from the snapshot as SQLite read it,
   however far a checkpoint was between two pages of the copy. *)
SnapshotIsDatabase ==
  stage = "done" =>
    \A d \in DOMAIN db : \A p \in 1..db[d].size :
      p \in DOMAIN loaded[d] /\ loaded[d][p] = PageOf(d, p)

(* Writing and reading come to an end. *)
StreamEnds == (stage = "header") ~> (stage \in {"done", "failed"})
=============================================================================
